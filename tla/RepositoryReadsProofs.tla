------------------------ MODULE RepositoryReadsProofs ------------------------
(***************************************************************************)
(* Proofs about RepositoryReads, for any table of lanes and slots, any     *)
(* width of the generations and any number of changes, keys and failures.  *)
(*                                                                         *)
(* For the lanes every step of the interface is one of six: nothing, a     *)
(* handler that asks, the one that queues a mutation, a thread that        *)
(* answers, a handler that hears, or a step of the lanes themselves        *)
(* (StepsAre).  The type invariant is kept along the way.  The mutations   *)
(* and the reads of the panes are then followed through these six.         *)
(***************************************************************************)
EXTENDS RepositoryReads, ServedLanesProofs, FiniteSetTheorems

LEMMA PickerKinds ==
    DOMAIN PickerOf = {"LoadBranches", "LoadStashes", "LoadAccounts", "LoadRecentProjects"}
BY DEF PickerOf

LEMMA CounterKinds ==
    DOMAIN CounterOf = {"LoadBranches", "LoadStashes", "LoadAccounts", "LoadRecentProjects",
                        "LoadWorktrees"}
BY DEF CounterOf

LEMMA CountersAre ==
    Counters = {"branch", "stash", "project", "worktree"}
BY CounterKinds DEF Counters, CounterOf

LEMMA FollowingType ==
    ASSUME NEW k \in Kinds, NEW g \in Nat
    PROVE  /\ Following(k, g) \in 0 .. Generations[k] - 1
           /\ Following(k, g) \in Nat
BY ReadsAssumption DEF Following

LEMMA FollowingDiffers ==
    ASSUME NEW k \in Kinds, NEW g \in 0 .. Generations[k] - 1
    PROVE  Following(k, g) # g
BY ReadsAssumption DEF Following

LEMMA FollowingTwiceDiffers ==
    ASSUME NEW g \in 0 .. Generations["LoadHistory"] - 1
    PROVE  Following("LoadHistory", Following("LoadHistory", g)) # g
BY ReadsAssumption, TablesAssumption DEF Following

(* The states of the panes. *)
RefreshPane ==
    [loading : BOOLEAN, again : BOOLEAN, generation : 0 .. Generations["Refresh"] - 1,
     failed : BOOLEAN]
HistoryPane ==
    [loading : BOOLEAN, again : BOOLEAN, generation : 0 .. Generations["LoadHistory"] - 1,
     branch : Topics \cup {"HEAD"}, pages : Seq(Page), complete : BOOLEAN, stale : BOOLEAN]
BranchesPane == [loading : BOOLEAN, loaded : BOOLEAN, generation : Nat]
Pickers == {"Branches", "Stashes", "Accounts", "Projects"}
ModalKinds == {"none", "Commit", "HistoryBranches", "CompareBranches"} \cup Pickers
Modal ==
    [kind : ModalKinds, loading : BOOLEAN, opened : 0 .. MaxChanges, items : 0 .. MaxChanges]

LEMMA KindsOfCommands ==
    ASSUME NEW c \in Command
    PROVE  /\ c.kind \in Kinds
           /\ c.kind # "Operate" => c.kind \in Kinds \ Operations
           /\ c.generation \in Nat
           /\ c.kind = "LoadHistory" => c.branch \in Topics \cup {"HEAD"} /\ c.skip \in Nat
           /\ c.kind = "Operate" => c.changes_history \in BOOLEAN
BY ReadsAssumption, PickerKinds DEF Command

LEMMA PushType ==
    ASSUME NEW m \in MailboxOf(Command), NEW c \in Command
    PROVE  Push(m, c) \in MailboxOf(Command)
<1>1. CASE IsOperation(c)
    <2>1. Append(m.operations, c) \in Seq(Command)
        BY DEF MailboxOf
    <2> QED
        BY <1>1, <2>1 DEF Push, MailboxOf
<1>2. CASE ~ IsOperation(c)
    <2>1. SlotOf[c.kind] \in Slots
        BY <1>2, KindsOfCommands, ReadsAssumption, TablesAssumption DEF IsOperation
    <2> QED
        BY <1>2, <2>1 DEF Push, MailboxOf
<1> QED
    BY <1>1, <1>2

LEMMA PopOperationType ==
    ASSUME NEW m \in MailboxOf(Command), PopsOperation(m)
    PROVE  /\ WithoutHead(m) \in MailboxOf(Command)
           /\ Head(m.operations) \in Command
<1>1. m.operations \in Seq(Command) /\ m.operations # <<>>
    BY DEF MailboxOf, PopsOperation
<1>2. Tail(m.operations) \in Seq(Command) /\ Head(m.operations) \in Command
    BY <1>1, HeadTailProperties
<1> QED
    BY <1>2 DEF WithoutHead, MailboxOf

LEMMA PopSlotType ==
    ASSUME NEW m \in MailboxOf(Command), NEW s \in Slots, PopsSlot(m, s)
    PROVE  /\ WithoutSlot(m, s) \in MailboxOf(Command)
           /\ m.slots[s] \in Command
<1>1. m.slots[s] \in Command
    BY DEF MailboxOf, PopsSlot, Full
<1> QED
    BY <1>1 DEF WithoutSlot, MailboxOf
-----------------------------------------------------------------------------
LaneType == LaneTypeOK(Command, Event)

LEMMA HandleType ==
    ASSUME LaneType, NEW effects \in Seq(Command), Handle(effects)
    PROVE  LaneType'
BY DEF LaneType, LaneTypeOK, Handle

LEMMA HandleAnswerType ==
    ASSUME LaneType, answers # <<>>, NEW effects \in Seq(Command), HandleAnswer(effects)
    PROVE  LaneType'
BY HeadTailProperties DEF LaneType, LaneTypeOK, HandleAnswer

LEMMA AnswerType ==
    ASSUME LaneType, NEW l \in Lanes, NEW event \in Event, Answer(l, event)
    PROVE  LaneType'
BY DEF LaneType, LaneTypeOK, Answer

LEMMA ServeType ==
    ASSUME LaneType, Serve
    PROVE  LaneType'
<1> USE DEF LaneType, LaneTypeOK
<1>1. CASE Dispatch
    <2>1. Head(outbox) \in Command /\ Tail(outbox) \in Seq(Command)
        BY <1>1, HeadTailProperties DEF Dispatch
    <2>2. LaneOf[Head(outbox).kind] \in Lanes
        BY <2>1, KindsOfCommands, TablesAssumption
    <2>3. mailbox' \in [Lanes -> MailboxOf(Command)]
        BY <1>1, <2>1, <2>2, PushType DEF Dispatch
    <2> QED
        BY <1>1, <2>1, <2>3 DEF Dispatch
<1>2. ASSUME NEW l \in Lanes, BeginOperation(l)
      PROVE  LaneType'
    <2>1. /\ WithoutHead(mailbox[l]) \in MailboxOf(Command)
          /\ Head(mailbox[l].operations) \in Command
        BY <1>2, PopOperationType DEF BeginOperation
    <2> QED
        BY <1>2, <2>1 DEF BeginOperation
<1>3. ASSUME NEW l \in Lanes, NEW s \in Slots, BeginRead(l, s)
      PROVE  LaneType'
    <2>1. /\ WithoutSlot(mailbox[l], s) \in MailboxOf(Command)
          /\ mailbox[l].slots[s] \in Command
        BY <1>3, PopSlotType DEF BeginRead
    <2> QED
        BY <1>3, <2>1 DEF BeginRead
<1> QED
    BY <1>1, <1>2, <1>3 DEF Serve
-----------------------------------------------------------------------------
LEMMA RequestRefreshType ==
    ASSUME NEW r \in RefreshPane
    PROVE  /\ RequestRefresh(r) \in RefreshPane
           /\ RequestRefresh(r).loading
           /\ r.loading <=> RequestRefresh(r).generation = r.generation
<1>1. "Refresh" \in Kinds
    BY ReadsAssumption
<1>2. r.generation \in 0 .. Generations["Refresh"] - 1 /\ r.generation \in Nat
    BY <1>1, ReadsAssumption DEF RefreshPane
<1> QED
    BY <1>1, <1>2, FollowingType, FollowingDiffers DEF RequestRefresh, RefreshPane

LEMMA RequestHistoryType ==
    ASSUME NEW h \in HistoryPane, NEW reset \in BOOLEAN
    PROVE  /\ RequestHistory(h, reset) \in HistoryPane
           /\ RequestHistory(h, reset).loading
           /\ RequestHistory(h, reset).branch = h.branch
           /\ h.loading <=> RequestHistory(h, reset).generation = h.generation
<1>1. "LoadHistory" \in Kinds
    BY ReadsAssumption
<1>2. h.generation \in 0 .. Generations["LoadHistory"] - 1 /\ h.generation \in Nat
    BY <1>1, ReadsAssumption DEF HistoryPane
<1> QED
    BY <1>1, <1>2, FollowingType, FollowingDiffers DEF RequestHistory, HistoryPane

LEMMA RequestHistoryBranchesType ==
    ASSUME NEW b \in BranchesPane
    PROVE  RequestHistoryBranches(b) \in BranchesPane
<1>1. "LoadHistoryBranches" \in Kinds
    BY ReadsAssumption
<1> QED
    BY <1>1, FollowingType DEF RequestHistoryBranches, BranchesPane

LEMMA ListType ==
    ASSUME listing \in [Counters -> Nat], NEW k \in DOMAIN CounterOf
    PROVE  /\ List(k) \in [Counters -> Nat]
           /\ CounterOf[k] \in Counters
           /\ [kind |-> k, generation |-> List(k)[CounterOf[k]]] \in Command
<1>1. CounterOf[k] \in Counters
    BY DEF Counters
<1>2. k \in Kinds
    BY ReadsAssumption, PickerKinds, CounterKinds
<1>3. Following(k, listing[CounterOf[k]]) \in Nat
    BY <1>1, <1>2, FollowingType
<1>4. List(k) \in [Counters -> Nat]
    BY <1>1, <1>3 DEF List
<1> QED
    BY <1>1, <1>4, PickerKinds, CounterKinds DEF Command
-----------------------------------------------------------------------------
(* What a handler sends: reads whose generation is that of their pane.        *)
Reads(effects, r, h) ==
    /\ effects \in Seq(Command)
    /\ \A i \in DOMAIN effects :
          /\ effects[i].kind # "Operate"
          /\ effects[i].kind = "Refresh" => effects[i].generation = r.generation
          /\ effects[i].kind = "LoadHistory" => effects[i].generation = h.generation

Sends(effects, k, pane) ==
    \E i \in DOMAIN effects : effects[i].kind = k /\ effects[i].generation = pane.generation

PanesType ==
    /\ status \in Version
    /\ refresh \in RefreshPane /\ history \in HistoryPane /\ branches \in BranchesPane
    /\ listing \in [Counters -> Nat] /\ groups \in 0 .. MaxChanges /\ modal \in Modal
    /\ busy \in BOOLEAN /\ operation_id \in Nat

OutsideType == repository \in Version /\ notified \in BOOLEAN

CountersType ==
    settling \in BOOLEAN /\ pressed \in 0 .. MaxKeys /\ failures \in 0 .. MaxFailures

LEMMA TypeOKParts ==
    TypeOK <=> LaneType /\ PanesType /\ OutsideType /\ CountersType
BY DEF TypeOK, LaneType, PanesType, OutsideType, CountersType, RefreshPane, HistoryPane,
       BranchesPane, Modal, ModalKinds, Pickers

LEMMA NothingSent ==
    ASSUME NEW r, NEW h
    PROVE  Reads(<<>>, r, h)
BY DEF Reads

LEMMA RefreshSends ==
    ASSUME PanesType, NEW r \in RefreshPane, NEW h
    PROVE  /\ Reads(RefreshEffects(r), r, h)
           /\ Sent(refresh, r) => Sends(RefreshEffects(r), "Refresh", r)
           /\ Listed(r) \in [Counters -> Nat]
<1>1. RefreshLists \in {"LoadRecentProjects", "LoadWorktrees"}
    BY DEF RefreshLists
<1>2. RefreshLists \in DOMAIN CounterOf
    BY <1>1, CounterKinds
<1>3. /\ List(RefreshLists) \in [Counters -> Nat]
      /\ [kind |-> RefreshLists, generation |-> List(RefreshLists)[CounterOf[RefreshLists]]]
         \in Command
    BY <1>2, ListType DEF PanesType
<1>4. [kind |-> "Refresh", generation |-> r.generation] \in Command
    <2>1. r.generation \in Nat
        BY ReadsAssumption DEF RefreshPane
    <2> QED
        BY <2>1 DEF Command
<1>5. Listed(r) \in [Counters -> Nat]
    BY <1>3 DEF Listed, PanesType
<1>6. CASE ~ Sent(refresh, r)
    BY <1>5, <1>6, NothingSent DEF RefreshEffects
<1>7. CASE Sent(refresh, r)
    <2> DEFINE first == [kind |-> "Refresh", generation |-> r.generation]
               second == [kind |-> RefreshLists,
                          generation |-> List(RefreshLists)[CounterOf[RefreshLists]]]
    <2>1. RefreshEffects(r) = <<first, second>>
        BY <1>7 DEF RefreshEffects, Listed
    <2>2. second.kind = RefreshLists /\ second.kind \notin {"Operate", "Refresh", "LoadHistory"}
        BY <1>1
    <2>3. first.kind = "Refresh" /\ first.generation = r.generation
        OBVIOUS
    <2> HIDE DEF first, second
    <2>4. <<first, second>> \in Seq(Command)
        BY <1>3, <1>4 DEF first, second
    <2>5. Reads(<<first, second>>, r, h)
        BY <2>2, <2>3, <2>4 DEF Reads
    <2>6. Sends(<<first, second>>, "Refresh", r)
        BY <2>3 DEF Sends
    <2> QED
        BY <1>5, <2>1, <2>5, <2>6
<1> QED
    BY <1>6, <1>7

LEMMA HistorySends ==
    ASSUME NEW h \in HistoryPane, NEW skip \in Nat, NEW r
    PROVE  /\ Reads(HistoryEffects(h, skip), r, h)
           /\ Sent(history, h) => Sends(HistoryEffects(h, skip), "LoadHistory", h)
<1>1. CASE ~ Sent(history, h)
    BY <1>1, NothingSent DEF HistoryEffects
<1>2. CASE Sent(history, h)
    <2> DEFINE first == [kind |-> "LoadHistory", generation |-> h.generation,
                         branch |-> h.branch, skip |-> skip]
    <2>1. HistoryEffects(h, skip) = <<first>>
        BY <1>2 DEF HistoryEffects
    <2>2. first \in Command
        <3>1. h.generation \in Nat /\ h.branch \in Topics \cup {"HEAD"}
            BY ReadsAssumption DEF HistoryPane
        <3> QED
            BY <3>1 DEF Command
    <2>3. first.kind = "LoadHistory" /\ first.generation = h.generation
        OBVIOUS
    <2> HIDE DEF first
    <2>4. Reads(<<first>>, r, h) /\ Sends(<<first>>, "LoadHistory", h)
        BY <2>2, <2>3 DEF Reads, Sends
    <2> QED
        BY <2>1, <2>4
<1> QED
    BY <1>1, <1>2

LEMMA HistoryBranchesSends ==
    ASSUME NEW b \in BranchesPane, NEW r, NEW h
    PROVE  Reads(HistoryBranchesEffects(b), r, h)
<1> DEFINE first == [kind |-> "LoadHistoryBranches", generation |-> b.generation]
<1>1. first \in Command /\ first.kind = "LoadHistoryBranches"
    BY DEF Command, BranchesPane
<1>2. HistoryBranchesEffects(b) \in {<<>>, <<first>>}
    BY DEF HistoryBranchesEffects
<1> HIDE DEF first
<1>3. Reads(<<first>>, r, h)
    BY <1>1 DEF Reads
<1> QED
    BY <1>2, <1>3, NothingSent

LEMMA SendsOfBoth ==
    ASSUME NEW r, NEW h, NEW s, NEW t, Reads(s, r, h), Reads(t, r, h)
    PROVE  /\ Reads(s \o t, r, h)
           /\ \A k, pane : Sends(s, k, pane) \/ Sends(t, k, pane) => Sends(s \o t, k, pane)
<1>1. s \in Seq(Command) /\ t \in Seq(Command)
    BY DEF Reads
<1>2. /\ s \o t \in Seq(Command)
      /\ Len(s \o t) = Len(s) + Len(t)
      /\ \A i \in 1 .. Len(s) + Len(t) :
            (s \o t)[i] = IF i <= Len(s) THEN s[i] ELSE t[i - Len(s)]
    BY <1>1, ConcatProperties
<1>3. /\ DOMAIN s = 1 .. Len(s) /\ DOMAIN t = 1 .. Len(t) /\ DOMAIN (s \o t) = 1 .. Len(s) + Len(t)
      /\ Len(s) \in Nat /\ Len(t) \in Nat
    BY <1>1, <1>2, LenProperties
<1>4. Reads(s \o t, r, h)
    <2> SUFFICES ASSUME NEW i \in 1 .. Len(s) + Len(t)
                 PROVE  /\ (s \o t)[i].kind # "Operate"
                        /\ (s \o t)[i].kind = "Refresh" => (s \o t)[i].generation = r.generation
                        /\ (s \o t)[i].kind = "LoadHistory" => (s \o t)[i].generation = h.generation
        BY <1>2, <1>3 DEF Reads
    <2>1. CASE i <= Len(s)
        BY <1>2, <1>3, <2>1 DEF Reads
    <2>2. CASE ~ (i <= Len(s))
        <3>1. i - Len(s) \in DOMAIN t
            BY <1>3, <2>2
        <3> QED
            BY <1>2, <2>2, <3>1 DEF Reads
    <2> QED
        BY <2>1, <2>2
<1>5. ASSUME NEW k, NEW pane, Sends(s, k, pane)
      PROVE  Sends(s \o t, k, pane)
    BY <1>2, <1>3, <1>5 DEF Sends
<1>6. ASSUME NEW k, NEW pane, Sends(t, k, pane)
      PROVE  Sends(s \o t, k, pane)
    <2>1. PICK i \in DOMAIN t : t[i].kind = k /\ t[i].generation = pane.generation
        BY <1>6 DEF Sends
    <2>2. i + Len(s) \in DOMAIN (s \o t) /\ (s \o t)[i + Len(s)] = t[i]
        BY <1>2, <1>3
    <2> QED
        BY <2>1, <2>2 DEF Sends
<1> QED
    BY <1>4, <1>5, <1>6
-----------------------------------------------------------------------------
(* Versions of HEAD begin with 1 and do not exceed those of the tree, also in *)
(* the answers: otherwise a page could have a version no page has.            *)
Bounded ==
    /\ 1 <= repository.head /\ repository.head <= repository.tree
    /\ \A i \in DOMAIN answers : 1 <= answers[i].seen.head

Coalesced(pane) == pane.again => pane.loading

ReadsInv ==
    /\ LaneType /\ PanesType /\ OutsideType /\ CountersType
    /\ Bounded /\ Coalesced(refresh) /\ Coalesced(history)

(* The newest answer ends what is waited for. *)
Ends(k) == Head(answers).command.kind = k /\ Current(Head(answers))

(* A pane that waits afterwards waited before, for the same, or has asked.     *)
Waits(k, waited, before, after, effects) ==
    after.loading => \/ waited /\ before.loading /\ after.generation = before.generation
                     \/ Sends(effects, k, after)

(* The steps, as the lanes see them: nothing, a handler that asks, the one     *)
(* that queues a mutation, a thread that answers, and a handler that hears.    *)
Resting == UNCHANGED <<lane, refresh, history, busy, operation_id>>

Asking ==
    \E effects \in Seq(Command) :
        /\ Handle(effects)
        /\ Reads(effects, refresh', history')
        /\ Waits("Refresh", TRUE, refresh, refresh', effects)
        /\ Waits("LoadHistory", TRUE, history, history', effects)
        /\ UNCHANGED <<busy, operation_id>>

Queueing ==
    \E c \in Command :
        /\ c.kind = "Operate" /\ c.generation = operation_id'
        /\ Handle(<<c>>)
        /\ ~ busy /\ busy'
        /\ UNCHANGED <<refresh, history>>

Answering ==
    \E l \in Lanes : \E event \in Event :
        /\ executing[l] # NoCommand /\ event.command = executing[l]
        /\ Answer(l, event)
        /\ UNCHANGED <<refresh, history, busy, operation_id>>

Hearing ==
    \E effects \in Seq(Command) :
        /\ answers # <<>> /\ HandleAnswer(effects)
        /\ Reads(effects, refresh', history')
        /\ Waits("Refresh", ~ Ends("Refresh"), refresh, refresh', effects)
        /\ Waits("LoadHistory", ~ Ends("LoadHistory"), history, history', effects)
        /\ busy' = (busy /\ ~ Ends("Operate"))
        /\ UNCHANGED operation_id

LEMMA NewestAnswer ==
    ASSUME ReadsInv, answers # <<>>
    PROVE  /\ Head(answers) \in Event
           /\ 1 <= Head(answers).seen.head
           /\ \A i \in DOMAIN Tail(answers) : 1 <= Tail(answers)[i].seen.head
<1>1. answers \in Seq(Event)
    BY DEF ReadsInv, LaneType, LaneTypeOK
<1>2. /\ Head(answers) \in Event /\ Tail(answers) \in Seq(Event)
      /\ Len(Tail(answers)) = Len(answers) - 1
      /\ \A i \in 1 .. Len(Tail(answers)) : Tail(answers)[i] = answers[i + 1]
    BY <1>1, HeadTailProperties
<1>3. /\ DOMAIN answers = 1 .. Len(answers) /\ Len(answers) \in Nat \ {0}
      /\ DOMAIN Tail(answers) = 1 .. Len(Tail(answers))
    BY <1>1, <1>2, LenProperties, EmptySeq
<1>4. Head(answers) = answers[1]
    BY <1>1
<1> QED
    BY <1>2, <1>3, <1>4 DEF ReadsInv, Bounded

LEMMA RefreshWaits ==
    ASSUME PanesType, NEW effects, RequestRefresh(refresh).generation # refresh.generation
                      => Sends(effects, "Refresh", RequestRefresh(refresh))
    PROVE  /\ Waits("Refresh", TRUE, refresh, RequestRefresh(refresh), effects)
           /\ Coalesced(RequestRefresh(refresh))
BY RequestRefreshType DEF Waits, Coalesced, PanesType

LEMMA HistoryWaits ==
    ASSUME PanesType, NEW reset \in BOOLEAN, NEW effects,
           RequestHistory(history, reset).generation # history.generation
           => Sends(effects, "LoadHistory", RequestHistory(history, reset))
    PROVE  /\ Waits("LoadHistory", TRUE, history, RequestHistory(history, reset), effects)
           /\ Coalesced(RequestHistory(history, reset))
BY RequestHistoryType DEF Waits, Coalesced, PanesType

LEMMA OutsideChangeStep ==
    ASSUME ReadsInv, OutsideChange
    PROVE  ReadsInv' /\ Resting
<1>1. UNCHANGED lane /\ UNCHANGED panes /\ UNCHANGED <<settling, pressed, failures>>
    BY DEF OutsideChange
<1>2. LaneType' /\ PanesType' /\ CountersType' /\ Resting
    BY <1>1 DEF ReadsInv, LaneType, LaneTypeOK, PanesType, CountersType, Resting, lane, panes
<1>3. PICK moved \in {0, 1} :
        repository' = [tree |-> repository.tree + 1, head |-> repository.head + moved]
    BY DEF OutsideChange
<1>4. /\ repository.tree \in 0 .. MaxChanges /\ repository.head \in 0 .. MaxChanges
      /\ 1 <= repository.head /\ repository.head <= repository.tree
      /\ repository.tree < MaxChanges /\ MaxChanges \in Nat
    BY ReadsAssumption DEF OutsideChange, ReadsInv, OutsideType, Version, Bounded
<1>5. /\ repository' \in Version
      /\ 1 <= repository'.head /\ repository'.head <= repository'.tree
    BY <1>3, <1>4 DEF Version
<1>6. notified' \in BOOLEAN
    BY DEF OutsideChange, ReadsInv, OutsideType
<1>7. Bounded' /\ Coalesced(refresh)' /\ Coalesced(history)'
    BY <1>1, <1>5 DEF ReadsInv, Bounded, Coalesced, lane, panes
<1> QED
    BY <1>2, <1>5, <1>6, <1>7 DEF ReadsInv, OutsideType

LEMMA NoticeStep ==
    ASSUME ReadsInv, Notice
    PROVE  ReadsInv' /\ Resting
<1>1. /\ UNCHANGED lane /\ UNCHANGED panes /\ UNCHANGED <<repository, pressed, failures>>
      /\ notified' \in BOOLEAN /\ settling' \in BOOLEAN
    BY DEF Notice
<1>2. LaneType' /\ PanesType' /\ CountersType' /\ OutsideType' /\ Resting
    BY <1>1 DEF ReadsInv, LaneType, LaneTypeOK, PanesType, CountersType, OutsideType, Resting,
                lane, panes
<1>3. Bounded' /\ Coalesced(refresh)' /\ Coalesced(history)'
    BY <1>1 DEF ReadsInv, Bounded, Coalesced, lane, panes
<1> QED
    BY <1>2, <1>3 DEF ReadsInv

(* A handler keeps the invariant if its panes do. *)
LEMMA AskingKeeps ==
    ASSUME ReadsInv, NEW effects, Handle(effects),
           Reads(effects, refresh', history'),
           Waits("Refresh", TRUE, refresh, refresh', effects),
           Waits("LoadHistory", TRUE, history, history', effects),
           PanesType', CountersType', UNCHANGED outside, UNCHANGED <<busy, operation_id>>,
           Coalesced(refresh'), Coalesced(history')
    PROVE  ReadsInv' /\ Asking
<1>1. effects \in Seq(Command)
    BY DEF Reads
<1>2. LaneType'
    BY <1>1, HandleType DEF ReadsInv
<1>3. OutsideType' /\ Bounded'
    BY DEF ReadsInv, OutsideType, Bounded, Handle, outside
<1>4. Coalesced(refresh)' /\ Coalesced(history)'
    BY DEF Coalesced
<1>5. Asking
    BY <1>1 DEF Asking
<1> QED
    BY <1>2, <1>3, <1>4, <1>5 DEF ReadsInv

LEMMA HearingKeeps ==
    ASSUME ReadsInv, answers # <<>>, NEW effects, HandleAnswer(effects),
           Reads(effects, refresh', history'),
           Waits("Refresh", ~ Ends("Refresh"), refresh, refresh', effects),
           Waits("LoadHistory", ~ Ends("LoadHistory"), history, history', effects),
           busy' = (busy /\ ~ Ends("Operate")), UNCHANGED operation_id,
           PanesType', CountersType', UNCHANGED outside,
           Coalesced(refresh'), Coalesced(history')
    PROVE  ReadsInv' /\ Hearing
<1>1. effects \in Seq(Command)
    BY DEF Reads
<1>2. LaneType'
    BY <1>1, HandleAnswerType DEF ReadsInv
<1>3. OutsideType' /\ Bounded'
    BY NewestAnswer DEF ReadsInv, OutsideType, Bounded, HandleAnswer, outside
<1>4. Coalesced(refresh)' /\ Coalesced(history)'
    BY DEF Coalesced
<1>5. Hearing
    BY <1>1 DEF Hearing
<1> QED
    BY <1>2, <1>3, <1>4, <1>5 DEF ReadsInv
-----------------------------------------------------------------------------
LEMMA PressType ==
    ASSUME ReadsInv, NEW key, Press(key)
    PROVE  /\ pressed' \in 0 .. MaxKeys
           /\ UNCHANGED <<outside, status, groups, failures>>
BY ReadsAssumption DEF ReadsInv, CountersType, Press

(* A timer that refreshes: the settled change and the heartbeat. *)
LEMMA RefreshStep ==
    ASSUME ReadsInv,
           Refresh(RequestRefresh(refresh)), Handle(RefreshEffects(RequestRefresh(refresh))),
           UNCHANGED <<outside, status, history, branches, groups, modal, busy, operation_id,
                       pressed, failures>>,
           settling' \in BOOLEAN
    PROVE  ReadsInv' /\ Asking
<1> DEFINE r == RequestRefresh(refresh)
           effects == RefreshEffects(r)
<1>1. PanesType /\ CountersType
    BY DEF ReadsInv
<1>2. r \in RefreshPane
    BY <1>1, RequestRefreshType DEF PanesType
<1>3. /\ Reads(effects, r, history)
      /\ Sent(refresh, r) => Sends(effects, "Refresh", r)
      /\ Listed(r) \in [Counters -> Nat]
    BY <1>1, <1>2, RefreshSends
<1>4. Waits("Refresh", TRUE, refresh, r, effects) /\ Coalesced(r)
    BY <1>1, <1>3, RefreshWaits DEF Sent
<1>5. refresh' = r /\ listing' = Listed(r) /\ Handle(effects) /\ history' = history
    BY DEF Refresh
<1> HIDE DEF r, effects
<1>6. PanesType' /\ CountersType'
    BY <1>1, <1>2, <1>3, <1>5 DEF PanesType, CountersType
<1>7. Waits("LoadHistory", TRUE, history, history', effects) /\ Coalesced(history')
    BY <1>5 DEF Waits, ReadsInv, Coalesced
<1> QED
    BY <1>3, <1>4, <1>5, <1>6, <1>7, AskingKeeps

LEMMA ActiveRefreshStep ==
    ASSUME ReadsInv, ActiveRefresh
    PROVE  ReadsInv' /\ Asking
<1> DEFINE r == RequestRefresh(refresh)
           b == IF branches.loading THEN branches ELSE RequestHistoryBranches(branches)
           effects == RefreshEffects(r) \o HistoryBranchesEffects(b)
<1>1. PanesType /\ CountersType
    BY DEF ReadsInv
<1>2. r \in RefreshPane /\ b \in BranchesPane
    BY <1>1, RequestRefreshType, RequestHistoryBranchesType DEF PanesType
<1>3. /\ Reads(RefreshEffects(r), r, history)
      /\ Sent(refresh, r) => Sends(RefreshEffects(r), "Refresh", r)
      /\ Listed(r) \in [Counters -> Nat]
    BY <1>1, <1>2, RefreshSends
<1>4. Reads(HistoryBranchesEffects(b), r, history)
    BY <1>2, HistoryBranchesSends
<1>5. /\ Reads(effects, r, history)
      /\ Sent(refresh, r) => Sends(effects, "Refresh", r)
    BY <1>3, <1>4, SendsOfBoth
<1>6. Waits("Refresh", TRUE, refresh, r, effects) /\ Coalesced(r)
    BY <1>1, <1>5, RefreshWaits DEF Sent
<1>7. /\ refresh' = r /\ listing' = Listed(r) /\ branches' = b /\ Handle(effects)
      /\ pressed' \in 0 .. MaxKeys /\ settling' \in BOOLEAN
      /\ UNCHANGED <<outside, status, groups, failures, history, modal, busy, operation_id>>
    BY <1>1, PressType DEF Refresh, ActiveRefresh
<1> HIDE DEF r, b, effects
<1>8. PanesType' /\ CountersType'
    BY <1>1, <1>2, <1>3, <1>7 DEF PanesType, CountersType
<1>9. Waits("LoadHistory", TRUE, history, history', effects) /\ Coalesced(history')
    BY <1>7 DEF Waits, ReadsInv, Coalesced
<1> QED
    BY <1>5, <1>6, <1>7, <1>8, <1>9, AskingKeeps

LEMMA NearEndStep ==
    ASSUME ReadsInv, NearEnd
    PROVE  ReadsInv' /\ Asking
<1> DEFINE h == RequestHistory(history, FALSE)
           effects == HistoryEffects(h, Len(history.pages))
<1>1. PanesType /\ CountersType
    BY DEF ReadsInv
<1>2. h \in HistoryPane /\ Len(history.pages) \in Nat
    <2>1. history \in HistoryPane /\ history.pages \in Seq(Page)
        BY <1>1 DEF PanesType, HistoryPane
    <2> QED
        BY <2>1, RequestHistoryType, LenProperties
<1>3. /\ Reads(effects, refresh, h)
      /\ Sent(history, h) => Sends(effects, "LoadHistory", h)
    BY <1>2, HistorySends
<1>4. Waits("LoadHistory", TRUE, history, h, effects) /\ Coalesced(h)
    BY <1>1, <1>3, HistoryWaits DEF Sent
<1>5. /\ history' = h /\ Handle(effects) /\ pressed' \in 0 .. MaxKeys
      /\ UNCHANGED <<outside, status, groups, failures, settling, refresh, branches, listing,
                     modal, busy, operation_id>>
    BY <1>1, PressType DEF NearEnd
<1> HIDE DEF h, effects
<1>6. PanesType' /\ CountersType'
    BY <1>1, <1>2, <1>5 DEF PanesType, CountersType
<1>7. Waits("Refresh", TRUE, refresh, refresh', effects) /\ Coalesced(refresh')
    BY <1>5 DEF Waits, ReadsInv, Coalesced
<1> QED
    BY <1>3, <1>4, <1>5, <1>6, <1>7, AskingKeeps

LEMMA OpenedType ==
    ASSUME ReadsInv, NEW kind \in ModalKinds, NEW loading \in BOOLEAN
    PROVE  Opened(kind, loading) \in Modal
BY ReadsAssumption DEF Opened, Modal, ReadsInv, OutsideType, Version

LEMMA NoModalType == NoModal \in Modal
BY ReadsAssumption DEF NoModal, Modal, ModalKinds

(* Handlers that leave refresh and history alone. *)
LEMMA OtherAskingKeeps ==
    ASSUME ReadsInv, NEW effects, Handle(effects), Reads(effects, refresh, history),
           UNCHANGED <<outside, refresh, history, busy, operation_id>>,
           PanesType', CountersType'
    PROVE  ReadsInv' /\ Asking
<1>1. /\ Waits("Refresh", TRUE, refresh, refresh', effects)
      /\ Waits("LoadHistory", TRUE, history, history', effects)
      /\ Coalesced(refresh') /\ Coalesced(history')
    BY DEF Waits, ReadsInv, Coalesced
<1> QED
    BY <1>1, AskingKeeps

LEMMA OpenHistoryBranchesStep ==
    ASSUME ReadsInv, NEW picker \in ModalKinds, OpenHistoryBranches(picker)
    PROVE  ReadsInv' /\ Asking
<1> DEFINE b == IF branches.loaded \/ branches.loading
                THEN branches ELSE RequestHistoryBranches(branches)
           effects == HistoryBranchesEffects(b)
<1>1. PanesType /\ CountersType
    BY DEF ReadsInv
<1>2. b \in BranchesPane
    BY <1>1, RequestHistoryBranchesType DEF PanesType
<1>3. Reads(effects, refresh, history)
    BY <1>2, HistoryBranchesSends
<1>4. /\ branches' = b /\ Handle(effects) /\ pressed' \in 0 .. MaxKeys
      /\ modal' = Opened(picker, branches.loading)
      /\ UNCHANGED <<outside, status, groups, failures, settling, refresh, history, listing,
                     busy, operation_id>>
    BY <1>1, PressType DEF OpenHistoryBranches
<1>5. modal' \in Modal
    BY <1>1, <1>4, OpenedType DEF PanesType, BranchesPane
<1> HIDE DEF b, effects
<1>6. PanesType' /\ CountersType'
    BY <1>1, <1>2, <1>4, <1>5 DEF PanesType, CountersType
<1> QED
    BY <1>3, <1>4, <1>6, OtherAskingKeeps

LEMMA OpenPickerStep ==
    ASSUME ReadsInv, NEW k \in DOMAIN PickerOf, OpenPicker(k)
    PROVE  ReadsInv' /\ Asking
<1> DEFINE c == [kind |-> k, generation |-> List(k)[CounterOf[k]]]
<1>1. PanesType /\ CountersType
    BY DEF ReadsInv
<1>2. k \in DOMAIN CounterOf /\ PickerOf[k] \in ModalKinds /\ "Projects" \in ModalKinds
    BY PickerKinds, CounterKinds DEF PickerOf, ModalKinds, Pickers
<1>3. List(k) \in [Counters -> Nat] /\ c \in Command
    BY <1>1, <1>2, ListType DEF PanesType
<1>4. c.kind \notin {"Operate", "Refresh", "LoadHistory"}
    BY PickerKinds
<1>5. /\ listing' = List(k) /\ Handle(<<c>>) /\ pressed' \in 0 .. MaxKeys
      /\ UNCHANGED <<outside, status, groups, failures, settling, refresh, history, branches,
                     busy, operation_id>>
    BY <1>1, PressType DEF OpenPicker
<1>6. modal' \in Modal
    <2>1. Opened(PickerOf[k], TRUE) \in Modal /\ Opened("Projects", groups = 0) \in Modal
        BY <1>2, OpenedType
    <2>2. [Opened("Projects", groups = 0) EXCEPT !.items = groups] \in Modal
        BY <1>1, <2>1 DEF Modal, PanesType
    <2> QED
        BY <2>1, <2>2 DEF OpenPicker
<1> HIDE DEF c
<1>7. Reads(<<c>>, refresh, history)
    BY <1>3, <1>4 DEF Reads
<1>8. PanesType' /\ CountersType'
    BY <1>1, <1>3, <1>5, <1>6 DEF PanesType, CountersType
<1> QED
    BY <1>5, <1>7, <1>8, OtherAskingKeeps

LEMMA OpenFormStep ==
    ASSUME ReadsInv, OpenForm
    PROVE  ReadsInv' /\ Asking
<1>1. PanesType /\ CountersType
    BY DEF ReadsInv
<1>2. /\ modal' \in Modal /\ Handle(<<>>) /\ pressed' \in 0 .. MaxKeys
      /\ UNCHANGED <<outside, status, groups, failures, settling, refresh, history, branches,
                     listing, busy, operation_id>>
    BY <1>1, OpenedType, PressType DEF OpenForm, ModalKinds
<1>3. PanesType' /\ CountersType'
    BY <1>1, <1>2 DEF PanesType, CountersType
<1> QED
    BY <1>2, <1>3, NothingSent, OtherAskingKeeps

LEMMA CloseStep ==
    ASSUME ReadsInv, Close
    PROVE  ReadsInv' /\ Resting
<1>1. /\ UNCHANGED <<outside, settling, status, refresh, history, branches, listing, groups,
                     busy, operation_id, pressed, failures>>
      /\ UNCHANGED lane /\ modal' \in Modal
    BY NoModalType DEF Close
<1>2. LaneType' /\ PanesType' /\ CountersType' /\ OutsideType' /\ Resting
    BY <1>1 DEF ReadsInv, LaneType, LaneTypeOK, PanesType, CountersType, OutsideType, Resting,
                lane, outside
<1>3. Bounded' /\ Coalesced(refresh)' /\ Coalesced(history)'
    BY <1>1 DEF ReadsInv, Bounded, Coalesced, lane, outside
<1> QED
    BY <1>2, <1>3 DEF ReadsInv

LEMMA SelectHistoryBranchStep ==
    ASSUME ReadsInv, NEW b \in Topics \cup {"HEAD"}, SelectHistoryBranch(b)
    PROVE  ReadsInv' /\ Asking
<1> DEFINE effects == HistoryEffects(Select(b), 0)
           bumped == [history EXCEPT !.branch = b, !.pages = <<>>, !.complete = FALSE,
                                     !.again = FALSE,
                                     !.generation = Following("LoadHistory", @),
                                     !.loading = FALSE]
<1>1. PanesType /\ CountersType
    BY DEF ReadsInv
<1>2. "LoadHistory" \in Kinds /\ history.generation \in 0 .. Generations["LoadHistory"] - 1
    BY <1>1, ReadsAssumption DEF PanesType, HistoryPane
<1>3. history.generation \in Nat
    BY <1>2, ReadsAssumption
<1>4. bumped \in HistoryPane /\ ~ bumped.loading /\ ~ bumped.again
    <2>1. Following("LoadHistory", history.generation) \in 0 .. Generations["LoadHistory"] - 1
        BY <1>2, <1>3, FollowingType
    <2>2. <<>> \in Seq(Page)
        OBVIOUS
    <2> QED
        BY <1>1, <2>1, <2>2 DEF PanesType, HistoryPane
<1>5. /\ Select(b) \in HistoryPane
      /\ Select(b).generation =
            Following("LoadHistory", Following("LoadHistory", history.generation))
      /\ ~ Select(b).again
    <2>1. Select(b) = RequestHistory(bumped, TRUE)
        BY DEF Select
    <2>2. bumped.generation = Following("LoadHistory", history.generation)
        BY <1>1 DEF PanesType, HistoryPane
    <2> HIDE DEF bumped
    <2> QED
        <3>1. RequestHistory(bumped, TRUE) \in HistoryPane
            BY <1>4, RequestHistoryType
        <3>2. RequestHistory(bumped, TRUE) =
                  [bumped EXCEPT !.loading = TRUE,
                                 !.generation = Following("LoadHistory", @),
                                 !.complete = @ /\ ~ TRUE]
            BY <1>4 DEF RequestHistory
        <3>3. /\ RequestHistory(bumped, TRUE).generation =
                     Following("LoadHistory", bumped.generation)
              /\ RequestHistory(bumped, TRUE).again = bumped.again
            BY <1>4, <3>2 DEF HistoryPane
        <3> QED
            BY <1>4, <2>1, <2>2, <3>1, <3>3
<1>6. Sent(history, Select(b))
    BY <1>2, <1>5, FollowingTwiceDiffers DEF Sent
<1>7. Reads(effects, refresh, Select(b)) /\ Sends(effects, "LoadHistory", Select(b))
    BY <1>5, <1>6, HistorySends
<1>8. /\ history' = Select(b) /\ Handle(effects) /\ modal' \in Modal
      /\ UNCHANGED <<outside, settling, status, refresh, branches, listing, groups, busy,
                     operation_id, pressed, failures>>
    BY NoModalType DEF SelectHistoryBranch
<1> HIDE DEF effects, bumped
<1>9. PanesType' /\ CountersType'
    BY <1>1, <1>5, <1>8 DEF PanesType, CountersType
<1>10. /\ Waits("LoadHistory", TRUE, history, history', effects) /\ Coalesced(history')
       /\ Waits("Refresh", TRUE, refresh, refresh', effects) /\ Coalesced(refresh')
    BY <1>5, <1>7, <1>8 DEF Waits, ReadsInv, Coalesced
<1> QED
    BY <1>7, <1>8, <1>9, <1>10, AskingKeeps

LEMMA QueueOperationStep ==
    ASSUME ReadsInv, NEW changes \in BOOLEAN, QueueOperation(changes)
    PROVE  ReadsInv' /\ Queueing
<1> DEFINE c == [kind |-> "Operate", generation |-> operation_id', changes_history |-> changes]
<1>1. PanesType /\ CountersType /\ LaneType
    BY DEF ReadsInv
<1>2. operation_id' \in Nat
    BY <1>1, ReadsAssumption, FollowingType DEF QueueOperation, PanesType
<1>3. c \in Command /\ c.kind = "Operate" /\ c.generation = operation_id'
    BY <1>2 DEF Command
<1>4. /\ Handle(<<c>>) /\ ~ busy /\ busy' = TRUE /\ pressed' \in 0 .. MaxKeys
      /\ UNCHANGED <<outside, status, groups, failures, settling, refresh, history, branches,
                     listing, modal>>
    BY <1>1, PressType DEF QueueOperation
<1> HIDE DEF c
<1>5. Queueing
    BY <1>3, <1>4 DEF Queueing
<1>6. LaneType'
    <2>1. <<c>> \in Seq(Command)
        BY <1>3
    <2> QED
        BY <1>1, <1>4, <2>1, HandleType
<1>7. PanesType' /\ CountersType' /\ OutsideType' /\ Bounded'
    BY <1>1, <1>2, <1>4 DEF ReadsInv, PanesType, CountersType, OutsideType, Bounded, Handle, outside
<1>8. Coalesced(refresh)' /\ Coalesced(history)'
    BY <1>4 DEF ReadsInv, Coalesced
<1> QED
    BY <1>5, <1>6, <1>7, <1>8 DEF ReadsInv
-----------------------------------------------------------------------------
(* The threads. *)

LEMMA ServeStep ==
    ASSUME ReadsInv, Serve, UNCHANGED others
    PROVE  ReadsInv'
<1>1. UNCHANGED answers
    BY DEF Serve, Dispatch, BeginOperation, BeginRead
<1>2. UNCHANGED outside /\ UNCHANGED panes /\ UNCHANGED <<settling, pressed, failures>>
    BY DEF others
<1>3. LaneType'
    BY ServeType DEF ReadsInv
<1>4. PanesType' /\ CountersType' /\ OutsideType'
    BY <1>2 DEF ReadsInv, PanesType, CountersType, OutsideType, outside, panes
<1>5. Bounded' /\ Coalesced(refresh)' /\ Coalesced(history)'
    BY <1>1, <1>2 DEF ReadsInv, Bounded, Coalesced, outside, panes
<1> QED
    BY <1>3, <1>4, <1>5 DEF ReadsInv

LEMMA FinishType ==
    ASSUME ReadsInv, NEW c, NEW ok \in Outcomes(c), Finish(ok)
    PROVE  /\ ok \in BOOLEAN
           /\ PanesType' /\ CountersType' /\ Coalesced(refresh)' /\ Coalesced(history)'
           /\ UNCHANGED <<refresh, history, busy, operation_id>>
<1>1. ok \in BOOLEAN /\ (~ ok => failures < MaxFailures)
    BY DEF Outcomes
<1>2. UNCHANGED panes /\ UNCHANGED <<settling, pressed>>
    BY DEF Finish
<1>3. failures' \in 0 .. MaxFailures
    BY <1>1, ReadsAssumption DEF Finish, ReadsInv, CountersType
<1> QED
    BY <1>1, <1>2, <1>3 DEF ReadsInv, PanesType, CountersType, Coalesced, panes

LEMMA AnsweringKeeps ==
    ASSUME ReadsInv, NEW l \in Lanes, NEW ok \in BOOLEAN, NEW seen \in Version,
           executing[l] # NoCommand, 1 <= seen.head,
           Answer(l, [command |-> executing[l], ok |-> ok, seen |-> seen]),
           OutsideType', 1 <= repository'.head, repository'.head <= repository'.tree,
           PanesType', CountersType', Coalesced(refresh)', Coalesced(history)',
           UNCHANGED <<refresh, history, busy, operation_id>>
    PROVE  ReadsInv' /\ Answering
<1> DEFINE event == [command |-> executing[l], ok |-> ok, seen |-> seen]
<1>1. executing[l] \in Command
    BY DEF ReadsInv, LaneType, LaneTypeOK
<1>2. event \in Event /\ event.command = executing[l] /\ event.seen = seen
    BY <1>1 DEF Event
<1> HIDE DEF event
<1>3. answers \in Seq(Event)
    BY DEF ReadsInv, LaneType, LaneTypeOK
<1>4. LaneType'
    BY <1>2, AnswerType DEF ReadsInv, event
<1>5. answers' = Append(answers, event)
    BY DEF Answer, event
<1>6. Bounded'
    <2>1. /\ DOMAIN answers' = 1 .. Len(answers) + 1 /\ Len(answers) \in Nat
          /\ \A i \in 1 .. Len(answers) : answers'[i] = answers[i]
          /\ answers'[Len(answers) + 1] = event
        BY <1>2, <1>3, <1>5, AppendProperties, LenProperties
    <2>2. DOMAIN answers = 1 .. Len(answers)
        BY <1>3, LenProperties
    <2> QED
        BY <1>2, <2>1, <2>2 DEF ReadsInv, Bounded
<1>7. Answering
    BY <1>2 DEF Answering, event
<1> QED
    BY <1>4, <1>6, <1>7 DEF ReadsInv

LEMMA AnswerReadStep ==
    ASSUME ReadsInv, NEW l \in Lanes, AnswerRead(l)
    PROVE  ReadsInv' /\ Answering
<1>1. PICK ok \in Outcomes(executing[l]) :
        /\ Answer(l, [command |-> executing[l], ok |-> ok, seen |-> repository])
        /\ Finish(ok)
    BY DEF AnswerRead
<1>2. /\ ok \in BOOLEAN
      /\ PanesType' /\ CountersType' /\ Coalesced(refresh)' /\ Coalesced(history)'
      /\ UNCHANGED <<refresh, history, busy, operation_id>>
    BY <1>1, FinishType
<1>3. /\ repository \in Version /\ 1 <= repository.head /\ OutsideType'
      /\ 1 <= repository'.head /\ repository'.head <= repository'.tree
    BY DEF AnswerRead, ReadsInv, OutsideType, Bounded, outside
<1>4. executing[l] # NoCommand
    BY DEF AnswerRead
<1> QED
    BY <1>1, <1>2, <1>3, <1>4, AnsweringKeeps

LEMMA AnswerOperationStep ==
    ASSUME ReadsInv, NEW l \in Lanes, AnswerOperation(l)
    PROVE  ReadsInv' /\ Answering
<1>1. PICK changed \in {0, 1}, moved \in {0, 1} :
        /\ moved = 1 => changed = 1
        /\ repository.tree + changed <= MaxChanges
        /\ repository' = [tree |-> repository.tree + changed, head |-> repository.head + moved]
        /\ notified' \in {notified, notified \/ changed = 1}
    BY DEF AnswerOperation
<1>2. PICK ok \in Outcomes(executing[l]) :
        /\ Answer(l, [command |-> executing[l], ok |-> ok, seen |-> repository'])
        /\ Finish(ok)
    BY DEF AnswerOperation
<1>3. /\ ok \in BOOLEAN
      /\ PanesType' /\ CountersType' /\ Coalesced(refresh)' /\ Coalesced(history)'
      /\ UNCHANGED <<refresh, history, busy, operation_id>>
    BY <1>2, FinishType
<1>4. /\ repository.tree \in 0 .. MaxChanges /\ repository.head \in 0 .. MaxChanges
      /\ 1 <= repository.head /\ repository.head <= repository.tree /\ MaxChanges \in Nat
      /\ notified \in BOOLEAN
    BY ReadsAssumption DEF ReadsInv, OutsideType, Version, Bounded
<1>5. /\ repository' \in Version
      /\ 1 <= repository'.head /\ repository'.head <= repository'.tree
    BY <1>1, <1>4 DEF Version
<1>6. OutsideType'
    BY <1>1, <1>4, <1>5 DEF OutsideType
<1>7. executing[l] # NoCommand
    BY DEF AnswerOperation
<1> QED
    BY <1>2, <1>3, <1>5, <1>6, <1>7, AnsweringKeeps
-----------------------------------------------------------------------------
(* The answers. *)

LEMMA IgnoreStep ==
    ASSUME ReadsInv, Ignore
    PROVE  ReadsInv' /\ Hearing
<1>1. /\ answers # <<>> /\ HandleAnswer(<<>>) /\ \A k : ~ Ends(k)
      /\ UNCHANGED outside /\ UNCHANGED panes /\ UNCHANGED <<settling, pressed, failures>>
    BY DEF Ignore, Ends
<1>2. PanesType' /\ CountersType'
    BY <1>1 DEF ReadsInv, PanesType, CountersType, panes
<1>3. /\ UNCHANGED <<refresh, history, operation_id>> /\ busy' = busy /\ busy \in BOOLEAN
    BY <1>1 DEF ReadsInv, PanesType, panes
<1>4. /\ Waits("Refresh", ~ Ends("Refresh"), refresh, refresh', <<>>)
      /\ Waits("LoadHistory", ~ Ends("LoadHistory"), history, history', <<>>)
      /\ Coalesced(refresh') /\ Coalesced(history')
    BY <1>1, <1>3 DEF Waits, ReadsInv, Coalesced
<1>5. busy' = (busy /\ ~ Ends("Operate"))
    BY <1>1, <1>3
<1> QED
    BY <1>1, <1>2, <1>3, <1>4, <1>5, NothingSent, HearingKeeps

(* What is heard of any kind. *)
LEMMA HeardType ==
    ASSUME ReadsInv, NEW kinds, Hears(kinds)
    PROVE  /\ answers # <<>> /\ Head(answers) \in Event
           /\ Head(answers).command \in Command /\ Head(answers).ok \in BOOLEAN
           /\ Head(answers).seen.head \in 1 .. MaxChanges
           /\ Head(answers).seen.tree \in 0 .. MaxChanges
           /\ Head(answers).seen \in Version
           /\ Head(answers).command.kind \in kinds
           /\ \A k : Ends(k) <=> Head(answers).command.kind = k
           /\ UNCHANGED outside /\ UNCHANGED <<settling, pressed, failures>> /\ CountersType'
<1>1. /\ answers # <<>> /\ Head(answers).command.kind \in kinds
      /\ \A k : Ends(k) <=> Head(answers).command.kind = k
      /\ UNCHANGED outside /\ UNCHANGED <<settling, pressed, failures>>
    BY DEF Hears, Ends
<1>2. Head(answers) \in Event /\ 1 <= Head(answers).seen.head
    BY <1>1, NewestAnswer
<1>3. CountersType'
    BY <1>1 DEF ReadsInv, CountersType
<1> QED
    BY <1>1, <1>2, <1>3, ReadsAssumption DEF Event, Version

LEMMA OtherHearingKeeps ==
    ASSUME ReadsInv, NEW kinds, Hears(kinds), HandleAnswer(<<>>), PanesType',
           kinds \cap {"Refresh", "LoadHistory", "Operate"} = {},
           UNCHANGED <<refresh, history, busy, operation_id>>
    PROVE  ReadsInv' /\ Hearing
<1>1. /\ answers # <<>> /\ UNCHANGED outside /\ CountersType'
      /\ ~ Ends("Refresh") /\ ~ Ends("LoadHistory") /\ ~ Ends("Operate")
    BY HeardType
<1>2. /\ Waits("Refresh", ~ Ends("Refresh"), refresh, refresh', <<>>)
      /\ Waits("LoadHistory", ~ Ends("LoadHistory"), history, history', <<>>)
      /\ Coalesced(refresh') /\ Coalesced(history')
    BY <1>1 DEF Waits, ReadsInv, Coalesced
<1>3. busy' = (busy /\ ~ Ends("Operate"))
    BY <1>1 DEF ReadsInv, PanesType
<1> QED
    BY <1>1, <1>2, <1>3, NothingSent, HearingKeeps

LEMMA HearWorktreesStep ==
    ASSUME ReadsInv, HearWorktrees
    PROVE  ReadsInv' /\ Hearing
<1>1. Hears({"LoadWorktrees"}) /\ HandleAnswer(<<>>) /\ UNCHANGED panes
    BY DEF HearWorktrees
<1>2. PanesType' /\ UNCHANGED <<refresh, history, busy, operation_id>>
    BY <1>1 DEF ReadsInv, PanesType, panes
<1>3. {"LoadWorktrees"} \cap {"Refresh", "LoadHistory", "Operate"} = {}
    OBVIOUS
<1> QED
    BY <1>1, <1>2, <1>3, OtherHearingKeeps

LEMMA FilledType ==
    ASSUME PanesType, NEW seen, seen.tree \in 0 .. MaxChanges
    PROVE  /\ Filled(seen) \in Modal
           /\ [modal EXCEPT !.loading = FALSE] \in Modal
BY DEF Filled, Modal, PanesType

LEMMA HearListingStep ==
    ASSUME ReadsInv, HearListing
    PROVE  ReadsInv' /\ Hearing
<1>1. /\ Hears(DOMAIN PickerOf) /\ HandleAnswer(<<>>)
      /\ UNCHANGED <<status, refresh, history, branches, listing, busy, operation_id>>
    BY DEF HearListing
<1>2. Head(answers).seen.tree \in 0 .. MaxChanges
    BY <1>1, HeardType
<1>3. groups' \in 0 .. MaxChanges
    BY <1>2 DEF HearListing, ReadsInv, PanesType
<1>4. modal' \in Modal
    <2>1. modal' \in {Filled(Head(answers).seen), [modal EXCEPT !.loading = FALSE], NoModal, modal}
        BY DEF HearListing
    <2> QED
        BY <1>2, <2>1, FilledType, NoModalType DEF ReadsInv, PanesType
<1>5. PanesType'
    BY <1>1, <1>3, <1>4 DEF ReadsInv, PanesType
<1>6. DOMAIN PickerOf \cap {"Refresh", "LoadHistory", "Operate"} = {}
    BY PickerKinds
<1> QED
    BY <1>1, <1>5, <1>6, OtherHearingKeeps

LEMMA HearHistoryBranchesStep ==
    ASSUME ReadsInv, HearHistoryBranches
    PROVE  ReadsInv' /\ Hearing
<1>1. /\ Hears({"LoadHistoryBranches"}) /\ HandleAnswer(<<>>)
      /\ UNCHANGED <<status, refresh, history, listing, groups, busy, operation_id>>
    BY DEF HearHistoryBranches
<1>2. Head(answers).seen.tree \in 0 .. MaxChanges /\ Head(answers).ok \in BOOLEAN
    BY <1>1, HeardType
<1>3. branches' \in BranchesPane
    BY <1>2 DEF HearHistoryBranches, ReadsInv, PanesType, BranchesPane
<1>4. modal' \in Modal
    <2>1. modal' \in {Filled(Head(answers).seen), NoModal, modal}
        BY DEF HearHistoryBranches
    <2> QED
        BY <1>2, <2>1, FilledType, NoModalType DEF ReadsInv, PanesType
<1>5. PanesType'
    BY <1>1, <1>3, <1>4 DEF ReadsInv, PanesType
<1>6. {"LoadHistoryBranches"} \cap {"Refresh", "LoadHistory", "Operate"} = {}
    OBVIOUS
<1> QED
    BY <1>1, <1>5, <1>6, OtherHearingKeeps

(* A refresh that was answered runs again only under another generation. *)
LEMMA RefreshAfterAsks ==
    ASSUME PanesType, NEW ok \in BOOLEAN
    PROVE  /\ RefreshAfter(ok) \in RefreshPane
           /\ Coalesced(RefreshAfter(ok))
           /\ RefreshAfter(ok).loading => Sent(refresh, RefreshAfter(ok))
<1> DEFINE cleared == [refresh EXCEPT !.loading = FALSE, !.again = FALSE, !.failed = ~ ok]
<1>1. /\ cleared \in RefreshPane /\ ~ cleared.loading /\ ~ cleared.again
      /\ cleared.generation = refresh.generation
    BY DEF PanesType, RefreshPane
<1>2. RefreshAfter(ok) = IF refresh.again THEN RequestRefresh(cleared) ELSE cleared
    BY DEF RefreshAfter
<1> HIDE DEF cleared
<1>3. /\ RequestRefresh(cleared) \in RefreshPane /\ RequestRefresh(cleared).loading
      /\ RequestRefresh(cleared).generation # cleared.generation
    BY <1>1, RequestRefreshType
<1> QED
    BY <1>1, <1>2, <1>3 DEF Coalesced, Sent

LEMMA HistoryAfterAsks ==
    ASSUME ReadsInv, NEW h,
           h = history \/ \E reset \in BOOLEAN : h = RequestHistory(history, reset)
    PROVE  /\ h \in HistoryPane
           /\ Coalesced(h)
           /\ \A effects : (Sent(history, h) => Sends(effects, "LoadHistory", h))
                           => Waits("LoadHistory", TRUE, history, h, effects)
<1>1. PanesType /\ Coalesced(history)
    BY DEF ReadsInv
<1>2. CASE h = history
    BY <1>1, <1>2 DEF PanesType, Waits
<1>3. ASSUME NEW reset \in BOOLEAN, h = RequestHistory(history, reset)
      PROVE  /\ h \in HistoryPane
             /\ Coalesced(h)
             /\ \A effects : (Sent(history, h) => Sends(effects, "LoadHistory", h))
                             => Waits("LoadHistory", TRUE, history, h, effects)
    BY <1>1, <1>3, RequestHistoryType DEF PanesType, Waits, Coalesced, Sent
<1> QED
    BY <1>2, <1>3

LEMMA HearStatusStep ==
    ASSUME ReadsInv, HearStatus
    PROVE  ReadsInv' /\ Hearing
<1> DEFINE a == Head(answers)
           h == IF a.ok THEN HistoryAfter(a.seen) ELSE history
           r == RefreshAfter(a.ok)
           effects == HistoryEffects(h, 0) \o RefreshEffects(r)
<1>1. /\ Hears({"Refresh"}) /\ status' = (IF a.ok THEN a.seen ELSE status)
      /\ history' = h /\ refresh' = r /\ listing' = Listed(r) /\ HandleAnswer(effects)
      /\ UNCHANGED <<branches, groups, modal, busy, operation_id>>
    BY DEF HearStatus, Refresh
<1>2. /\ answers # <<>> /\ a.ok \in BOOLEAN /\ a.seen \in Version
      /\ Ends("Refresh") /\ ~ Ends("LoadHistory") /\ ~ Ends("Operate")
      /\ UNCHANGED outside /\ CountersType'
    BY <1>1, HeardType
<1>3. PanesType
    BY DEF ReadsInv
<1>4. r \in RefreshPane /\ Coalesced(r) /\ (r.loading => Sent(refresh, r))
    BY <1>2, <1>3, RefreshAfterAsks
<1>5. h = history \/ \E reset \in BOOLEAN : h = RequestHistory(history, reset)
    BY DEF HistoryAfter
<1> HIDE DEF a, h, r
<1>6. /\ h \in HistoryPane /\ Coalesced(h)
      /\ (Sent(history, h) => Sends(effects, "LoadHistory", h))
         => Waits("LoadHistory", TRUE, history, h, effects)
    BY <1>5, HistoryAfterAsks
<1>7. /\ Reads(HistoryEffects(h, 0), r, h)
      /\ Sent(history, h) => Sends(HistoryEffects(h, 0), "LoadHistory", h)
    BY <1>6, HistorySends
<1>8. /\ Reads(RefreshEffects(r), r, h)
      /\ Sent(refresh, r) => Sends(RefreshEffects(r), "Refresh", r)
      /\ Listed(r) \in [Counters -> Nat]
    BY <1>3, <1>4, RefreshSends
<1>9. /\ Reads(effects, r, h)
      /\ Sent(history, h) => Sends(effects, "LoadHistory", h)
      /\ Sent(refresh, r) => Sends(effects, "Refresh", r)
    BY <1>7, <1>8, SendsOfBoth
<1> HIDE DEF effects
<1>10. /\ Waits("Refresh", ~ Ends("Refresh"), refresh, refresh', effects)
       /\ Waits("LoadHistory", ~ Ends("LoadHistory"), history, history', effects)
    BY <1>1, <1>2, <1>4, <1>6, <1>9 DEF Waits
<1>11. PanesType'
    BY <1>1, <1>2, <1>3, <1>4, <1>6, <1>8 DEF PanesType
<1>12. busy' = (busy /\ ~ Ends("Operate"))
    BY <1>1, <1>2, <1>3 DEF PanesType
<1>13. Reads(effects, refresh', history') /\ Coalesced(refresh') /\ Coalesced(history')
    BY <1>1, <1>4, <1>6, <1>9
<1>14. HandleAnswer(effects) /\ UNCHANGED operation_id
    BY <1>1
<1> QED
    BY <1>2, <1>10, <1>11, <1>12, <1>13, <1>14, HearingKeeps

LEMMA HearOperationStep ==
    ASSUME ReadsInv, HearOperation
    PROVE  ReadsInv' /\ Hearing
<1> DEFINE a == Head(answers)
           r == RequestRefresh(refresh)
           h == IF a.ok /\ a.command.changes_history
                THEN RequestHistory(history, TRUE) ELSE history
           effects == RefreshEffects(r) \o HistoryEffects(h, 0)
<1>1. /\ Hears({"Operate"}) /\ busy' = FALSE
      /\ history' = h /\ refresh' = r /\ listing' = Listed(r) /\ HandleAnswer(effects)
      /\ UNCHANGED <<status, branches, groups, modal, operation_id>>
    BY DEF HearOperation, Refresh
<1>2. /\ answers # <<>>
      /\ ~ Ends("Refresh") /\ ~ Ends("LoadHistory") /\ Ends("Operate")
      /\ UNCHANGED outside /\ CountersType'
    BY <1>1, HeardType
<1>3. PanesType
    BY DEF ReadsInv
<1>4. r \in RefreshPane
    BY <1>3, RequestRefreshType DEF PanesType
<1>5. h = history \/ \E reset \in BOOLEAN : h = RequestHistory(history, reset)
    OBVIOUS
<1>6. /\ h \in HistoryPane /\ Coalesced(h)
      /\ (Sent(history, h) => Sends(effects, "LoadHistory", h))
         => Waits("LoadHistory", TRUE, history, h, effects)
    BY <1>5, HistoryAfterAsks
<1>7. /\ Reads(HistoryEffects(h, 0), r, h)
      /\ Sent(history, h) => Sends(HistoryEffects(h, 0), "LoadHistory", h)
    BY <1>6, HistorySends
<1>8. /\ Reads(RefreshEffects(r), r, h)
      /\ Sent(refresh, r) => Sends(RefreshEffects(r), "Refresh", r)
      /\ Listed(r) \in [Counters -> Nat]
    BY <1>3, <1>4, RefreshSends
<1>9. /\ Reads(effects, r, h)
      /\ Sent(history, h) => Sends(effects, "LoadHistory", h)
      /\ Sent(refresh, r) => Sends(effects, "Refresh", r)
    BY <1>7, <1>8, SendsOfBoth
<1>10. Waits("Refresh", TRUE, refresh, r, effects) /\ Coalesced(r)
    BY <1>3, <1>9, RefreshWaits DEF Sent
<1> HIDE DEF a, h, r, effects
<1>11. /\ Waits("Refresh", ~ Ends("Refresh"), refresh, refresh', effects)
       /\ Waits("LoadHistory", ~ Ends("LoadHistory"), history, history', effects)
    BY <1>1, <1>2, <1>6, <1>9, <1>10 DEF Waits
<1>12. PanesType'
    BY <1>1, <1>3, <1>4, <1>6, <1>8 DEF PanesType
<1>13. /\ busy' = (busy /\ ~ Ends("Operate"))
       /\ Reads(effects, refresh', history') /\ Coalesced(refresh') /\ Coalesced(history')
       /\ HandleAnswer(effects) /\ UNCHANGED operation_id
    BY <1>1, <1>2, <1>6, <1>9, <1>10
<1> QED
    BY <1>2, <1>11, <1>12, <1>13, HearingKeeps

(* What a page, or a page that cannot be read, makes of the history. *)
LEMMA HeardHistory ==
    ASSUME NEW read \in HistoryPane, ~ read.loading, NEW a \in Event,
           a.command.kind = "LoadHistory", a.seen.head \in 1 .. MaxChanges
    PROVE  /\ WithPage(read, a) \in HistoryPane
           /\ ~ WithPage(read, a).loading /\ WithPage(read, a).generation = read.generation
           /\ WithoutPage(read) \in HistoryPane
           /\ WithoutPage(read).loading <=> WithoutPage(read).generation # read.generation
<1>1. /\ read.pages \in Seq(Page)
      /\ a.command.branch \in Topics \cup {"HEAD"} /\ a.command.skip \in Nat
    BY KindsOfCommands DEF Event, HistoryPane
<1>2. [of |-> a.command.branch, version |-> a.seen.head] \in Page
    BY <1>1 DEF Page
<1>3. /\ WithPage(read, a) \in HistoryPane
      /\ ~ WithPage(read, a).loading /\ WithPage(read, a).generation = read.generation
    <2> DEFINE page == [of |-> a.command.branch, version |-> a.seen.head]
               pages == CASE a.command.skip = 0               -> <<page>>
                          [] a.command.skip = Len(read.pages) -> Append(read.pages, page)
                          [] OTHER                            -> read.pages
               complete == a.command.skip + 1 >= Pages
               stale == read.stale /\ a.command.skip # 0
    <2>1. page \in Page
        BY <1>2
    <2> HIDE DEF page
    <2>2. pages \in Seq(Page)
        <3>1. <<page>> \in Seq(Page) /\ Append(read.pages, page) \in Seq(Page)
            BY <1>1, <2>1
        <3> QED
            BY <1>1, <3>1
    <2>3. complete \in BOOLEAN /\ stale \in BOOLEAN
        OBVIOUS
    <2>4. WithPage(read, a) =
              [read EXCEPT !.pages = pages, !.complete = complete, !.stale = stale]
        BY DEF WithPage, page, HistoryPane
    <2> HIDE DEF pages, complete, stale
    <2> QED
        BY <2>2, <2>3, <2>4 DEF HistoryPane
<1>4. /\ WithoutPage(read) \in HistoryPane
      /\ WithoutPage(read).loading <=> WithoutPage(read).generation # read.generation
    <2> DEFINE away == [read EXCEPT !.branch = "HEAD", !.stale = TRUE]
    <2>1. CASE read.branch = "HEAD"
        BY <2>1 DEF WithoutPage, HistoryPane
    <2>2. CASE read.branch # "HEAD"
        <3>1. /\ away \in HistoryPane /\ ~ away.loading
              /\ away.generation = read.generation
            BY DEF HistoryPane
        <3>2. WithoutPage(read) = RequestHistory(away, TRUE)
            BY <2>2 DEF WithoutPage
        <3> HIDE DEF away
        <3>3. /\ RequestHistory(away, TRUE) \in HistoryPane
              /\ RequestHistory(away, TRUE).loading
              /\ RequestHistory(away, TRUE).generation # away.generation
            BY <3>1, RequestHistoryType
        <3> QED
            BY <3>1, <3>2, <3>3
    <2> QED
        BY <2>1, <2>2
<1> QED
    BY <1>3, <1>4

LEMMA HearHistoryStep ==
    ASSUME ReadsInv, HearHistory
    PROVE  ReadsInv' /\ Hearing
<1> DEFINE a == Head(answers)
           read == [history EXCEPT !.loading = FALSE]
           heard == IF a.ok THEN WithPage(read, a) ELSE WithoutPage(read)
           once == [heard EXCEPT !.again = FALSE]
           h == IF heard.again THEN RequestHistory(once, TRUE) ELSE heard
           effects == HistoryEffects(h, 0)
<1>1. /\ Hears({"LoadHistory"}) /\ history' = h /\ HandleAnswer(effects)
      /\ UNCHANGED <<status, refresh, branches, listing, groups, modal, busy, operation_id>>
    BY DEF HearHistory
<1>2. /\ answers # <<>> /\ a \in Event /\ a.command.kind = "LoadHistory"
      /\ a.seen.head \in 1 .. MaxChanges
      /\ ~ Ends("Refresh") /\ Ends("LoadHistory") /\ ~ Ends("Operate")
      /\ UNCHANGED outside /\ CountersType'
    BY <1>1, HeardType
<1>3. PanesType /\ Coalesced(refresh)
    BY DEF ReadsInv
<1>4. read \in HistoryPane /\ ~ read.loading /\ read.generation = history.generation
    BY <1>3 DEF PanesType, HistoryPane
<1> HIDE DEF a, read
<1>5. heard \in HistoryPane /\ (heard.loading <=> heard.generation # history.generation)
    BY <1>2, <1>4, HeardHistory
<1> HIDE DEF heard
<1>6. /\ once \in HistoryPane /\ once.loading = heard.loading
      /\ once.generation = heard.generation
    BY <1>5 DEF HistoryPane
<1>7. /\ RequestHistory(once, TRUE) \in HistoryPane /\ RequestHistory(once, TRUE).loading
      /\ once.loading <=> RequestHistory(once, TRUE).generation = once.generation
    BY <1>6, RequestHistoryType
<1>8. h \in HistoryPane /\ Coalesced(h)
    BY <1>5, <1>7 DEF Coalesced
<1>9. h.loading => Sent(history, h)
    <2>1. CASE ~ heard.again
        BY <1>5, <2>1 DEF Sent
    <2>2. CASE heard.again /\ heard.loading
        BY <1>5, <1>6, <1>7, <2>2 DEF Sent
    <2>3. CASE heard.again /\ ~ heard.loading
        BY <1>5, <1>6, <1>7, <2>3 DEF Sent
    <2> QED
        BY <1>5, <2>1, <2>2, <2>3
<1>10. /\ Reads(effects, refresh, h)
       /\ Sent(history, h) => Sends(effects, "LoadHistory", h)
    BY <1>8, HistorySends
<1> HIDE DEF h, effects
<1>11. /\ Waits("Refresh", ~ Ends("Refresh"), refresh, refresh', effects)
       /\ Waits("LoadHistory", ~ Ends("LoadHistory"), history, history', effects)
    BY <1>1, <1>2, <1>9, <1>10 DEF Waits
<1>12. PanesType'
    BY <1>1, <1>3, <1>8 DEF PanesType
<1>13. /\ busy' = (busy /\ ~ Ends("Operate"))
       /\ Reads(effects, refresh', history') /\ Coalesced(refresh') /\ Coalesced(history')
       /\ HandleAnswer(effects) /\ UNCHANGED operation_id
    BY <1>1, <1>2, <1>3, <1>8, <1>10 DEF PanesType
<1> QED
    BY <1>2, <1>11, <1>12, <1>13, HearingKeeps
-----------------------------------------------------------------------------
(* The type invariant, and what every step is to the lanes. *)

LEMMA ReadsInvInitially == Init => ReadsInv
<1> SUFFICES ASSUME Init PROVE ReadsInv
    OBVIOUS
<1>1. LaneType
    <2> DEFINE first == [kind |-> "Refresh", generation |-> 1]
               second == [kind |-> "LoadWorktrees", generation |-> 1]
               third == [kind |-> "LoadHistory", generation |-> 1, branch |-> "HEAD", skip |-> 0]
               fourth == [kind |-> "LoadHistoryBranches", generation |-> 1]
    <2>1. InitLane(<<first, second, third, fourth>>)
        BY DEF Init
    <2>2. first \in Command /\ second \in Command /\ third \in Command /\ fourth \in Command
        BY DEF Command
    <2> HIDE DEF first, second, third, fourth
    <2>3. <<first, second, third, fourth>> \in Seq(Command)
        BY <2>2
    <2>4. NewMailbox \in MailboxOf(Command)
        BY DEF NewMailbox, MailboxOf
    <2>5. mailbox \in [Lanes -> MailboxOf(Command)]
        BY <2>1, <2>4 DEF InitLane
    <2> QED
        BY <2>1, <2>3, <2>5 DEF InitLane, LaneType, LaneTypeOK
<1>2. PanesType
    <2>1. MaxChanges \in Nat \ {0}
        BY ReadsAssumption
    <2>2. "Refresh" \in Kinds /\ "LoadHistory" \in Kinds
        BY ReadsAssumption
    <2>3. 1 \in 0 .. Generations["Refresh"] - 1 /\ 1 \in 0 .. Generations["LoadHistory"] - 1
        BY <2>2, ReadsAssumption
    <2>4. refresh \in RefreshPane
        BY <2>3 DEF Init, RefreshPane
    <2>5. history \in HistoryPane
        <3>1. <<>> \in Seq(Page)
            OBVIOUS
        <3> QED
            BY <2>3, <3>1 DEF Init, HistoryPane
    <2>6. branches \in BranchesPane /\ listing \in [Counters -> Nat] /\ modal \in Modal
        BY NoModalType DEF Init, BranchesPane
    <2>7. status \in Version /\ groups \in 0 .. MaxChanges
        BY <2>1 DEF Init, Unknown, Version
    <2> QED
        BY <2>4, <2>5, <2>6, <2>7 DEF Init, PanesType
<1>3. OutsideType /\ CountersType
    <2>1. MaxChanges \in Nat \ {0} /\ MaxKeys \in Nat /\ MaxFailures \in Nat
        BY ReadsAssumption
    <2>2. 1 \in 0 .. MaxChanges /\ 0 \in 0 .. MaxKeys /\ 0 \in 0 .. MaxFailures
        BY <2>1
    <2> QED
        BY <2>2 DEF Init, OutsideType, CountersType, Version
<1>4. Bounded
    <2>1. answers = <<>>
        BY DEF Init, InitLane
    <2> QED
        BY <2>1 DEF Init, Bounded
<1>5. Coalesced(refresh) /\ Coalesced(history)
    BY DEF Init, Coalesced
<1> QED
    BY <1>1, <1>2, <1>3, <1>4, <1>5 DEF ReadsInv

LEMMA StepsAre ==
    ASSUME ReadsInv, [Next]_vars
    PROVE  /\ ReadsInv'
           /\ \/ Resting \/ Asking \/ Queueing \/ Answering \/ Hearing
              \/ Serve /\ UNCHANGED others
<1>1. CASE OutsideChange
    BY <1>1, OutsideChangeStep
<1>2. CASE Notice
    BY <1>2, NoticeStep
<1>3. CASE Settle
    <2>1. /\ Refresh(RequestRefresh(refresh)) /\ Handle(RefreshEffects(RequestRefresh(refresh)))
          /\ UNCHANGED <<outside, status, history, branches, groups, modal, busy, operation_id,
                         pressed, failures>>
          /\ settling' \in BOOLEAN
        BY <1>3 DEF Settle
    <2> QED
        BY <2>1, RefreshStep
<1>4. CASE Heartbeat
    <2>1. /\ Refresh(RequestRefresh(refresh)) /\ Handle(RefreshEffects(RequestRefresh(refresh)))
          /\ UNCHANGED <<outside, status, history, branches, groups, modal, busy, operation_id,
                         pressed, failures>>
          /\ settling' \in BOOLEAN
        BY <1>4 DEF Heartbeat, ReadsInv, CountersType
    <2> QED
        BY <2>1, RefreshStep
<1>5. CASE User
    <2>1. CASE ActiveRefresh
        BY <2>1, ActiveRefreshStep
    <2>2. CASE NearEnd
        BY <2>2, NearEndStep
    <2>3. CASE OpenForm
        BY <2>3, OpenFormStep
    <2>4. CASE Close
        BY <2>4, CloseStep
    <2>5. ASSUME NEW changes \in BOOLEAN, QueueOperation(changes)
          PROVE  ReadsInv' /\ Queueing
        BY <2>5, QueueOperationStep
    <2>6. ASSUME NEW picker \in {"HistoryBranches", "CompareBranches"},
                 OpenHistoryBranches(picker)
          PROVE  ReadsInv' /\ Asking
        <3>1. picker \in ModalKinds
            BY DEF ModalKinds
        <3> QED
            BY <2>6, <3>1, OpenHistoryBranchesStep
    <2>7. ASSUME NEW k \in DOMAIN PickerOf, OpenPicker(k)
          PROVE  ReadsInv' /\ Asking
        BY <2>7, OpenPickerStep
    <2>8. ASSUME NEW b \in Topics \cup {"HEAD"}, SelectHistoryBranch(b)
          PROVE  ReadsInv' /\ Asking
        BY <2>8, SelectHistoryBranchStep
    <2> QED
        BY <1>5, <2>1, <2>2, <2>3, <2>4, <2>5, <2>6, <2>7, <2>8 DEF User
<1>6. CASE Serve /\ UNCHANGED others
    BY <1>6, ServeStep
<1>7. CASE Thread
    BY <1>7, AnswerReadStep, AnswerOperationStep DEF Thread
<1>8. CASE Hear
    BY <1>8, IgnoreStep, HearStatusStep, HearHistoryStep, HearOperationStep,
       HearWorktreesStep, HearListingStep, HearHistoryBranchesStep DEF Hear
<1>9. CASE UNCHANGED vars
    <2>1. /\ UNCHANGED lane /\ UNCHANGED outside /\ UNCHANGED panes
          /\ UNCHANGED <<settling, pressed, failures>>
        BY <1>9 DEF vars, others
    <2>2. LaneType' /\ PanesType' /\ CountersType' /\ OutsideType' /\ Resting
        BY <2>1 DEF ReadsInv, LaneType, LaneTypeOK, PanesType, CountersType, OutsideType,
                    Resting, lane, outside, panes
    <2>3. Bounded' /\ Coalesced(refresh)' /\ Coalesced(history)'
        BY <2>1 DEF ReadsInv, Bounded, Coalesced, lane, outside, panes
    <2> QED
        BY <2>2, <2>3 DEF ReadsInv
<1> QED
    BY <1>1, <1>2, <1>3, <1>4, <1>5, <1>6, <1>7, <1>8, <1>9 DEF Next

(* The panes, the pickers, the mailboxes and the answers have their types,     *)
(* whatever crosses with whatever; in particular no answer carries a version   *)
(* of HEAD that the repository never had.                                      *)
THEOREM ReadsTypeCorrect == Safe => []TypeOK
<1>1. ReadsInv /\ [Next]_vars => ReadsInv'
    BY StepsAre
<1>2. ReadsInv => TypeOK
    BY TypeOKParts DEF ReadsInv
<1> QED
    BY <1>1, <1>2, ReadsInvInitially, PTL DEF Safe
-----------------------------------------------------------------------------
(* Mutations. *)

Lane0 == LaneOf["Operate"]

Newest(c) == IsOperation(c) /\ c.generation = operation_id

(* Nothing but the queue and the thread of one lane ever holds a mutation. *)
OperationsHaveALane ==
    /\ \A l \in Lanes : \A s \in Full(mailbox[l]) : ~ IsOperation(mailbox[l].slots[s])
    /\ \A l \in Lanes \ {Lane0} :
          /\ mailbox[l].operations = <<>>
          /\ executing[l] # NoCommand => ~ IsOperation(executing[l])

NoneSent     == \A i \in DOMAIN outbox : ~ IsOperation(outbox[i])
NoneQueued   == mailbox[Lane0].operations = <<>>
NoneRuns     == executing[Lane0] # NoCommand => ~ IsOperation(executing[Lane0])
NoneAnswered == \A i \in DOMAIN answers : ~ IsOperation(answers[i].command)

IsSent ==
    /\ NoneQueued /\ NoneRuns /\ NoneAnswered
    /\ \E c \in Command : Newest(c) /\ outbox = <<c>>
IsQueued ==
    /\ NoneSent /\ NoneRuns /\ NoneAnswered
    /\ \E c \in Command : Newest(c) /\ mailbox[Lane0].operations = <<c>>
IsRun ==
    /\ NoneSent /\ NoneQueued /\ NoneAnswered
    /\ executing[Lane0] # NoCommand /\ Newest(executing[Lane0])
IsAnswered ==
    /\ NoneSent /\ NoneQueued /\ NoneRuns
    /\ \E i \in DOMAIN answers :
          /\ Newest(answers[i].command)
          /\ \A j \in DOMAIN answers \ {i} : ~ IsOperation(answers[j].command)

(* A busy interface has one mutation, in one of four places; any other none. *)
OneOperation ==
    IF busy THEN IsSent \/ IsQueued \/ IsRun \/ IsAnswered
            ELSE NoneSent /\ NoneQueued /\ NoneRuns /\ NoneAnswered

OperationsInv == OperationsHaveALane /\ OneOperation

LEMMA OperationsAre ==
    ASSUME NEW c
    PROVE  IsOperation(c) <=> c.kind = "Operate"
BY ReadsAssumption DEF IsOperation

LEMMA Lane0Type == Lane0 \in Lanes
BY ReadsAssumption, TablesAssumption DEF Lane0

LEMMA OperationsInitially == Init => OperationsInv
<1> SUFFICES ASSUME Init PROVE OperationsInv
    OBVIOUS
<1> DEFINE first == [kind |-> "Refresh", generation |-> 1]
           second == [kind |-> "LoadWorktrees", generation |-> 1]
           third == [kind |-> "LoadHistory", generation |-> 1, branch |-> "HEAD", skip |-> 0]
           fourth == [kind |-> "LoadHistoryBranches", generation |-> 1]
<1>1. InitLane(<<first, second, third, fourth>>) /\ ~ busy
    BY DEF Init
<1>2. /\ first.kind # "Operate" /\ second.kind # "Operate"
      /\ third.kind # "Operate" /\ fourth.kind # "Operate"
    OBVIOUS
<1> HIDE DEF first, second, third, fourth
<1>3. NoneSent
    BY <1>1, <1>2, OperationsAre DEF InitLane, NoneSent
<1>4. \A l \in Lanes : mailbox[l].operations = <<>> /\ Full(mailbox[l]) = {}
    BY <1>1 DEF InitLane, NewMailbox, Full
<1>5. \A l \in Lanes : executing[l] = NoCommand
    BY <1>1 DEF InitLane
<1>6. NoneQueued /\ NoneRuns /\ NoneAnswered
    BY <1>1, <1>4, <1>5, Lane0Type DEF InitLane, NoneQueued, NoneRuns, NoneAnswered
<1>7. OperationsHaveALane
    BY <1>4, <1>5 DEF OperationsHaveALane
<1> QED
    BY <1>1, <1>3, <1>6, <1>7 DEF OperationsInv, OneOperation

LEMMA RestingOperations ==
    ASSUME ReadsInv, OperationsInv, Resting
    PROVE  OperationsInv'
BY DEF Resting, lane, OperationsInv, OperationsHaveALane, OneOperation, NoneSent, NoneQueued,
       NoneRuns, NoneAnswered, IsSent, IsQueued, IsRun, IsAnswered, Newest

LEMMA AskingOperations ==
    ASSUME ReadsInv, OperationsInv, Asking
    PROVE  OperationsInv'
<1>1. PICK effects \in Seq(Command) :
        /\ Handle(effects) /\ Reads(effects, refresh', history')
        /\ UNCHANGED <<busy, operation_id>>
    BY DEF Asking
<1>2. outbox = <<>> /\ outbox' = effects /\ UNCHANGED <<mailbox, executing, answers>>
    BY <1>1 DEF Handle, Free
<1>3. NoneSent'
    BY <1>1, <1>2, OperationsAre DEF NoneSent, Reads
<1>4. ~ IsSent
    BY <1>2 DEF IsSent
<1>5. OperationsHaveALane'
    BY <1>2 DEF OperationsInv, OperationsHaveALane
<1>6. OneOperation'
    BY <1>1, <1>2, <1>3, <1>4
    DEF OperationsInv, OneOperation, NoneQueued, NoneRuns, NoneAnswered, IsQueued, IsRun,
        IsAnswered, Newest
<1> QED
    BY <1>5, <1>6 DEF OperationsInv

LEMMA QueueingOperations ==
    ASSUME ReadsInv, OperationsInv, Queueing
    PROVE  OperationsInv'
<1>1. PICK c \in Command :
        /\ c.kind = "Operate" /\ c.generation = operation_id' /\ Handle(<<c>>)
        /\ ~ busy /\ busy'
    BY DEF Queueing
<1>2. outbox' = <<c>> /\ UNCHANGED <<mailbox, executing, answers>>
    BY <1>1 DEF Handle
<1>3. NoneQueued' /\ NoneRuns' /\ NoneAnswered'
    BY <1>1, <1>2 DEF OperationsInv, OneOperation, NoneQueued, NoneRuns, NoneAnswered
<1>4. Newest(c)'
    BY <1>1, OperationsAre DEF Newest
<1>5. IsSent'
    BY <1>2, <1>3, <1>4 DEF IsSent
<1>6. OperationsHaveALane'
    BY <1>2 DEF OperationsInv, OperationsHaveALane
<1> QED
    BY <1>1, <1>5, <1>6 DEF OperationsInv, OneOperation

LEMMA AnsweringOperations ==
    ASSUME ReadsInv, OperationsInv, Answering
    PROVE  OperationsInv'
<1>1. PICK l \in Lanes, event \in Event :
        /\ executing[l] # NoCommand /\ event.command = executing[l] /\ Answer(l, event)
        /\ UNCHANGED <<busy, operation_id>>
    BY DEF Answering
<1>2. /\ answers' = Append(answers, event)
      /\ executing' = [executing EXCEPT ![l] = NoCommand]
      /\ UNCHANGED <<outbox, mailbox>>
    BY <1>1 DEF Answer
<1>3. answers \in Seq(Event) /\ executing \in [Lanes -> Command \cup {NoCommand}]
    BY DEF ReadsInv, LaneType, LaneTypeOK
<1>4. /\ DOMAIN answers = 1 .. Len(answers) /\ Len(answers) \in Nat
      /\ DOMAIN answers' = 1 .. Len(answers) + 1
      /\ \A i \in DOMAIN answers : answers'[i] = answers[i]
      /\ answers'[Len(answers) + 1] = event
    BY <1>2, <1>3, AppendProperties, LenProperties
<1>5. OperationsHaveALane'
    BY <1>2, <1>3 DEF OperationsInv, OperationsHaveALane
<1>6. CASE IsOperation(executing[l])
    <2>1. l = Lane0
        BY <1>1, <1>6 DEF OperationsInv, OperationsHaveALane
    <2>2. busy /\ IsRun
        BY <1>1, <1>6, <2>1
        DEF OperationsInv, OneOperation, NoneRuns, IsSent, IsQueued, IsAnswered
    <2>3. NoneSent' /\ NoneQueued'
        BY <1>2, <2>2 DEF IsRun, NoneSent, NoneQueued
    <2>4. NoneRuns'
        BY <1>2, <1>3, <2>1 DEF NoneRuns
    <2>5. Newest(event.command)'
        BY <1>1, <2>1, <2>2 DEF IsRun, Newest
    <2>6. \A j \in DOMAIN answers' \ {Len(answers) + 1} : ~ IsOperation(answers'[j].command)
        BY <1>4, <2>2 DEF IsRun, NoneAnswered
    <2>7. IsAnswered'
        BY <1>4, <2>3, <2>4, <2>5, <2>6 DEF IsAnswered, Newest
    <2> QED
        BY <1>1, <1>5, <2>2, <2>7 DEF OperationsInv, OneOperation
<1>7. CASE ~ IsOperation(executing[l])
    <2>1. NoneAnswered => NoneAnswered'
        BY <1>1, <1>4, <1>7 DEF NoneAnswered
    <2>2. NoneRuns => NoneRuns'
        BY <1>2, <1>3 DEF NoneRuns
    <2>3. (NoneSent => NoneSent') /\ (NoneQueued => NoneQueued')
        BY <1>2 DEF NoneSent, NoneQueued
    <2>4. IsSent => IsSent'
        BY <1>1, <1>2, <2>1, <2>2, <2>3 DEF IsSent, Newest
    <2>5. IsQueued => IsQueued'
        BY <1>1, <1>2, <2>1, <2>2, <2>3 DEF IsQueued, Newest
    <2>6. IsRun => IsRun'
        <3> SUFFICES ASSUME IsRun PROVE IsRun'
            OBVIOUS
        <3>1. l # Lane0
            BY <1>7 DEF IsRun, Newest
        <3>2. executing'[Lane0] = executing[Lane0]
            BY <1>2, <1>3, <3>1, Lane0Type
        <3> QED
            BY <1>1, <2>1, <2>3, <3>2 DEF IsRun, Newest
    <2>7. IsAnswered => IsAnswered'
        <3> SUFFICES ASSUME IsAnswered PROVE IsAnswered'
            OBVIOUS
        <3>1. PICK i \in DOMAIN answers :
                /\ Newest(answers[i].command)
                /\ \A j \in DOMAIN answers \ {i} : ~ IsOperation(answers[j].command)
            BY DEF IsAnswered
        <3>2. /\ i \in DOMAIN answers' /\ answers'[i] = answers[i]
              /\ IsOperation(answers[i].command) /\ answers[i].command.generation = operation_id'
            BY <1>1, <1>4, <3>1 DEF Newest
        <3>3. ASSUME NEW j \in DOMAIN answers' \ {i}
              PROVE  ~ IsOperation(answers'[j].command)
            <4>1. CASE j = Len(answers) + 1
                BY <1>1, <1>4, <1>7, <4>1
            <4>2. CASE j \in DOMAIN answers
                BY <1>4, <3>1, <4>2
            <4> QED
                BY <1>4, <4>1, <4>2
        <3>4. NoneSent' /\ NoneQueued' /\ NoneRuns'
            BY <2>2, <2>3 DEF IsAnswered
        <3> QED
            BY <3>2, <3>3, <3>4 DEF IsAnswered, Newest
    <2>8. OneOperation'
        BY <1>1, <2>1, <2>2, <2>3, <2>4, <2>5, <2>6, <2>7 DEF OperationsInv, OneOperation
    <2> QED
        BY <1>5, <2>8 DEF OperationsInv
<1> QED
    BY <1>6, <1>7

(* Without its head a sequence is as before, one place to the left. *)
LEMMA TailIs ==
    ASSUME NEW S, NEW seq \in Seq(S), seq # <<>>
    PROVE  /\ DOMAIN seq = 1 .. Len(seq) /\ Len(seq) \in Nat \ {0}
           /\ DOMAIN Tail(seq) = 1 .. Len(seq) - 1
           /\ \A i \in 1 .. Len(seq) - 1 : Tail(seq)[i] = seq[i + 1]
           /\ Head(seq) = seq[1]
<1>1. /\ Tail(seq) \in Seq(S) /\ Len(Tail(seq)) = Len(seq) - 1
      /\ \A i \in 1 .. Len(Tail(seq)) : Tail(seq)[i] = seq[i + 1]
    BY HeadTailProperties
<1>2. DOMAIN seq = 1 .. Len(seq) /\ Len(seq) \in Nat \ {0}
    BY LenProperties, EmptySeq
<1>3. DOMAIN Tail(seq) = 1 .. Len(Tail(seq))
    BY <1>1, LenProperties
<1>4. Head(seq) = seq[1]
    OBVIOUS
<1> QED
    BY <1>1, <1>2, <1>3, <1>4

LEMMA HearingOperations ==
    ASSUME ReadsInv, OperationsInv, Hearing
    PROVE  OperationsInv'
<1>1. PICK effects \in Seq(Command) :
        /\ answers # <<>> /\ HandleAnswer(effects) /\ Reads(effects, refresh', history')
        /\ busy' = (busy /\ ~ Ends("Operate")) /\ UNCHANGED operation_id
    BY DEF Hearing
<1>2. /\ outbox = <<>> /\ outbox' = effects /\ answers' = Tail(answers)
      /\ UNCHANGED <<mailbox, executing>>
    BY <1>1 DEF HandleAnswer, Free
<1>3. answers \in Seq(Event)
    BY DEF ReadsInv, LaneType, LaneTypeOK
<1>4. /\ DOMAIN answers = 1 .. Len(answers) /\ Len(answers) \in Nat \ {0}
      /\ DOMAIN answers' = 1 .. Len(answers) - 1
      /\ \A i \in 1 .. Len(answers) - 1 : answers'[i] = answers[i + 1]
      /\ Head(answers) = answers[1]
    BY <1>1, <1>2, <1>3, TailIs
<1>5. NoneSent' /\ ~ IsSent
    BY <1>1, <1>2, OperationsAre DEF NoneSent, Reads, IsSent
<1>6. OperationsHaveALane'
    BY <1>2 DEF OperationsInv, OperationsHaveALane
<1>7. (NoneQueued => NoneQueued') /\ (NoneRuns => NoneRuns')
    BY <1>2 DEF NoneQueued, NoneRuns
<1>8. NoneAnswered => NoneAnswered'
    BY <1>4 DEF NoneAnswered
<1>9. CASE IsOperation(answers[1].command)
    <2>1. busy /\ IsAnswered
        BY <1>4, <1>5, <1>9
        DEF OperationsInv, OneOperation, NoneAnswered, IsQueued, IsRun
    <2>2. PICK i \in DOMAIN answers :
            /\ Newest(answers[i].command)
            /\ \A j \in DOMAIN answers \ {i} : ~ IsOperation(answers[j].command)
        BY <2>1 DEF IsAnswered
    <2>3. i = 1
        BY <1>4, <1>9, <2>2
    <2>4. Ends("Operate")
        <3>1. answers[1].command.kind = "Operate" /\ answers[1].command.generation = operation_id
            BY <2>2, <2>3, OperationsAre DEF Newest
        <3>2. GenerationOf("Operate") = operation_id
            BY DEF GenerationOf
        <3> QED
            BY <1>4, <3>1, <3>2 DEF Ends, Current
    <2>5. NoneAnswered'
        <3>1. ASSUME NEW j \in DOMAIN answers'
              PROVE  j + 1 \in DOMAIN answers /\ j + 1 # i /\ answers'[j] = answers[j + 1]
            BY <1>4, <2>3
        <3>2. ASSUME NEW j \in DOMAIN answers' PROVE ~ IsOperation(answers'[j].command)
            BY <2>2, <3>1
        <3> QED
            BY <3>2 DEF NoneAnswered
    <2>6. NoneQueued' /\ NoneRuns'
        BY <1>7, <2>1 DEF IsAnswered
    <2> QED
        BY <1>1, <1>5, <1>6, <2>4, <2>5, <2>6 DEF OperationsInv, OneOperation
<1>10. CASE ~ IsOperation(answers[1].command)
    <2>1. busy' = busy
        <3>1. ~ Ends("Operate") /\ busy \in BOOLEAN
            BY <1>4, <1>10, OperationsAre DEF Ends, ReadsInv, PanesType
        <3> QED
            BY <1>1, <3>1
    <2>2. IsQueued => IsQueued'
        BY <1>1, <1>2, <1>5, <1>7, <1>8 DEF IsQueued, Newest
    <2>3. IsRun => IsRun'
        BY <1>1, <1>2, <1>5, <1>7, <1>8 DEF IsRun, Newest
    <2>4. IsAnswered => IsAnswered'
        <3> SUFFICES ASSUME IsAnswered PROVE IsAnswered'
            OBVIOUS
        <3>1. PICK i \in DOMAIN answers :
                /\ Newest(answers[i].command)
                /\ \A j \in DOMAIN answers \ {i} : ~ IsOperation(answers[j].command)
            BY DEF IsAnswered
        <3>2. i # 1
            BY <1>10, <3>1 DEF Newest
        <3>3. i - 1 \in DOMAIN answers' /\ answers'[i - 1] = answers[i]
            BY <1>4, <3>1, <3>2
        <3>4. ASSUME NEW j \in DOMAIN answers' \ {i - 1}
              PROVE  ~ IsOperation(answers'[j].command)
            <4>1. j \in 1 .. Len(answers) - 1 /\ j + 1 \in DOMAIN answers
                BY <1>4
            <4>2. j + 1 # i /\ answers'[j] = answers[j + 1]
                BY <1>4, <3>1, <4>1
            <4> QED
                BY <3>1, <4>1, <4>2
        <3>5. IsOperation(answers[i].command) /\ answers[i].command.generation = operation_id'
            BY <1>1, <3>1 DEF Newest
        <3>6. NoneQueued' /\ NoneRuns'
            BY <1>7 DEF IsAnswered
        <3> QED
            BY <1>5, <3>3, <3>4, <3>5, <3>6 DEF IsAnswered, Newest
    <2>5. OneOperation'
        BY <1>5, <1>7, <1>8, <2>1, <2>2, <2>3, <2>4 DEF OperationsInv, OneOperation
    <2> QED
        BY <1>6, <2>5 DEF OperationsInv
<1> QED
    BY <1>9, <1>10

LEMMA ServingOperations ==
    ASSUME ReadsInv, OperationsInv, Serve, UNCHANGED others
    PROVE  OperationsInv'
<1>1. UNCHANGED <<busy, operation_id>>
    BY DEF others, panes
<1>2. /\ outbox \in Seq(Command) /\ mailbox \in [Lanes -> MailboxOf(Command)]
      /\ executing \in [Lanes -> Command \cup {NoCommand}]
    BY DEF ReadsInv, LaneType, LaneTypeOK
<1>3. CASE Dispatch
    <2> DEFINE c == Head(outbox)
               to == LaneOf[c.kind]
    <2>1. /\ outbox # <<>> /\ outbox' = Tail(outbox)
          /\ mailbox' = [mailbox EXCEPT ![to] = Push(@, c)]
          /\ UNCHANGED <<executing, answers>>
        BY <1>3 DEF Dispatch
    <2>2. c \in Command /\ to \in Lanes
        BY <1>2, <2>1, HeadTailProperties, KindsOfCommands, TablesAssumption
    <2>3. /\ DOMAIN outbox = 1 .. Len(outbox) /\ Len(outbox) \in Nat \ {0}
          /\ DOMAIN outbox' = 1 .. Len(outbox) - 1
          /\ \A i \in 1 .. Len(outbox) - 1 : outbox'[i] = outbox[i + 1]
          /\ c = outbox[1]
        BY <1>2, <2>1, TailIs
    <2>4. (NoneRuns => NoneRuns') /\ (NoneAnswered => NoneAnswered')
        BY <2>1 DEF NoneRuns, NoneAnswered
    <2> HIDE DEF c, to
    <2>5. CASE IsOperation(c)
        <3>1. to = Lane0
            BY <2>5, OperationsAre DEF to, Lane0
        <3>2. busy /\ IsSent
            BY <2>3, <2>5
            DEF OperationsInv, OneOperation, NoneSent, IsQueued, IsRun, IsAnswered
        <3>3. outbox = <<c>> /\ Newest(c)
            BY <2>3, <3>2 DEF IsSent
        <3>4. NoneSent'
            BY <2>3, <3>3 DEF NoneSent
        <3>5. mailbox'[Lane0] = [mailbox[Lane0] EXCEPT !.operations = Append(@, c)]
            BY <1>2, <2>1, <2>2, <2>5, <3>1 DEF Push
        <3>6. mailbox[Lane0] \in MailboxOf(Command) /\ mailbox[Lane0].operations = <<>>
            BY <1>2, <3>2, Lane0Type DEF IsSent, NoneQueued
        <3>7. /\ mailbox'[Lane0].operations = Append(<<>>, c)
              /\ mailbox'[Lane0].slots = mailbox[Lane0].slots
            BY <3>5, <3>6 DEF MailboxOf
        <3>8. Append(<<>>, c) = <<c>>
            OBVIOUS
        <3>9. IsQueued'
            BY <1>1, <2>2, <2>4, <3>2, <3>3, <3>4, <3>7, <3>8 DEF IsQueued, IsSent, Newest
        <3>10. OperationsHaveALane'
            <4>1. \A l \in Lanes \ {Lane0} : mailbox'[l] = mailbox[l]
                BY <1>2, <2>1, <2>2, <3>1
            <4>2. \A l \in Lanes : mailbox'[l].slots = mailbox[l].slots
                BY <3>7, <4>1
            <4> QED
                BY <2>1, <4>1, <4>2 DEF OperationsInv, OperationsHaveALane, Full
        <3> QED
            BY <1>1, <3>2, <3>9, <3>10 DEF OperationsInv, OneOperation
    <2>6. CASE ~ IsOperation(c)
        <3>1. SlotOf[c.kind] \in Slots
            BY <2>2, <2>6, OperationsAre, KindsOfCommands, TablesAssumption
        <3>2. mailbox[to] \in MailboxOf(Command)
            BY <1>2, <2>2
        <3>3. /\ Push(mailbox[to], c).operations = mailbox[to].operations
              /\ \A s \in Slots : Push(mailbox[to], c).slots[s] \in {c, mailbox[to].slots[s]}
            BY <2>6, <3>1, <3>2 DEF Push, MailboxOf
        <3>4. /\ \A l \in Lanes : mailbox'[l].operations = mailbox[l].operations
              /\ \A l \in Lanes, s \in Slots : mailbox'[l].slots[s] \in {c, mailbox[l].slots[s]}
            BY <1>2, <2>1, <2>2, <3>3
        <3>5. OperationsHaveALane'
            BY <2>1, <2>6, <3>4 DEF OperationsInv, OperationsHaveALane, Full
        <3>6. NoneQueued => NoneQueued'
            BY <3>4, Lane0Type DEF NoneQueued
        <3>7. NoneSent => NoneSent'
            BY <2>3 DEF NoneSent
        <3>8. ~ IsSent
            BY <2>3, <2>6 DEF IsSent, Newest
        <3>9. IsQueued => IsQueued'
            BY <1>1, <2>4, <3>4, <3>7, Lane0Type DEF IsQueued, Newest
        <3>10. (IsRun => IsRun') /\ (IsAnswered => IsAnswered')
            BY <1>1, <2>1, <2>4, <3>6, <3>7 DEF IsRun, IsAnswered, Newest
        <3> QED
            BY <1>1, <2>4, <3>5, <3>6, <3>7, <3>8, <3>9, <3>10 DEF OperationsInv, OneOperation
    <2> QED
        BY <2>5, <2>6
<1>4. ASSUME NEW l \in Lanes, BeginOperation(l)
      PROVE  OperationsInv'
    <2>1. /\ executing[l] = NoCommand /\ mailbox[l].operations # <<>>
          /\ mailbox' = [mailbox EXCEPT ![l] = WithoutHead(@)]
          /\ executing' = [executing EXCEPT ![l] = Head(mailbox[l].operations)]
          /\ UNCHANGED <<outbox, answers>>
        BY <1>4 DEF BeginOperation, PopsOperation
    <2>2. l = Lane0
        BY <2>1 DEF OperationsInv, OperationsHaveALane
    <2>3. busy /\ IsQueued
        BY <2>1, <2>2
        DEF OperationsInv, OneOperation, NoneQueued, IsSent, IsRun, IsAnswered
    <2>4. PICK c \in Command : Newest(c) /\ mailbox[Lane0].operations = <<c>>
        BY <2>3 DEF IsQueued
    <2>5. executing'[Lane0] = c /\ c # NoCommand
        BY <1>2, <2>1, <2>2, <2>4, ReadsAssumption
    <2>6. mailbox[Lane0] \in MailboxOf(Command)
        BY <1>2, Lane0Type
    <2>7. /\ mailbox'[Lane0].operations = <<>>
          /\ mailbox'[Lane0].slots = mailbox[Lane0].slots
        BY <1>2, <2>1, <2>2, <2>4, <2>6 DEF WithoutHead, MailboxOf
    <2>8. IsRun'
        BY <1>1, <2>1, <2>3, <2>4, <2>5, <2>7
        DEF IsRun, IsQueued, NoneSent, NoneQueued, NoneAnswered, Newest
    <2>9. \A k \in Lanes \ {Lane0} : mailbox'[k] = mailbox[k] /\ executing'[k] = executing[k]
        BY <1>2, <2>1, <2>2
    <2>10. \A k \in Lanes : mailbox'[k].slots = mailbox[k].slots
        BY <2>7, <2>9
    <2>11. OperationsHaveALane'
        BY <2>9, <2>10 DEF OperationsInv, OperationsHaveALane, Full
    <2> QED
        BY <1>1, <2>3, <2>8, <2>11 DEF OperationsInv, OneOperation
<1>5. ASSUME NEW l \in Lanes, NEW s \in Slots, BeginRead(l, s)
      PROVE  OperationsInv'
    <2>1. /\ executing[l] = NoCommand /\ s \in Full(mailbox[l])
          /\ mailbox' = [mailbox EXCEPT ![l] = WithoutSlot(@, s)]
          /\ executing' = [executing EXCEPT ![l] = mailbox[l].slots[s]]
          /\ UNCHANGED <<outbox, answers>>
        BY <1>5 DEF BeginRead, PopsSlot
    <2>2. ~ IsOperation(mailbox[l].slots[s])
        BY <2>1 DEF OperationsInv, OperationsHaveALane
    <2>3. mailbox[l] \in MailboxOf(Command)
        BY <1>2
    <2>4. /\ WithoutSlot(mailbox[l], s).operations = mailbox[l].operations
          /\ \A t \in Slots :
                WithoutSlot(mailbox[l], s).slots[t] \in {NoCommand, mailbox[l].slots[t]}
        BY <2>3 DEF WithoutSlot, MailboxOf
    <2>5. /\ \A k \in Lanes : mailbox'[k].operations = mailbox[k].operations
          /\ \A k \in Lanes, t \in Slots : mailbox'[k].slots[t] \in {NoCommand, mailbox[k].slots[t]}
        BY <1>2, <2>1, <2>4
    <2>6. \A k \in Lanes : executing'[k] = executing[k] \/ ~ IsOperation(executing'[k])
        BY <1>2, <2>1, <2>2
    <2>7. OperationsHaveALane'
        BY <2>5, <2>6 DEF OperationsInv, OperationsHaveALane, Full
    <2>8. executing[Lane0] # NoCommand => executing'[Lane0] = executing[Lane0]
        BY <1>2, <2>1, Lane0Type
    <2>9. /\ (NoneSent => NoneSent') /\ (NoneQueued => NoneQueued')
          /\ (NoneAnswered => NoneAnswered')
        BY <2>1, <2>5, Lane0Type DEF NoneSent, NoneQueued, NoneAnswered
    <2>10. NoneRuns => NoneRuns'
        BY <2>6, Lane0Type DEF NoneRuns
    <2>11. (IsSent => IsSent') /\ (IsQueued => IsQueued')
        BY <1>1, <2>1, <2>5, <2>9, <2>10, Lane0Type
        DEF IsSent, IsQueued, NoneSent, NoneQueued, NoneAnswered, Newest
    <2>12. (IsRun => IsRun') /\ (IsAnswered => IsAnswered')
        BY <1>1, <2>1, <2>5, <2>8, <2>10, Lane0Type
        DEF IsRun, IsAnswered, NoneSent, NoneQueued, NoneAnswered, Newest
    <2>13. OneOperation'
        BY <1>1, <2>1, <2>5, <2>10, <2>11, <2>12, Lane0Type
        DEF OperationsInv, OneOperation, NoneSent, NoneQueued, NoneAnswered
    <2> QED
        BY <2>7, <2>13 DEF OperationsInv
<1> QED
    BY <1>3, <1>4, <1>5 DEF Serve

(* At most one of the four counts is not zero. *)
LEMMA SerializedByPlace ==
    ASSUME OperationsInv, LaneType
    PROVE  Len(mailbox[Lane0].operations)
           + Cardinality({i \in DOMAIN outbox : IsOperation(outbox[i])})
           + Cardinality({i \in DOMAIN answers : IsOperation(answers[i].command)})
           + (IF executing[Lane0] # NoCommand /\ IsOperation(executing[Lane0]) THEN 1 ELSE 0) <= 1
<1> DEFINE sent == {i \in DOMAIN outbox : IsOperation(outbox[i])}
           answered == {i \in DOMAIN answers : IsOperation(answers[i].command)}
           runs == IF executing[Lane0] # NoCommand /\ IsOperation(executing[Lane0]) THEN 1 ELSE 0
<1> SUFFICES Len(mailbox[Lane0].operations) + Cardinality(sent) + Cardinality(answered) + runs <= 1
    OBVIOUS
<1>1. NoneSent => Cardinality(sent) = 0
    <2> SUFFICES ASSUME NoneSent PROVE sent = {}
        BY FS_EmptySet
    <2> QED
        BY DEF NoneSent
<1>2. NoneAnswered => Cardinality(answered) = 0
    <2> SUFFICES ASSUME NoneAnswered PROVE answered = {}
        BY FS_EmptySet
    <2> QED
        BY DEF NoneAnswered
<1>3. NoneRuns => runs = 0
    BY DEF NoneRuns
<1>4. NoneQueued => Len(mailbox[Lane0].operations) = 0
    BY DEF NoneQueued
<1>5. IsSent => Cardinality(sent) = 1
    <2> SUFFICES ASSUME IsSent PROVE sent = {1}
        BY FS_Singleton
    <2>1. PICK c \in Command : Newest(c) /\ outbox = <<c>>
        BY DEF IsSent
    <2> QED
        BY <2>1 DEF Newest
<1>6. IsAnswered => Cardinality(answered) = 1
    <2> SUFFICES ASSUME IsAnswered PROVE \E i : answered = {i}
        BY FS_Singleton
    <2>1. PICK i \in DOMAIN answers :
            /\ Newest(answers[i].command)
            /\ \A j \in DOMAIN answers \ {i} : ~ IsOperation(answers[j].command)
        BY DEF IsAnswered
    <2>2. answered = {i}
        BY <2>1 DEF Newest
    <2> QED
        BY <2>2
<1>7. IsQueued => Len(mailbox[Lane0].operations) = 1
    BY DEF IsQueued
<1>8. runs \in {0, 1}
    OBVIOUS
<1> HIDE DEF sent, answered, runs
<1>9. CASE busy /\ IsSent
    BY <1>2, <1>3, <1>4, <1>5, <1>9 DEF IsSent
<1>10. CASE busy /\ IsQueued
    BY <1>1, <1>2, <1>3, <1>7, <1>10 DEF IsQueued
<1>11. CASE busy /\ IsRun
    BY <1>1, <1>2, <1>4, <1>8, <1>11 DEF IsRun
<1>12. CASE busy /\ IsAnswered
    BY <1>1, <1>3, <1>4, <1>6, <1>12 DEF IsAnswered
<1>13. CASE ~ busy
    BY <1>1, <1>2, <1>3, <1>4, <1>13 DEF OperationsInv, OneOperation
<1> QED
    BY <1>9, <1>10, <1>11, <1>12, <1>13 DEF OperationsInv, OneOperation

(* What is on its way is in one of the four places. *)
LEMMA PlacesOfCommands ==
    ASSUME NEW c \in OnItsWay
    PROVE  \/ \E i \in DOMAIN outbox : c = outbox[i]
           \/ \E l \in Lanes : \/ \E i \in DOMAIN mailbox[l].operations :
                                     c = mailbox[l].operations[i]
                               \/ \E s \in Full(mailbox[l]) : c = mailbox[l].slots[s]
                               \/ c = executing[l] /\ c # NoCommand
           \/ \E i \in DOMAIN answers : c = answers[i].command
<1>1. CASE c \in UNION {Waiting(mailbox[l]) : l \in Lanes}
    <2>1. PICK l \in Lanes : c \in Waiting(mailbox[l])
        BY <1>1
    <2>2. \/ \E i \in DOMAIN mailbox[l].operations : c = mailbox[l].operations[i]
          \/ \E s \in Full(mailbox[l]) : c = mailbox[l].slots[s]
        BY <2>1 DEF Waiting
    <2> QED
        BY <2>2
<1>2. CASE c \in {executing[l] : l \in Lanes} \ {NoCommand}
    BY <1>2
<1>3. CASE c \in {outbox[i] : i \in DOMAIN outbox}
    BY <1>3
<1>4. CASE c \in {answers[i].command : i \in DOMAIN answers}
    BY <1>4
<1> QED
    BY <1>1, <1>2, <1>3, <1>4 DEF OnItsWay

LEMMA SerializedByOperationsInv ==
    ASSUME OperationsInv, LaneType
    PROVE  OperationsAreSerialized
<1>1. ASSUME NEW c \in OnItsWay, IsOperation(c)
      PROVE  busy /\ c.generation = operation_id
    <2>1. CASE \E i \in DOMAIN outbox : c = outbox[i]
        <3>1. busy /\ IsSent
            BY <1>1, <2>1
            DEF OperationsInv, OneOperation, NoneSent, IsQueued, IsRun, IsAnswered
        <3> QED
            BY <2>1, <3>1 DEF IsSent, Newest
    <2>2. ASSUME NEW l \in Lanes, NEW i \in DOMAIN mailbox[l].operations,
                 c = mailbox[l].operations[i]
          PROVE  busy /\ c.generation = operation_id
        <3>1. l = Lane0 /\ ~ NoneQueued
            BY <2>2 DEF OperationsInv, OperationsHaveALane, NoneQueued
        <3>2. busy /\ IsQueued
            BY <3>1 DEF OperationsInv, OneOperation, IsSent, IsRun, IsAnswered
        <3> QED
            BY <2>2, <3>1, <3>2 DEF IsQueued, Newest
    <2>3. ASSUME NEW l \in Lanes, NEW s \in Full(mailbox[l]), c = mailbox[l].slots[s]
          PROVE  FALSE
        BY <1>1, <2>3 DEF OperationsInv, OperationsHaveALane
    <2>4. ASSUME NEW l \in Lanes, c = executing[l], c # NoCommand
          PROVE  busy /\ c.generation = operation_id
        <3>1. l = Lane0 /\ ~ NoneRuns
            BY <1>1, <2>4 DEF OperationsInv, OperationsHaveALane, NoneRuns
        <3>2. busy /\ IsRun
            BY <3>1 DEF OperationsInv, OneOperation, IsSent, IsQueued, IsAnswered
        <3> QED
            BY <2>4, <3>1, <3>2 DEF IsRun, Newest
    <2>5. CASE \E i \in DOMAIN answers : c = answers[i].command
        <3>1. busy /\ IsAnswered
            BY <1>1, <2>5
            DEF OperationsInv, OneOperation, NoneAnswered, IsSent, IsQueued, IsRun
        <3> QED
            BY <1>1, <2>5, <3>1 DEF IsAnswered, Newest
    <2> QED
        BY <2>1, <2>2, <2>3, <2>4, <2>5, PlacesOfCommands
<1> QED
    BY <1>1, SerializedByPlace DEF OperationsAreSerialized, Lane0

LEMMA OperationsInvKept ==
    ASSUME ReadsInv, OperationsInv, [Next]_vars
    PROVE  ReadsInv' /\ OperationsInv'
BY StepsAre, RestingOperations, AskingOperations, QueueingOperations, AnsweringOperations,
   HearingOperations, ServingOperations

(* The busy state serializes the mutations: whatever is pressed and whenever   *)
(* the ends are heard, there is never a second mutation in an outbox, a queue, *)
(* a thread or the channel, and the one that is there has the newest id, so    *)
(* that its end is not taken for the answer of an older one.                   *)
THEOREM OperationsStaySerialized == Safe => []OperationsAreSerialized
<1>1. ReadsInv /\ OperationsInv /\ [Next]_vars => (ReadsInv /\ OperationsInv)'
    BY OperationsInvKept
<1>2. ReadsInv /\ OperationsInv => OperationsAreSerialized
    BY SerializedByOperationsInv DEF ReadsInv
<1> QED
    BY <1>1, <1>2, ReadsInvInitially, OperationsInitially, PTL DEF Safe
-----------------------------------------------------------------------------
(* The reads of the panes. *)

OwnKinds == {"Refresh", "LoadHistory"}

(* A command that answers k under g is sent, waits in a slot, runs or has run. *)
Is(c, k, g)   == c.kind = k /\ c.generation = g
Out(k, g)     == \E i \in DOMAIN outbox : Is(outbox[i], k, g)
Slotted(k, g) == \E l \in Lanes : \E s \in Full(mailbox[l]) : Is(mailbox[l].slots[s], k, g)
Running(k, g) == \E l \in Lanes : executing[l] # NoCommand /\ Is(executing[l], k, g)
Heard(k, g)   == \E i \in DOMAIN answers : Is(answers[i].command, k, g)
Coming(k, g)  == Out(k, g) \/ Slotted(k, g) \/ Running(k, g) \/ Heard(k, g)

(* A read waits in the slot of its kind, ... *)
InTheirSlots ==
    \A l \in Lanes : \A s \in Full(mailbox[l]) :
        /\ mailbox[l].slots[s].kind \in Kinds \ Operations
        /\ SlotOf[mailbox[l].slots[s].kind] = s

(* ... so that only a newer read of the same kind displaces it: what is sent   *)
(* was not yet superseded.                                                     *)
NoneSuperseded ==
    \A i \in DOMAIN outbox :
        /\ outbox[i].kind = "Refresh" => outbox[i].generation = refresh.generation
        /\ outbox[i].kind = "LoadHistory" => outbox[i].generation = history.generation

RefreshComes == refresh.loading => Coming("Refresh", refresh.generation)
HistoryComes == history.loading => Coming("LoadHistory", history.generation)

ComingInv == InTheirSlots /\ NoneSuperseded /\ RefreshComes /\ HistoryComes

LEMMA HandleKeepsComing ==
    ASSUME NEW CONSTANT k, NEW CONSTANT g, Coming(k, g),
           outbox = <<>>, UNCHANGED <<mailbox, executing, answers>>
    PROVE  Coming(k, g)'
BY DEF Coming, Out, Slotted, Running, Heard, Full

LEMMA SentIsComing ==
    ASSUME NEW CONSTANT k, NEW CONSTANT g, NEW CONSTANT effects, outbox' = effects,
           \E i \in DOMAIN effects : effects[i].kind = k /\ effects[i].generation = g
    PROVE  Coming(k, g)'
BY DEF Coming, Out, Is

LEMMA AnswerKeepsComing ==
    ASSUME LaneType, NEW CONSTANT k, NEW CONSTANT g, Coming(k, g),
           NEW l \in Lanes, NEW event \in Event,
           executing[l] # NoCommand, event.command = executing[l], Answer(l, event)
    PROVE  Coming(k, g)'
<1>1. /\ answers' = Append(answers, event)
      /\ executing' = [executing EXCEPT ![l] = NoCommand]
      /\ UNCHANGED <<outbox, mailbox>>
    BY DEF Answer
<1>2. answers \in Seq(Event) /\ executing \in [Lanes -> Command \cup {NoCommand}]
    BY DEF LaneType, LaneTypeOK
<1>3. /\ DOMAIN answers \subseteq DOMAIN answers' /\ Len(answers) + 1 \in DOMAIN answers'
      /\ \A i \in DOMAIN answers : answers'[i] = answers[i]
      /\ answers'[Len(answers) + 1] = event
    BY <1>1, <1>2, AppendProperties, LenProperties
<1>4. CASE Out(k, g) \/ Slotted(k, g)
    BY <1>1, <1>4 DEF Coming, Out, Slotted, Full
<1>5. CASE Heard(k, g)
    BY <1>3, <1>5 DEF Coming, Heard
<1>6. CASE Running(k, g)
    <2>1. PICK m \in Lanes : executing[m] # NoCommand /\ Is(executing[m], k, g)
        BY <1>6 DEF Running
    <2>2. CASE m = l
        BY <1>3, <2>1, <2>2 DEF Coming, Heard
    <2>3. CASE m # l
        BY <1>1, <1>2, <2>1, <2>3 DEF Coming, Running
    <2> QED
        BY <2>2, <2>3
<1> QED
    BY <1>4, <1>5, <1>6 DEF Coming

LEMMA HearKeepsComing ==
    ASSUME LaneType, NEW CONSTANT k, NEW CONSTANT g, Coming(k, g),
           NEW effects, answers # <<>>, HandleAnswer(effects),
           ~ Is(Head(answers).command, k, g)
    PROVE  Coming(k, g)'
<1>1. /\ outbox = <<>> /\ answers' = Tail(answers) /\ UNCHANGED <<mailbox, executing>>
    BY DEF HandleAnswer, Free
<1>2. answers \in Seq(Event)
    BY DEF LaneType, LaneTypeOK
<1>3. /\ DOMAIN answers = 1 .. Len(answers) /\ Len(answers) \in Nat \ {0}
      /\ DOMAIN answers' = 1 .. Len(answers) - 1
      /\ \A i \in 1 .. Len(answers) - 1 : answers'[i] = answers[i + 1]
      /\ Head(answers) = answers[1]
    BY <1>1, <1>2, TailIs
<1>4. CASE Heard(k, g)
    <2>1. PICK i \in DOMAIN answers : Is(answers[i].command, k, g)
        BY <1>4 DEF Heard
    <2>2. i # 1
        BY <1>3, <2>1
    <2>3. i - 1 \in DOMAIN answers' /\ answers'[i - 1] = answers[i]
        BY <1>3, <2>2
    <2> QED
        BY <2>1, <2>3 DEF Coming, Heard
<1>5. CASE Slotted(k, g) \/ Running(k, g)
    BY <1>1, <1>5 DEF Coming, Slotted, Running, Full
<1>6. ~ Out(k, g)
    BY <1>1 DEF Out
<1> QED
    BY <1>4, <1>5, <1>6 DEF Coming

LEMMA ServeKeepsComing ==
    ASSUME ReadsInv, InTheirSlots, Serve, NEW CONSTANT k \in Kinds \ Operations,
           NEW CONSTANT g, Coming(k, g),
           \A i \in DOMAIN outbox :
              IsOperation(outbox[i]) \/ SlotOf[outbox[i].kind] # SlotOf[k] \/ Is(outbox[i], k, g)
    PROVE  Coming(k, g)'
<1>1. /\ outbox \in Seq(Command) /\ mailbox \in [Lanes -> MailboxOf(Command)]
      /\ executing \in [Lanes -> Command \cup {NoCommand}]
    BY DEF ReadsInv, LaneType, LaneTypeOK
<1>2. k \in Kinds \ Operations /\ k # "Operate"
    BY ReadsAssumption
<1>3. CASE Dispatch
    <2> DEFINE c == Head(outbox)
               to == LaneOf[c.kind]
    <2>1. /\ outbox # <<>> /\ outbox' = Tail(outbox)
          /\ mailbox' = [mailbox EXCEPT ![to] = Push(@, c)]
          /\ UNCHANGED <<executing, answers>>
        BY <1>3 DEF Dispatch
    <2>2. c \in Command /\ to \in Lanes
        BY <1>1, <2>1, HeadTailProperties, KindsOfCommands, TablesAssumption
    <2>3. /\ DOMAIN outbox = 1 .. Len(outbox) /\ Len(outbox) \in Nat \ {0}
          /\ DOMAIN outbox' = 1 .. Len(outbox) - 1
          /\ \A i \in 1 .. Len(outbox) - 1 : outbox'[i] = outbox[i + 1]
          /\ c = outbox[1]
        BY <1>1, <2>1, TailIs
    <2>4. mailbox[to] \in MailboxOf(Command)
        BY <1>1, <2>2
    <2> HIDE DEF c, to
    <2>5. CASE c.kind = k
        <3>2. ~ IsOperation(c) /\ SlotOf[c.kind] \in Slots
            BY <1>2, <2>5, TablesAssumption, ReadsAssumption DEF IsOperation
        <3>1. Is(c, k, g)
            <4>1. 1 \in DOMAIN outbox /\ outbox[1].kind = k
                BY <2>3, <2>5
            <4>2. ~ IsOperation(outbox[1])
                BY <2>3, <3>2
            <4> QED
                BY <2>3, <4>1, <4>2
        <3>3. Push(mailbox[to], c).slots[SlotOf[c.kind]] = c
            BY <2>4, <3>2 DEF Push, MailboxOf
        <3>4. mailbox'[to].slots[SlotOf[c.kind]] = c /\ c # NoCommand
            BY <1>1, <2>1, <2>2, <3>3, ReadsAssumption
        <3> QED
            BY <2>2, <3>1, <3>2, <3>4 DEF Coming, Slotted, Full
    <2>6. CASE c.kind # k
        <3>1. CASE Out(k, g)
            <4>1. PICK i \in DOMAIN outbox : Is(outbox[i], k, g)
                BY <3>1 DEF Out
            <4>2. i # 1
                BY <2>3, <2>6, <4>1 DEF Is
            <4>3. i - 1 \in DOMAIN outbox' /\ outbox'[i - 1] = outbox[i]
                BY <2>3, <4>2
            <4> QED
                BY <4>1, <4>3 DEF Coming, Out
        <3>2. CASE Running(k, g) \/ Heard(k, g)
            BY <2>1, <3>2 DEF Coming, Running, Heard
        <3>3. CASE Slotted(k, g)
            <4>1. PICK l \in Lanes :
                     \E s \in Full(mailbox[l]) : Is(mailbox[l].slots[s], k, g)
                BY <3>3 DEF Slotted
            <4> PICK s \in Full(mailbox[l]) : Is(mailbox[l].slots[s], k, g)
                BY <4>1
            <4>2. s = SlotOf[k] /\ s \in Slots /\ mailbox[l].slots[s] # NoCommand
                BY <4>1 DEF InTheirSlots, Is, Full
            <4>3. IsOperation(c) \/ SlotOf[c.kind] # s
                <5>1. ~ Is(c, k, g) /\ 1 \in DOMAIN outbox
                    BY <2>3, <2>6 DEF Is
                <5> QED
                    BY <2>3, <4>2, <5>1
            <4>4. Push(mailbox[to], c).slots[s] = mailbox[to].slots[s]
                <5>1. CASE IsOperation(c)
                    BY <2>4, <5>1 DEF Push, MailboxOf
                <5>2. CASE ~ IsOperation(c)
                    BY <2>4, <4>2, <4>3, <5>2 DEF Push, MailboxOf
                <5> QED
                    BY <5>1, <5>2
            <4>5. mailbox'[l].slots[s] = mailbox[l].slots[s]
                BY <1>1, <2>1, <2>2, <4>4
            <4> QED
                BY <4>1, <4>2, <4>5 DEF Coming, Slotted, Full
        <3> QED
            BY <3>1, <3>2, <3>3 DEF Coming
    <2> QED
        BY <2>5, <2>6
<1>4. ASSUME NEW l \in Lanes, BeginOperation(l)
      PROVE  Coming(k, g)'
    <2>1. /\ executing[l] = NoCommand
          /\ mailbox' = [mailbox EXCEPT ![l] = WithoutHead(@)]
          /\ executing' = [executing EXCEPT ![l] = Head(mailbox[l].operations)]
          /\ UNCHANGED <<outbox, answers>>
        BY <1>4 DEF BeginOperation
    <2>2. \A m \in Lanes : mailbox'[m].slots = mailbox[m].slots
        BY <1>1, <2>1 DEF WithoutHead, MailboxOf
    <2>3. \A m \in Lanes : executing[m] # NoCommand => executing'[m] = executing[m]
        BY <1>1, <2>1
    <2>4. Slotted(k, g) => Slotted(k, g)'
        BY <2>2 DEF Slotted, Full
    <2>5. Running(k, g) => Running(k, g)'
        BY <2>3 DEF Running
    <2>6. (Out(k, g) => Out(k, g)') /\ (Heard(k, g) => Heard(k, g)')
        BY <2>1 DEF Out, Heard
    <2> QED
        BY <2>4, <2>5, <2>6 DEF Coming
<1>5. ASSUME NEW l \in Lanes, NEW s \in Slots, BeginRead(l, s)
      PROVE  Coming(k, g)'
    <2>1. /\ executing[l] = NoCommand /\ s \in Full(mailbox[l])
          /\ mailbox' = [mailbox EXCEPT ![l] = WithoutSlot(@, s)]
          /\ executing' = [executing EXCEPT ![l] = mailbox[l].slots[s]]
          /\ UNCHANGED <<outbox, answers>>
        BY <1>5 DEF BeginRead, PopsSlot
    <2>2. mailbox[l] \in MailboxOf(Command) /\ mailbox[l].slots[s] # NoCommand
        BY <1>1, <2>1 DEF Full
    <2>3. \A t \in Slots \ {s} : WithoutSlot(mailbox[l], s).slots[t] = mailbox[l].slots[t]
        BY <2>2 DEF WithoutSlot, MailboxOf
    <2>4. CASE Slotted(k, g)
        <3>1. PICK m \in Lanes :
                 \E t \in Full(mailbox[m]) : Is(mailbox[m].slots[t], k, g)
            BY <2>4 DEF Slotted
        <3> PICK t \in Full(mailbox[m]) : Is(mailbox[m].slots[t], k, g)
            BY <3>1
        <3>2. CASE m = l /\ t = s
            <4>1. executing'[l] = mailbox[l].slots[s]
                BY <1>1, <2>1
            <4> QED
                BY <2>2, <3>1, <3>2, <4>1 DEF Coming, Running
        <3>3. CASE ~ (m = l /\ t = s)
            <4>1. t \in Slots /\ mailbox[m].slots[t] # NoCommand
                BY <3>1 DEF Full
            <4>2. mailbox'[m].slots[t] = mailbox[m].slots[t]
                BY <1>1, <2>1, <2>3, <3>3, <4>1
            <4> QED
                BY <3>1, <4>1, <4>2 DEF Coming, Slotted, Full
        <3> QED
            BY <3>2, <3>3
    <2>5. Running(k, g) => Running(k, g)'
        BY <1>1, <2>1 DEF Running
    <2>6. (Out(k, g) => Out(k, g)') /\ (Heard(k, g) => Heard(k, g)')
        BY <2>1 DEF Out, Heard
    <2> QED
        BY <2>4, <2>5, <2>6 DEF Coming
<1> QED
    BY <1>3, <1>4, <1>5 DEF Serve

LEMMA ServeKeepsSlots ==
    ASSUME ReadsInv, InTheirSlots, Serve
    PROVE  InTheirSlots'
<1>1. /\ outbox \in Seq(Command) /\ mailbox \in [Lanes -> MailboxOf(Command)]
    BY DEF ReadsInv, LaneType, LaneTypeOK
<1>2. CASE Dispatch
    <2> DEFINE c == Head(outbox)
               to == LaneOf[c.kind]
    <2>1. outbox # <<>> /\ mailbox' = [mailbox EXCEPT ![to] = Push(@, c)]
        BY <1>2 DEF Dispatch
    <2>2. c \in Command /\ to \in Lanes
        BY <1>1, <2>1, HeadTailProperties, KindsOfCommands, TablesAssumption
    <2> HIDE DEF c, to
    <2>3. mailbox[to] \in MailboxOf(Command)
        BY <1>1, <2>2
    <2>4. CASE IsOperation(c)
        <3>1. Push(mailbox[to], c).slots = mailbox[to].slots
            BY <2>3, <2>4 DEF Push, MailboxOf
        <3>2. \A l \in Lanes : mailbox'[l].slots = mailbox[l].slots
            BY <1>1, <2>1, <2>2, <3>1
        <3> QED
            BY <3>2 DEF InTheirSlots, Full
    <2>5. CASE ~ IsOperation(c)
        <3>1. c.kind \in Kinds \ Operations
            BY <2>2, <2>5, KindsOfCommands DEF IsOperation
        <3>2. \A s \in Slots : Push(mailbox[to], c).slots[s] =
                               IF s = SlotOf[c.kind] THEN c ELSE mailbox[to].slots[s]
            BY <2>3, <2>5 DEF Push, MailboxOf
        <3>3. \A l \in Lanes, s \in Slots :
                 \/ mailbox'[l].slots[s] = mailbox[l].slots[s]
                 \/ mailbox'[l].slots[s] = c /\ s = SlotOf[c.kind]
            BY <1>1, <2>1, <2>2, <3>2
        <3> QED
            BY <3>1, <3>3 DEF InTheirSlots, Full
    <2> QED
        BY <2>4, <2>5
<1>3. ASSUME NEW l \in Lanes, BeginOperation(l)
      PROVE  InTheirSlots'
    <2>1. \A m \in Lanes : mailbox'[m].slots = mailbox[m].slots
        BY <1>1, <1>3 DEF BeginOperation, WithoutHead, MailboxOf
    <2> QED
        BY <2>1 DEF InTheirSlots, Full
<1>4. ASSUME NEW l \in Lanes, NEW s \in Slots, BeginRead(l, s)
      PROVE  InTheirSlots'
    <2>1. mailbox[l] \in MailboxOf(Command)
        BY <1>1
    <2>2. \A t \in Slots : WithoutSlot(mailbox[l], s).slots[t] \in {NoCommand, mailbox[l].slots[t]}
        BY <2>1 DEF WithoutSlot, MailboxOf
    <2>3. \A m \in Lanes, t \in Slots : mailbox'[m].slots[t] \in {NoCommand, mailbox[m].slots[t]}
        BY <1>1, <1>4, <2>2 DEF BeginRead
    <2> QED
        BY <2>3 DEF InTheirSlots, Full
<1> QED
    BY <1>2, <1>3, <1>4 DEF Serve

LEMMA ComingInitially == Init => ComingInv
<1> SUFFICES ASSUME Init PROVE ComingInv
    OBVIOUS
<1> DEFINE first == [kind |-> "Refresh", generation |-> 1]
           second == [kind |-> "LoadWorktrees", generation |-> 1]
           third == [kind |-> "LoadHistory", generation |-> 1, branch |-> "HEAD", skip |-> 0]
           fourth == [kind |-> "LoadHistoryBranches", generation |-> 1]
<1>1. /\ outbox = <<first, second, third, fourth>>
      /\ mailbox = [l \in Lanes |-> NewMailbox]
      /\ refresh.generation = 1 /\ history.generation = 1
    BY DEF Init, InitLane
<1>2. /\ first.kind = "Refresh" /\ first.generation = 1
      /\ third.kind = "LoadHistory" /\ third.generation = 1
      /\ second.kind \notin OwnKinds /\ fourth.kind \notin OwnKinds
    BY DEF OwnKinds
<1> HIDE DEF first, second, third, fourth
<1>3. /\ DOMAIN outbox = 1 .. 4
      /\ outbox[1] = first /\ outbox[2] = second /\ outbox[3] = third /\ outbox[4] = fourth
    BY <1>1
<1>4. Out("Refresh", 1) /\ Out("LoadHistory", 1)
    <2>1. Is(outbox[1], "Refresh", 1) /\ Is(outbox[3], "LoadHistory", 1)
        BY <1>2, <1>3 DEF Is
    <2> QED
        BY <1>3, <2>1 DEF Out
<1>5. RefreshComes /\ HistoryComes
    BY <1>1, <1>4 DEF RefreshComes, HistoryComes, Coming
<1>6. NoneSuperseded
    BY <1>1, <1>2, <1>3 DEF NoneSuperseded, OwnKinds
<1>7. InTheirSlots
    BY <1>1 DEF InTheirSlots, Full, NewMailbox
<1> QED
    BY <1>5, <1>6, <1>7 DEF ComingInv

LEMMA RestingComing ==
    ASSUME ReadsInv, ComingInv, Resting
    PROVE  ComingInv'
BY DEF Resting, lane, ComingInv, InTheirSlots, NoneSuperseded, RefreshComes, HistoryComes,
       Coming, Out, Slotted, Running, Heard, Full

LEMMA AskingComing ==
    ASSUME ReadsInv, ComingInv, Asking
    PROVE  ComingInv'
<1>1. PICK effects \in Seq(Command) :
        /\ Handle(effects) /\ Reads(effects, refresh', history')
        /\ Waits("Refresh", TRUE, refresh, refresh', effects)
        /\ Waits("LoadHistory", TRUE, history, history', effects)
    BY DEF Asking
<1>2. outbox = <<>> /\ outbox' = effects /\ UNCHANGED <<mailbox, executing, answers>>
    BY <1>1 DEF Handle, Free
<1>3. InTheirSlots'
    BY <1>2 DEF ComingInv, InTheirSlots, Full
<1>4. NoneSuperseded'
    BY <1>1, <1>2 DEF NoneSuperseded, Reads
<1>5. PICK g : g = refresh'.generation
    OBVIOUS
<1>6. refresh'.loading => Coming("Refresh", g)'
    <2>1. CASE Sends(effects, "Refresh", refresh')
        BY <1>2, <1>5, <2>1, SentIsComing DEF Sends
    <2>2. CASE refresh.loading /\ refresh'.generation = refresh.generation
        <3>1. Coming("Refresh", g)
            BY <1>5, <2>2 DEF ComingInv, RefreshComes
        <3> QED
            BY <1>2, <3>1, HandleKeepsComing
    <2> QED
        BY <1>1, <2>1, <2>2 DEF Waits
<1>7. RefreshComes'
    BY <1>5, <1>6 DEF RefreshComes, Coming, Out, Slotted, Running, Heard, Full, Is
<1>8. PICK n : n = history'.generation
    OBVIOUS
<1>9. history'.loading => Coming("LoadHistory", n)'
    <2>1. CASE Sends(effects, "LoadHistory", history')
        BY <1>2, <1>8, <2>1, SentIsComing DEF Sends
    <2>2. CASE history.loading /\ history'.generation = history.generation
        <3>1. Coming("LoadHistory", n)
            BY <1>8, <2>2 DEF ComingInv, HistoryComes
        <3> QED
            BY <1>2, <3>1, HandleKeepsComing
    <2> QED
        BY <1>1, <2>1, <2>2 DEF Waits
<1>10. HistoryComes'
    BY <1>8, <1>9 DEF HistoryComes, Coming, Out, Slotted, Running, Heard, Full, Is
<1> QED
    BY <1>3, <1>4, <1>7, <1>10 DEF ComingInv

LEMMA QueueingComing ==
    ASSUME ReadsInv, ComingInv, Queueing
    PROVE  ComingInv'
<1>1. PICK c \in Command : c.kind = "Operate" /\ Handle(<<c>>) /\ UNCHANGED <<refresh, history>>
    BY DEF Queueing
<1>2. outbox = <<>> /\ outbox' = <<c>> /\ UNCHANGED <<mailbox, executing, answers>>
    BY <1>1 DEF Handle, Free
<1>3. InTheirSlots'
    BY <1>2 DEF ComingInv, InTheirSlots, Full
<1>4. NoneSuperseded'
    BY <1>1, <1>2 DEF NoneSuperseded
<1>5. RefreshComes' /\ HistoryComes'
    BY <1>1, <1>2
    DEF ComingInv, RefreshComes, HistoryComes, Coming, Out, Slotted, Running, Heard, Full
<1> QED
    BY <1>3, <1>4, <1>5 DEF ComingInv

LEMMA AnsweringComing ==
    ASSUME ReadsInv, ComingInv, Answering
    PROVE  ComingInv'
<1>1. PICK l \in Lanes, event \in Event :
        /\ executing[l] # NoCommand /\ event.command = executing[l] /\ Answer(l, event)
        /\ UNCHANGED <<refresh, history>>
    BY DEF Answering
<1>2. UNCHANGED <<outbox, mailbox>>
    BY <1>1 DEF Answer
<1>3. InTheirSlots' /\ NoneSuperseded'
    BY <1>1, <1>2 DEF ComingInv, InTheirSlots, NoneSuperseded, Full
<1>4. PICK g : g = refresh.generation
    OBVIOUS
<1>5. PICK n : n = history.generation
    OBVIOUS
<1>6. refresh.loading => Coming("Refresh", g)'
    <2>1. refresh.loading => Coming("Refresh", g)
        BY <1>4 DEF ComingInv, RefreshComes
    <2> QED
        BY <1>1, <2>1, AnswerKeepsComing DEF ReadsInv
<1>7. history.loading => Coming("LoadHistory", n)'
    <2>1. history.loading => Coming("LoadHistory", n)
        BY <1>5 DEF ComingInv, HistoryComes
    <2> QED
        BY <1>1, <2>1, AnswerKeepsComing DEF ReadsInv
<1>8. RefreshComes'
    BY <1>1, <1>4, <1>6 DEF RefreshComes, Coming, Out, Slotted, Running, Heard, Full, Is
<1>9. HistoryComes'
    BY <1>1, <1>5, <1>7 DEF HistoryComes, Coming, Out, Slotted, Running, Heard, Full, Is
<1> QED
    BY <1>3, <1>8, <1>9 DEF ComingInv

LEMMA HearingComing ==
    ASSUME ReadsInv, ComingInv, Hearing
    PROVE  ComingInv'
<1>1. PICK effects \in Seq(Command) :
        /\ answers # <<>> /\ HandleAnswer(effects) /\ Reads(effects, refresh', history')
        /\ Waits("Refresh", ~ Ends("Refresh"), refresh, refresh', effects)
        /\ Waits("LoadHistory", ~ Ends("LoadHistory"), history, history', effects)
    BY DEF Hearing
<1>2. outbox = <<>> /\ outbox' = effects /\ UNCHANGED <<mailbox, executing>>
    BY <1>1 DEF HandleAnswer, Free
<1>3. InTheirSlots'
    BY <1>2 DEF ComingInv, InTheirSlots, Full
<1>4. NoneSuperseded'
    BY <1>1, <1>2 DEF NoneSuperseded, Reads
<1>5. PICK g : g = refresh'.generation
    OBVIOUS
<1>6. refresh'.loading => Coming("Refresh", g)'
    <2>1. CASE Sends(effects, "Refresh", refresh')
        BY <1>2, <1>5, <2>1, SentIsComing DEF Sends
    <2>2. CASE ~ Ends("Refresh") /\ refresh.loading /\ refresh'.generation = refresh.generation
        <3>1. Coming("Refresh", g)
            BY <1>5, <2>2 DEF ComingInv, RefreshComes
        <3>2. ~ Is(Head(answers).command, "Refresh", g)
            BY <1>5, <2>2 DEF Ends, Current, GenerationOf, Is
        <3> QED
            BY <1>1, <3>1, <3>2, HearKeepsComing DEF ReadsInv
    <2> QED
        BY <1>1, <2>1, <2>2 DEF Waits
<1>7. RefreshComes'
    BY <1>5, <1>6 DEF RefreshComes, Coming, Out, Slotted, Running, Heard, Full, Is
<1>8. PICK n : n = history'.generation
    OBVIOUS
<1>9. history'.loading => Coming("LoadHistory", n)'
    <2>1. CASE Sends(effects, "LoadHistory", history')
        BY <1>2, <1>8, <2>1, SentIsComing DEF Sends
    <2>2. CASE /\ ~ Ends("LoadHistory") /\ history.loading
               /\ history'.generation = history.generation
        <3>1. Coming("LoadHistory", n)
            BY <1>8, <2>2 DEF ComingInv, HistoryComes
        <3>2. ~ Is(Head(answers).command, "LoadHistory", n)
            BY <1>8, <2>2 DEF Ends, Current, GenerationOf, Is
        <3> QED
            BY <1>1, <3>1, <3>2, HearKeepsComing DEF ReadsInv
    <2> QED
        BY <1>1, <2>1, <2>2 DEF Waits
<1>10. HistoryComes'
    BY <1>8, <1>9 DEF HistoryComes, Coming, Out, Slotted, Running, Heard, Full, Is
<1> QED
    BY <1>3, <1>4, <1>7, <1>10 DEF ComingInv

(* What refreshes and histories have to themselves, told of commands.        *)
LEMMA OwnSlot ==
    ASSUME NEW own \in {"Refresh", "LoadHistory"}, NEW c \in Command,
           ~ IsOperation(c), SlotOf[c.kind] = SlotOf[own]
    PROVE  c.kind = own
<1>1. c.kind \in Kinds \ Operations
    BY KindsOfCommands DEF IsOperation
<1> QED
    BY <1>1, TablesAssumption

LEMMA ServingComing ==
    ASSUME ReadsInv, ComingInv, Serve, UNCHANGED others
    PROVE  ComingInv'
<1>1. UNCHANGED <<refresh, history>>
    BY DEF others, panes
<1>2. outbox \in Seq(Command)
    BY DEF ReadsInv, LaneType, LaneTypeOK
<1>3. InTheirSlots'
    BY ServeKeepsSlots DEF ComingInv
<1>4. NoneSuperseded'
    <2>1. CASE outbox' = outbox
        BY <1>1, <2>1 DEF ComingInv, NoneSuperseded
    <2>2. CASE outbox # <<>> /\ outbox' = Tail(outbox)
        <3>1. \A i \in DOMAIN outbox' : i + 1 \in DOMAIN outbox /\ outbox'[i] = outbox[i + 1]
            BY <1>2, <2>2, TailIs
        <3> QED
            BY <1>1, <3>1 DEF ComingInv, NoneSuperseded
    <2> QED
        BY <2>1, <2>2 DEF Serve, Dispatch, BeginOperation, BeginRead
<1>5. PICK g : g = refresh.generation
    OBVIOUS
<1>6. PICK n : n = history.generation
    OBVIOUS
<1>7. refresh.loading => Coming("Refresh", g)'
    <2>1. refresh.loading => Coming("Refresh", g)
        BY <1>5 DEF ComingInv, RefreshComes
    <2>2. \A i \in DOMAIN outbox : outbox[i].kind = "Refresh" => Is(outbox[i], "Refresh", g)
        BY <1>5 DEF ComingInv, NoneSuperseded, Is
    <2>3. \A i \in DOMAIN outbox : IsOperation(outbox[i])
             \/ SlotOf[outbox[i].kind] # SlotOf["Refresh"] \/ Is(outbox[i], "Refresh", g)
        BY <1>2, <2>2, OwnSlot
    <2>4. "Refresh" \in Kinds \ Operations
        BY ReadsAssumption
    <2> QED
        BY <2>1, <2>3, <2>4, ServeKeepsComing DEF ComingInv
<1>8. history.loading => Coming("LoadHistory", n)'
    <2>1. history.loading => Coming("LoadHistory", n)
        BY <1>6 DEF ComingInv, HistoryComes
    <2>2. \A i \in DOMAIN outbox : outbox[i].kind = "LoadHistory" => Is(outbox[i], "LoadHistory", n)
        BY <1>6 DEF ComingInv, NoneSuperseded, Is
    <2>3. \A i \in DOMAIN outbox : IsOperation(outbox[i])
             \/ SlotOf[outbox[i].kind] # SlotOf["LoadHistory"] \/ Is(outbox[i], "LoadHistory", n)
        BY <1>2, <2>2, OwnSlot
    <2>4. "LoadHistory" \in Kinds \ Operations
        BY ReadsAssumption
    <2> QED
        BY <2>1, <2>3, <2>4, ServeKeepsComing DEF ComingInv
<1>9. RefreshComes'
    BY <1>1, <1>5, <1>7 DEF RefreshComes, Coming, Out, Slotted, Running, Heard, Full, Is
<1>10. HistoryComes'
    BY <1>1, <1>6, <1>8 DEF HistoryComes, Coming, Out, Slotted, Running, Heard, Full, Is
<1> QED
    BY <1>3, <1>4, <1>9, <1>10 DEF ComingInv

(* The four places are those of OnItsWay. *)
LEMMA ComingIsOnItsWay ==
    ASSUME NEW k, NEW g, Coming(k, g)
    PROVE  \E c \in OnItsWay : Is(c, k, g)
<1>1. ASSUME NEW i \in DOMAIN outbox PROVE outbox[i] \in OnItsWay
    BY DEF OnItsWay
<1>2. ASSUME NEW l \in Lanes, NEW s \in Full(mailbox[l])
      PROVE  mailbox[l].slots[s] \in OnItsWay
    <2>1. mailbox[l].slots[s] \in Waiting(mailbox[l])
        BY DEF Waiting
    <2> QED
        BY <2>1 DEF OnItsWay
<1>3. ASSUME NEW l \in Lanes, executing[l] # NoCommand PROVE executing[l] \in OnItsWay
    BY <1>3 DEF OnItsWay
<1>4. ASSUME NEW i \in DOMAIN answers PROVE answers[i].command \in OnItsWay
    BY DEF OnItsWay
<1> QED
    BY <1>1, <1>2, <1>3, <1>4 DEF Coming, Out, Slotted, Running, Heard

LEMMA OperationIsOnItsWay ==
    ASSUME OperationsInv, LaneType, busy
    PROVE  \E c \in OnItsWay : c.kind = "Operate" /\ c.generation = operation_id
<1>1. ASSUME NEW c \in OnItsWay, Newest(c)
      PROVE  \E d \in OnItsWay : d.kind = "Operate" /\ d.generation = operation_id
    BY <1>1, OperationsAre DEF Newest
<1>2. CASE IsSent
    <2>1. PICK c \in Command : Newest(c) /\ outbox = <<c>>
        BY <1>2 DEF IsSent
    <2>2. 1 \in DOMAIN outbox /\ outbox[1] = c
        BY <2>1
    <2>3. c \in OnItsWay
        BY <2>2 DEF OnItsWay
    <2> QED
        BY <1>1, <2>1, <2>3
<1>3. CASE IsQueued
    <2>1. PICK c \in Command : Newest(c) /\ mailbox[Lane0].operations = <<c>>
        BY <1>3 DEF IsQueued
    <2>2. c \in Waiting(mailbox[Lane0])
        <3>1. 1 \in DOMAIN mailbox[Lane0].operations /\ mailbox[Lane0].operations[1] = c
            BY <2>1
        <3> QED
            BY <3>1 DEF Waiting
    <2>3. c \in OnItsWay
        BY <2>2, Lane0Type DEF OnItsWay
    <2> QED
        BY <1>1, <2>1, <2>3
<1>4. CASE IsRun
    <2>1. Newest(executing[Lane0]) /\ executing[Lane0] \in OnItsWay
        BY <1>4, Lane0Type DEF IsRun, OnItsWay
    <2> QED
        BY <1>1, <2>1
<1>5. CASE IsAnswered
    <2>1. PICK i \in DOMAIN answers : Newest(answers[i].command)
        BY <1>5 DEF IsAnswered
    <2>2. answers[i].command \in OnItsWay
        BY DEF OnItsWay
    <2> QED
        BY <1>1, <2>1, <2>2
<1> QED
    BY <1>2, <1>3, <1>4, <1>5 DEF OperationsInv, OneOperation

LEMMA AnswersAreComing ==
    ASSUME ReadsInv, OperationsInv, ComingInv
    PROVE  LoadingEndsWithAnAnswer
<1>1. refresh.loading => Owed("Refresh")
    BY ComingIsOnItsWay DEF ComingInv, RefreshComes, Owed, GenerationOf, Is
<1>2. history.loading => Owed("LoadHistory")
    BY ComingIsOnItsWay DEF ComingInv, HistoryComes, Owed, GenerationOf, Is
<1>3. busy => Owed("Operate")
    BY OperationIsOnItsWay DEF Owed, GenerationOf, ReadsInv
<1> QED
    BY <1>1, <1>2, <1>3 DEF LoadingEndsWithAnAnswer, ReadsInv, Coalesced

LEMMA ComingInvKept ==
    ASSUME ReadsInv, ComingInv, [Next]_vars
    PROVE  ComingInv'
BY StepsAre, RestingComing, AskingComing, QueueingComing, AnsweringComing, HearingComing,
   ServingComing

(* A pane that waits is owed its answer: whatever replaces whatever in the     *)
(* slots, and whichever answers are ignored for their generation, the one that *)
(* takes the flag down is sent, waits, runs or has run, and the same holds of  *)
(* a mutation.  A read that was coalesced waits behind one that will end.      *)
THEOREM LoadingAlwaysEndsWithAnAnswer == Safe => []LoadingEndsWithAnAnswer
<1>1. /\ ReadsInv /\ OperationsInv /\ ComingInv /\ [Next]_vars
      => (ReadsInv /\ OperationsInv /\ ComingInv)'
    BY OperationsInvKept, ComingInvKept
<1>2. ReadsInv /\ OperationsInv /\ ComingInv => LoadingEndsWithAnAnswer
    BY AnswersAreComing
<1> QED
    BY <1>1, <1>2, ReadsInvInitially, OperationsInitially, ComingInitially, PTL DEF Safe
-----------------------------------------------------------------------------
(***************************************************************************)
(* An interface that waits for nothing shows the repository as it is       *)
(* (QuietStatusIsFresh of RepositoryReads), for any number of lanes,       *)
(* changes, keys and failures and any width of the generations.            *)
(*                                                                         *)
(* The argument has two parts.  There is never a second refresh on its     *)
(* way, and none when the interface does not wait for one (OneRefresh);    *)
(* so an answer that is heard is that of the newest request.  And while    *)
(* nothing else announces a change, a refresh that was answered has seen   *)
(* the repository that is there now (StatusInv).                           *)
(***************************************************************************)

RefreshesIn(commands) == {i \in DOMAIN commands : commands[i].kind = "Refresh"}
Answered == {i \in DOMAIN answers : answers[i].command.kind = "Refresh"}
AtMostOne(S) == \A i, j \in S : i = j

RefreshSent     == RefreshesIn(outbox) # {}
RefreshSlotted  == \E l \in Lanes : \E s \in Full(mailbox[l]) : mailbox[l].slots[s].kind = "Refresh"
RefreshRuns     == \E l \in Lanes : executing[l] # NoCommand /\ executing[l].kind = "Refresh"
RefreshAnswered == Answered # {}

(* Nothing but the slot and the thread of one lane ever holds a refresh. *)
RefreshesHaveALane ==
    \A l \in Lanes \ {LaneOf["Refresh"]} :
        /\ \A s \in Full(mailbox[l]) : mailbox[l].slots[s].kind # "Refresh"
        /\ executing[l] # NoCommand => executing[l].kind # "Refresh"

(* An interface that waits for a refresh has at most one, in one of the four  *)
(* places; any other none.                                                    *)
OneRefresh ==
    /\ RefreshesHaveALane
    /\ AtMostOne(RefreshesIn(outbox)) /\ AtMostOne(Answered)
    /\ ~ (RefreshSent /\ (RefreshSlotted \/ RefreshRuns \/ RefreshAnswered))
    /\ ~ (RefreshSlotted /\ (RefreshRuns \/ RefreshAnswered))
    /\ ~ (RefreshRuns /\ RefreshAnswered)
    /\ ~ refresh.loading =>
          ~ RefreshSent /\ ~ RefreshSlotted /\ ~ RefreshRuns /\ ~ RefreshAnswered

(* Nothing announces a change that the interface has not yet asked about. *)
Unannounced == ~ WatcherMisses /\ ~ notified /\ ~ settling /\ ~ busy /\ ~ refresh.again

(* Then what is displayed, or was answered, is the repository. *)
Fresh ==
    Unannounced =>
        IF refresh.loading
        THEN \A i \in Answered : answers[i].ok => answers[i].seen = repository
        ELSE refresh.failed \/ status = repository

StatusInv == OneRefresh /\ Fresh
-----------------------------------------------------------------------------
(* What the handlers send. *)

LEMMA RefreshEffectsOnce ==
    ASSUME NEW r
    PROVE  /\ AtMostOne(RefreshesIn(RefreshEffects(r)))
           /\ ~ Sent(refresh, r) => RefreshesIn(RefreshEffects(r)) = {}
<1>1. CASE ~ Sent(refresh, r)
    BY <1>1 DEF RefreshEffects, RefreshesIn, AtMostOne
<1>2. CASE Sent(refresh, r)
    <2> DEFINE first == [kind |-> "Refresh", generation |-> r.generation]
               second == [kind |-> RefreshLists,
                          generation |-> Listed(r)[CounterOf[RefreshLists]]]
    <2>1. RefreshEffects(r) = <<first, second>>
        BY <1>2 DEF RefreshEffects
    <2>2. second.kind # "Refresh"
        BY DEF RefreshLists
    <2> HIDE DEF first, second
    <2>3. RefreshesIn(<<first, second>>) \subseteq {1}
        BY <2>2 DEF RefreshesIn
    <2> QED
        BY <1>2, <2>1, <2>3 DEF AtMostOne
<1> QED
    BY <1>1, <1>2

LEMMA HistoryEffectsNone ==
    ASSUME NEW h, NEW skip
    PROVE  RefreshesIn(HistoryEffects(h, skip)) = {}
<1> DEFINE first == [kind |-> "LoadHistory", generation |-> h.generation,
                     branch |-> h.branch, skip |-> skip]
<1>1. HistoryEffects(h, skip) \in {<<>>, <<first>>} /\ first.kind # "Refresh"
    BY DEF HistoryEffects
<1> HIDE DEF first
<1> QED
    BY <1>1 DEF RefreshesIn

LEMMA HistoryBranchesEffectsNone ==
    ASSUME NEW b
    PROVE  RefreshesIn(HistoryBranchesEffects(b)) = {}
<1> DEFINE first == [kind |-> "LoadHistoryBranches", generation |-> b.generation]
<1>1. HistoryBranchesEffects(b) \in {<<>>, <<first>>} /\ first.kind # "Refresh"
    BY DEF HistoryBranchesEffects
<1> HIDE DEF first
<1> QED
    BY <1>1 DEF RefreshesIn

LEMMA RefreshesOfBoth ==
    ASSUME NEW s \in Seq(Command), NEW t \in Seq(Command)
    PROVE  /\ RefreshesIn(s) = {} /\ RefreshesIn(t) = {} => RefreshesIn(s \o t) = {}
           /\ RefreshesIn(s) = {} /\ AtMostOne(RefreshesIn(t)) => AtMostOne(RefreshesIn(s \o t))
           /\ AtMostOne(RefreshesIn(s)) /\ RefreshesIn(t) = {} => AtMostOne(RefreshesIn(s \o t))
<1>1. /\ Len(s \o t) = Len(s) + Len(t) /\ s \o t \in Seq(Command)
      /\ \A i \in 1 .. Len(s) + Len(t) :
            (s \o t)[i] = IF i <= Len(s) THEN s[i] ELSE t[i - Len(s)]
    BY ConcatProperties
<1>2. /\ DOMAIN s = 1 .. Len(s) /\ DOMAIN t = 1 .. Len(t) /\ DOMAIN (s \o t) = 1 .. Len(s) + Len(t)
      /\ Len(s) \in Nat /\ Len(t) \in Nat
    BY <1>1, LenProperties
<1>3. ASSUME NEW i \in RefreshesIn(s \o t)
      PROVE  /\ i \in Int
             /\ i \in RefreshesIn(s) \/ i - Len(s) \in RefreshesIn(t)
    <2>1. i \in 1 .. Len(s) + Len(t) /\ (s \o t)[i].kind = "Refresh"
        BY <1>2 DEF RefreshesIn
    <2>2. CASE i <= Len(s)
        BY <1>1, <1>2, <2>1, <2>2 DEF RefreshesIn
    <2>3. CASE ~ (i <= Len(s))
        <3>1. i - Len(s) \in 1 .. Len(t)
            BY <1>2, <2>1, <2>3
        <3> QED
            BY <1>1, <1>2, <2>1, <2>3, <3>1 DEF RefreshesIn
    <2> QED
        BY <2>2, <2>3
<1> QED
    BY <1>2, <1>3 DEF AtMostOne
-----------------------------------------------------------------------------
(* A handler asks for a refresh only when none is on its way. *)

AsksOnce(effects, waited) ==
    \/ RefreshesIn(effects) = {} /\ (waited => refresh'.loading)
    \/ AtMostOne(RefreshesIn(effects)) /\ ~ waited /\ refresh'.loading

LEMMA RequestAsksOnce ==
    ASSUME PanesType, refresh' = RequestRefresh(refresh)
    PROVE  AsksOnce(RefreshEffects(RequestRefresh(refresh)), refresh.loading)
<1>1. /\ RequestRefresh(refresh).loading
      /\ refresh.loading <=> ~ Sent(refresh, RequestRefresh(refresh))
    BY RequestRefreshType DEF PanesType, Sent
<1> QED
    BY <1>1, RefreshEffectsOnce DEF AsksOnce

LEMMA HandleOneRefresh ==
    ASSUME OneRefresh, NEW effects, Handle(effects), AsksOnce(effects, refresh.loading)
    PROVE  OneRefresh' /\ UNCHANGED <<answers, Answered>>
<1>1. outbox = <<>> /\ outbox' = effects /\ UNCHANGED <<mailbox, executing, answers>>
    BY DEF Handle, Free
<1>2. /\ UNCHANGED Answered
      /\ RefreshesHaveALane' <=> RefreshesHaveALane
      /\ RefreshSlotted' <=> RefreshSlotted
      /\ RefreshRuns' <=> RefreshRuns
      /\ RefreshAnswered' <=> RefreshAnswered
    BY <1>1 DEF Answered, RefreshSlotted, RefreshRuns, RefreshAnswered, RefreshesHaveALane, Full
<1>3. RefreshSent' <=> RefreshesIn(effects) # {}
    BY <1>1 DEF RefreshSent, RefreshesIn
<1>4. AtMostOne(RefreshesIn(effects)) => AtMostOne(RefreshesIn(outbox))'
    BY <1>1 DEF AtMostOne, RefreshesIn
<1>5. AtMostOne(Answered)'
    BY <1>2 DEF OneRefresh, AtMostOne
<1>6. ~ RefreshSent
    BY <1>1 DEF RefreshSent, RefreshesIn
<1>7. CASE RefreshesIn(effects) = {} /\ (refresh.loading => refresh'.loading)
    <2>1. AtMostOne(RefreshesIn(effects))
        BY <1>7 DEF AtMostOne
    <2> QED
        BY <1>1, <1>2, <1>3, <1>4, <1>5, <1>7, <2>1 DEF OneRefresh
<1>8. CASE AtMostOne(RefreshesIn(effects)) /\ ~ refresh.loading /\ refresh'.loading
    BY <1>1, <1>2, <1>4, <1>5, <1>8 DEF OneRefresh
<1> QED
    BY <1>1, <1>2, <1>7, <1>8 DEF AsksOnce

LEMMA HearOneRefresh ==
    ASSUME LaneType, OneRefresh, NEW effects, answers # <<>>, HandleAnswer(effects),
           AsksOnce(effects, refresh.loading /\ Head(answers).command.kind # "Refresh")
    PROVE  /\ OneRefresh'
           /\ \A i \in Answered' : i + 1 \in Answered /\ answers'[i] = answers[i + 1]
           /\ Head(answers).command.kind = "Refresh" => refresh.loading /\ Answered' = {}
<1>1. outbox = <<>> /\ outbox' = effects /\ UNCHANGED <<mailbox, executing>>
    BY DEF HandleAnswer, Free
<1>2. answers \in Seq(Event) /\ answers' = Tail(answers)
    BY DEF LaneType, LaneTypeOK, HandleAnswer
<1>3. /\ DOMAIN answers = 1 .. Len(answers) /\ Len(answers) \in Nat \ {0}
      /\ DOMAIN answers' = 1 .. Len(answers) - 1
      /\ \A i \in 1 .. Len(answers) - 1 : answers'[i] = answers[i + 1]
      /\ Head(answers) = answers[1]
    BY <1>2, TailIs
<1>4. UNCHANGED <<RefreshSlotted, RefreshRuns, RefreshesHaveALane>>
    BY <1>1 DEF RefreshSlotted, RefreshRuns, RefreshesHaveALane, Full
<1>5. \A i \in Answered' : i + 1 \in Answered /\ i \in Int /\ answers'[i] = answers[i + 1]
    BY <1>3 DEF Answered
<1>6. AtMostOne(Answered)'
    BY <1>3, <1>5 DEF OneRefresh, AtMostOne, Answered
<1>7. RefreshSent' <=> RefreshesIn(effects) # {}
    BY <1>1 DEF RefreshSent, RefreshesIn
<1>8. AtMostOne(RefreshesIn(effects)) => AtMostOne(RefreshesIn(outbox))'
    BY <1>1 DEF AtMostOne, RefreshesIn
<1>9. RefreshAnswered' => RefreshAnswered
    BY <1>5 DEF RefreshAnswered
<1>10. CASE Head(answers).command.kind = "Refresh"
    <2>1. 1 \in Answered
        BY <1>3, <1>10 DEF Answered
    <2>2. Answered' = {}
        BY <1>5, <2>1, <1>3 DEF OneRefresh, AtMostOne, Answered
    <2>3. refresh.loading /\ ~ RefreshSlotted' /\ ~ RefreshRuns' /\ ~ RefreshAnswered'
        BY <1>4, <2>1, <2>2 DEF OneRefresh, RefreshAnswered
    <2>4. RefreshesIn(effects) = {} \/ refresh'.loading
        BY DEF AsksOnce
    <2>5. AtMostOne(RefreshesIn(effects))
        BY DEF AsksOnce, AtMostOne
    <2> QED
        BY <1>4, <1>5, <1>6, <1>7, <1>8, <2>2, <2>3, <2>4, <2>5 DEF OneRefresh
<1>11. CASE Head(answers).command.kind # "Refresh"
    <2>1. CASE RefreshesIn(effects) = {} /\ (refresh.loading => refresh'.loading)
        <3>1. AtMostOne(RefreshesIn(effects))
            BY <2>1 DEF AtMostOne
        <3> QED
            BY <1>4, <1>5, <1>6, <1>7, <1>8, <1>9, <1>11, <2>1, <3>1 DEF OneRefresh
    <2>2. CASE AtMostOne(RefreshesIn(effects)) /\ ~ refresh.loading /\ refresh'.loading
        BY <1>4, <1>5, <1>6, <1>7, <1>8, <1>9, <1>11, <2>2 DEF OneRefresh
    <2> QED
        BY <1>11, <2>1, <2>2 DEF AsksOnce
<1> QED
    BY <1>10, <1>11

LEMMA AnswerOneRefresh ==
    ASSUME LaneType, OneRefresh, NEW l \in Lanes, NEW event \in Event,
           executing[l] # NoCommand, event.command = executing[l], Answer(l, event),
           UNCHANGED refresh
    PROVE  /\ OneRefresh'
           /\ \A i \in Answered' : \/ i \in Answered /\ answers'[i] = answers[i]
                                   \/ answers'[i] = event
<1>1. /\ answers' = Append(answers, event)
      /\ executing' = [executing EXCEPT ![l] = NoCommand]
      /\ UNCHANGED <<outbox, mailbox>>
    BY DEF Answer
<1>2. answers \in Seq(Event) /\ executing \in [Lanes -> Command \cup {NoCommand}]
    BY DEF LaneType, LaneTypeOK
<1>3. /\ DOMAIN answers = 1 .. Len(answers) /\ Len(answers) \in Nat
      /\ DOMAIN answers' = 1 .. Len(answers) + 1
      /\ \A i \in DOMAIN answers : answers'[i] = answers[i]
      /\ answers'[Len(answers) + 1] = event
    BY <1>1, <1>2, AppendProperties, LenProperties
<1>4. UNCHANGED <<RefreshSent, RefreshSlotted>> /\ AtMostOne(RefreshesIn(outbox))'
    BY <1>1 DEF OneRefresh, RefreshSent, RefreshSlotted, AtMostOne, RefreshesIn, Full
<1>5. \A m \in Lanes : executing'[m] = IF m = l THEN NoCommand ELSE executing[m]
    BY <1>1, <1>2
<1>6. RefreshesHaveALane'
    BY <1>1, <1>5 DEF OneRefresh, RefreshesHaveALane, Full
<1>7. \A i \in Answered' : \/ i \in Answered /\ answers'[i] = answers[i]
                           \/ i = Len(answers) + 1 /\ answers'[i] = event
    BY <1>3 DEF Answered
<1>8. CASE executing[l].kind = "Refresh"
    <2>1. RefreshRuns /\ l = LaneOf["Refresh"]
        BY <1>8 DEF RefreshRuns, OneRefresh, RefreshesHaveALane
    <2>2. Answered = {} /\ refresh.loading /\ ~ RefreshSent' /\ ~ RefreshSlotted'
        BY <1>4, <2>1 DEF OneRefresh, RefreshAnswered
    <2>3. ~ RefreshRuns'
        BY <1>5, <2>1 DEF RefreshRuns, OneRefresh, RefreshesHaveALane
    <2>4. AtMostOne(Answered)'
        BY <1>3, <1>7, <2>2 DEF AtMostOne, Answered
    <2> QED
        BY <1>4, <1>6, <1>7, <2>2, <2>3, <2>4 DEF OneRefresh
<1>9. CASE executing[l].kind # "Refresh"
    <2>1. \A i \in Answered' : i \in Answered /\ answers'[i] = answers[i]
        BY <1>3, <1>7, <1>9 DEF Answered
    <2>2. AtMostOne(Answered)' /\ (RefreshAnswered' => RefreshAnswered)
        BY <2>1 DEF OneRefresh, AtMostOne, Answered, RefreshAnswered
    <2>3. RefreshRuns' => RefreshRuns
        BY <1>5 DEF RefreshRuns
    <2> QED
        BY <1>4, <1>6, <2>1, <2>2, <2>3 DEF OneRefresh
<1> QED
    BY <1>8, <1>9
-----------------------------------------------------------------------------
(* The lanes. *)

LEMMA QueuesHoldOperations ==
    ASSUME LaneType, OperationsInv, NEW l \in Lanes, mailbox[l].operations # <<>>
    PROVE  Head(mailbox[l].operations).kind = "Operate"
<1>1. l = Lane0 /\ ~ NoneQueued
    BY DEF OperationsInv, OperationsHaveALane, NoneQueued
<1>2. IsQueued
    BY <1>1 DEF OperationsInv, OneOperation, IsSent, IsRun, IsAnswered
<1>3. PICK c \in Command : Newest(c) /\ mailbox[Lane0].operations = <<c>>
    BY <1>2 DEF IsQueued
<1> QED
    BY <1>1, <1>3, OperationsAre DEF Newest

LEMMA DispatchOneRefresh ==
    ASSUME LaneType, InTheirSlots, OneRefresh, Dispatch, UNCHANGED refresh
    PROVE  OneRefresh'
<1> DEFINE c == Head(outbox)
           to == LaneOf[c.kind]
<1>1. /\ outbox \in Seq(Command) /\ mailbox \in [Lanes -> MailboxOf(Command)]
      /\ outbox # <<>> /\ outbox' = Tail(outbox)
      /\ mailbox' = [mailbox EXCEPT ![to] = Push(@, c)]
      /\ UNCHANGED <<executing, answers>>
    BY DEF LaneType, LaneTypeOK, Dispatch
<1>2. c \in Command /\ to \in Lanes
    BY <1>1, HeadTailProperties, KindsOfCommands, TablesAssumption
<1>3. /\ DOMAIN outbox = 1 .. Len(outbox) /\ Len(outbox) \in Nat \ {0}
      /\ DOMAIN outbox' = 1 .. Len(outbox) - 1
      /\ \A i \in 1 .. Len(outbox) - 1 : outbox'[i] = outbox[i + 1]
      /\ c = outbox[1]
    BY <1>1, TailIs
<1>4. c.kind = "Refresh" => to = LaneOf["Refresh"]
    OBVIOUS
<1> HIDE DEF c, to
<1>5. mailbox[to] \in MailboxOf(Command)
    BY <1>1, <1>2
<1>6. \A s \in Slots : Push(mailbox[to], c).slots[s] \in {mailbox[to].slots[s], c}
    BY <1>5 DEF Push, MailboxOf
<1>7. \A l \in Lanes, s \in Slots :
         \/ mailbox'[l].slots[s] = mailbox[l].slots[s]
         \/ l = to /\ mailbox'[l].slots[s] = c
    BY <1>1, <1>2, <1>6
<1>8. \A i \in RefreshesIn(outbox)' : i + 1 \in RefreshesIn(outbox) /\ i \in 1 .. Len(outbox) - 1
    BY <1>3 DEF RefreshesIn
<1>9. AtMostOne(RefreshesIn(outbox))'
    BY <1>3, <1>8 DEF OneRefresh, AtMostOne, RefreshesIn
<1>10. /\ AtMostOne(Answered)'
       /\ RefreshRuns' <=> RefreshRuns
       /\ RefreshAnswered' <=> RefreshAnswered
    BY <1>1 DEF OneRefresh, AtMostOne, Answered, RefreshRuns, RefreshAnswered
<1>11. CASE c.kind = "Refresh"
    <2>1. 1 \in RefreshesIn(outbox)
        BY <1>3, <1>11 DEF RefreshesIn
    <2>2. ~ RefreshSent'
        BY <1>3, <1>8, <2>1 DEF OneRefresh, AtMostOne, RefreshSent, RefreshesIn
    <2>3. refresh.loading /\ ~ RefreshRuns' /\ ~ RefreshAnswered'
        BY <1>10, <2>1 DEF OneRefresh, RefreshSent
    <2>4. RefreshesHaveALane'
        BY <1>1, <1>4, <1>7, <1>11 DEF OneRefresh, RefreshesHaveALane, Full
    <2> QED
        BY <1>9, <1>10, <2>2, <2>3, <2>4 DEF OneRefresh
<1>12. CASE c.kind # "Refresh"
    <2>1. RefreshSent' => RefreshSent
        BY <1>8 DEF RefreshSent
    <2>2. RefreshSlotted' => RefreshSlotted
        BY <1>7, <1>12 DEF RefreshSlotted, Full
    <2>3. RefreshesHaveALane'
        BY <1>1, <1>7, <1>12 DEF OneRefresh, RefreshesHaveALane, Full
    <2> QED
        BY <1>9, <1>10, <2>1, <2>2, <2>3 DEF OneRefresh
<1> QED
    BY <1>11, <1>12

LEMMA BeginOperationOneRefresh ==
    ASSUME LaneType, OperationsInv, OneRefresh, NEW l \in Lanes, BeginOperation(l),
           UNCHANGED refresh
    PROVE  OneRefresh'
<1>1. /\ mailbox \in [Lanes -> MailboxOf(Command)]
      /\ executing \in [Lanes -> Command \cup {NoCommand}]
    BY DEF LaneType, LaneTypeOK
<1>2. /\ mailbox[l].operations # <<>>
      /\ mailbox' = [mailbox EXCEPT ![l] = WithoutHead(@)]
      /\ executing' = [executing EXCEPT ![l] = Head(mailbox[l].operations)]
      /\ UNCHANGED <<outbox, answers>>
    BY DEF BeginOperation, PopsOperation
<1>3. \A m \in Lanes : mailbox'[m].slots = mailbox[m].slots
    BY <1>1, <1>2 DEF WithoutHead, MailboxOf
<1>4. executing'[l].kind # "Refresh" /\ \A m \in Lanes \ {l} : executing'[m] = executing[m]
    BY <1>1, <1>2, QueuesHoldOperations
<1>5. /\ AtMostOne(RefreshesIn(outbox))' /\ AtMostOne(Answered)'
      /\ RefreshSent' <=> RefreshSent
      /\ RefreshAnswered' <=> RefreshAnswered
    BY <1>2 DEF OneRefresh, AtMostOne, RefreshesIn, Answered, RefreshSent, RefreshAnswered
<1>6. RefreshSlotted' <=> RefreshSlotted
    BY <1>3 DEF RefreshSlotted, Full
<1>7. RefreshRuns' => RefreshRuns
    BY <1>4 DEF RefreshRuns
<1>8. RefreshesHaveALane'
    BY <1>3, <1>4 DEF OneRefresh, RefreshesHaveALane, Full
<1> QED
    BY <1>5, <1>6, <1>7, <1>8 DEF OneRefresh

LEMMA BeginReadOneRefresh ==
    ASSUME LaneType, InTheirSlots, OneRefresh, NEW l \in Lanes, NEW s \in Slots, BeginRead(l, s),
           UNCHANGED refresh
    PROVE  OneRefresh'
<1>1. /\ mailbox \in [Lanes -> MailboxOf(Command)]
      /\ executing \in [Lanes -> Command \cup {NoCommand}]
    BY DEF LaneType, LaneTypeOK
<1>2. /\ s \in Full(mailbox[l])
      /\ mailbox' = [mailbox EXCEPT ![l] = WithoutSlot(@, s)]
      /\ executing' = [executing EXCEPT ![l] = mailbox[l].slots[s]]
      /\ UNCHANGED <<outbox, answers>>
    BY DEF BeginRead, PopsSlot
<1>3. /\ \A m \in Lanes \ {l} : mailbox'[m].slots = mailbox[m].slots
      /\ \A t \in Slots : mailbox'[l].slots[t] = IF t = s THEN NoCommand ELSE mailbox[l].slots[t]
    BY <1>1, <1>2 DEF WithoutSlot, MailboxOf
<1>4. /\ executing'[l] = mailbox[l].slots[s]
      /\ \A m \in Lanes \ {l} : executing'[m] = executing[m]
    BY <1>1, <1>2
<1>5. /\ AtMostOne(RefreshesIn(outbox))' /\ AtMostOne(Answered)'
      /\ RefreshSent' <=> RefreshSent
      /\ RefreshAnswered' <=> RefreshAnswered
    BY <1>2 DEF OneRefresh, AtMostOne, RefreshesIn, Answered, RefreshSent, RefreshAnswered
<1>6. RefreshesHaveALane'
    BY <1>2, <1>3, <1>4 DEF OneRefresh, RefreshesHaveALane, Full
<1>7. RefreshSlotted' => RefreshSlotted
    BY <1>3 DEF RefreshSlotted, Full
<1>8. CASE mailbox[l].slots[s].kind = "Refresh"
    <2>1. RefreshSlotted /\ l = LaneOf["Refresh"] /\ s = SlotOf["Refresh"]
        BY <1>2, <1>8 DEF RefreshSlotted, OneRefresh, RefreshesHaveALane, InTheirSlots
    <2>2. refresh.loading /\ ~ RefreshSent' /\ ~ RefreshAnswered'
        BY <1>5, <2>1 DEF OneRefresh
    <2>3. ~ RefreshSlotted'
        <3>1. \A t \in Slots : mailbox'[l].slots[t] # NoCommand =>
                 t # s /\ t \in Full(mailbox[l]) /\ mailbox'[l].slots[t] = mailbox[l].slots[t]
            BY <1>3 DEF Full
        <3>2. \A t \in Slots : mailbox'[l].slots[t] # NoCommand =>
                 mailbox'[l].slots[t].kind # "Refresh"
            BY <2>1, <3>1 DEF InTheirSlots
        <3>3. \A m \in Lanes \ {l} : \A t \in Full(mailbox[m]) :
                 mailbox[m].slots[t].kind # "Refresh"
            BY <2>1 DEF OneRefresh, RefreshesHaveALane
        <3>4. \A m \in Lanes \ {l} : \A t \in Slots : mailbox'[m].slots[t] # NoCommand =>
                 mailbox'[m].slots[t].kind # "Refresh"
            BY <1>3, <3>3 DEF Full
        <3> QED
            BY <3>2, <3>4 DEF RefreshSlotted, Full
    <2> QED
        BY <1>5, <1>6, <2>2, <2>3 DEF OneRefresh
<1>9. CASE mailbox[l].slots[s].kind # "Refresh"
    <2>1. RefreshRuns' => RefreshRuns
        BY <1>4, <1>9 DEF RefreshRuns
    <2> QED
        BY <1>5, <1>6, <1>7, <2>1 DEF OneRefresh
<1> QED
    BY <1>8, <1>9

LEMMA ServeOneRefresh ==
    ASSUME LaneType, OperationsInv, InTheirSlots, OneRefresh, Serve, UNCHANGED refresh
    PROVE  OneRefresh' /\ UNCHANGED answers
BY DispatchOneRefresh, BeginOperationOneRefresh, BeginReadOneRefresh
DEF Serve, Dispatch, BeginOperation, BeginRead
-----------------------------------------------------------------------------
(* What the steps do to what is displayed. *)

LEMMA QuietHandler ==
    ASSUME StatusInv, NEW effects, Handle(effects), RefreshesIn(effects) = {},
           UNCHANGED <<outside, status, refresh, settling>>, busy => busy'
    PROVE  StatusInv'
<1>1. OneRefresh' /\ UNCHANGED <<answers, Answered>>
    BY HandleOneRefresh DEF StatusInv, AsksOnce
<1>2. Fresh'
    BY <1>1 DEF StatusInv, Fresh, Unannounced, outside
<1> QED
    BY <1>1, <1>2 DEF StatusInv

LEMMA AskingHandler ==
    ASSUME PanesType, StatusInv, NEW effects, Handle(effects),
           refresh' = RequestRefresh(refresh), AsksOnce(effects, refresh.loading)
    PROVE  StatusInv'
<1>1. OneRefresh' /\ UNCHANGED <<answers, Answered>>
    BY HandleOneRefresh DEF StatusInv
<1>2. /\ refresh'.loading
      /\ refresh.loading => refresh'.again
    BY RequestRefreshType DEF RequestRefresh, PanesType, RefreshPane
<1>3. ~ refresh.loading => Answered = {}
    BY DEF StatusInv, OneRefresh, RefreshAnswered
<1>4. Fresh'
    BY <1>1, <1>2, <1>3 DEF Fresh, Unannounced
<1> QED
    BY <1>1, <1>4 DEF StatusInv

LEMMA QuietHearing ==
    ASSUME ReadsInv, StatusInv, NEW effects, answers # <<>>, HandleAnswer(effects),
           RefreshesIn(effects) = {}, UNCHANGED <<outside, status, refresh, settling, busy>>
    PROVE  StatusInv'
<1>1. /\ OneRefresh'
      /\ \A i \in Answered' : i + 1 \in Answered /\ answers'[i] = answers[i + 1]
    BY HearOneRefresh DEF StatusInv, AsksOnce, ReadsInv
<1>2. Fresh'
    BY <1>1 DEF StatusInv, Fresh, Unannounced, outside
<1> QED
    BY <1>1, <1>2 DEF StatusInv

LEMMA HearStatusFresh ==
    ASSUME ReadsInv, StatusInv, HearStatus
    PROVE  StatusInv'
<1> DEFINE a == Head(answers)
           h == IF a.ok THEN HistoryAfter(a.seen) ELSE history
           r == RefreshAfter(a.ok)
           effects == HistoryEffects(h, 0) \o RefreshEffects(r)
<1>1. /\ Hears({"Refresh"}) /\ status' = (IF a.ok THEN a.seen ELSE status)
      /\ refresh' = r /\ HandleAnswer(effects) /\ busy' = busy
    BY DEF HearStatus, Refresh
<1>2. /\ answers # <<>> /\ a.ok \in BOOLEAN /\ a.command.kind = "Refresh"
      /\ UNCHANGED outside /\ settling' = settling
    BY <1>1, HeardType
<1>3. PanesType /\ LaneType
    BY DEF ReadsInv
<1>4. /\ r \in RefreshPane /\ (r.loading => Sent(refresh, r))
      /\ refresh.again => r.loading
      /\ ~ refresh.again => /\ r = [refresh EXCEPT !.loading = FALSE, !.again = FALSE,
                                                   !.failed = ~ a.ok]
                            /\ ~ r.loading /\ r.failed = (~ a.ok) /\ ~ Sent(refresh, r)
    <2>1. r \in RefreshPane /\ (r.loading => Sent(refresh, r))
        BY <1>2, <1>3, RefreshAfterAsks
    <2>2. refresh.again => r.loading
        BY RequestRefreshType, <1>2, <1>3 DEF RefreshAfter, RequestRefresh, PanesType, RefreshPane
    <2>3. ~ refresh.again => r = [refresh EXCEPT !.loading = FALSE, !.again = FALSE,
                                                 !.failed = ~ a.ok]
        BY DEF RefreshAfter
    <2> QED
        BY <1>3, <2>1, <2>2, <2>3 DEF PanesType, RefreshPane, Sent
<1>5. effects = HistoryEffects(h, 0) \o RefreshEffects(r)
    OBVIOUS
<1>6. h \in HistoryPane
    <2>1. h = history \/ \E reset \in BOOLEAN : h = RequestHistory(history, reset)
        BY DEF HistoryAfter
    <2> HIDE DEF h
    <2> QED
        BY <2>1, HistoryAfterAsks
<1> HIDE DEF a, h, r, effects
<1>7. HistoryEffects(h, 0) \in Seq(Command) /\ RefreshEffects(r) \in Seq(Command)
    BY <1>3, <1>4, <1>6, RefreshSends, HistorySends DEF Reads
<1>8. /\ AtMostOne(RefreshesIn(effects))
      /\ ~ Sent(refresh, r) => RefreshesIn(effects) = {}
    BY <1>5, <1>7, RefreshesOfBoth, RefreshEffectsOnce, HistoryEffectsNone
<1>9. AsksOnce(effects, FALSE)
    BY <1>1, <1>4, <1>8 DEF AsksOnce
<1>10. AsksOnce(effects, refresh.loading /\ Head(answers).command.kind # "Refresh")
    BY <1>2, <1>9 DEF AsksOnce, a
<1>11. OneRefresh' /\ refresh.loading /\ Answered' = {}
    BY <1>1, <1>2, <1>3, <1>10, HearOneRefresh DEF StatusInv, a
<1>12. Fresh'
    <2>1. CASE refresh.again
        BY <1>1, <1>4, <1>11, <2>1 DEF Fresh
    <2>2. CASE ~ refresh.again
        <3>1. 1 \in Answered /\ answers[1] = a
            BY <1>2, <1>3, TailIs DEF Answered, a, LaneType, LaneTypeOK
        <3>2. ~ refresh'.loading /\ refresh'.failed = (~ a.ok)
            BY <1>1, <1>4, <2>2
        <3>3. Unannounced' /\ a.ok => a.seen = repository
            BY <1>1, <1>2, <1>11, <2>2, <3>1 DEF StatusInv, Fresh, Unannounced, outside
        <3> QED
            BY <1>1, <1>2, <3>2, <3>3 DEF Fresh, outside
    <2> QED
        BY <2>1, <2>2
<1> QED
    BY <1>11, <1>12 DEF StatusInv

LEMMA HearOperationFresh ==
    ASSUME ReadsInv, StatusInv, HearOperation
    PROVE  StatusInv'
<1> DEFINE a == Head(answers)
           r == RequestRefresh(refresh)
           h == IF a.ok /\ a.command.changes_history
                THEN RequestHistory(history, TRUE) ELSE history
           effects == RefreshEffects(r) \o HistoryEffects(h, 0)
<1>1. Hears({"Operate"}) /\ refresh' = r /\ HandleAnswer(effects)
    BY DEF HearOperation, Refresh
<1>2. answers # <<>> /\ Head(answers).command.kind # "Refresh"
    BY <1>1, HeardType
<1>3. PanesType /\ LaneType
    BY DEF ReadsInv
<1>4. /\ r \in RefreshPane /\ r.loading /\ (refresh.loading => r.again)
      /\ refresh.loading <=> ~ Sent(refresh, r)
    BY <1>3, RequestRefreshType DEF PanesType, Sent, RequestRefresh, RefreshPane
<1>5. h \in HistoryPane
    <2>1. h = history \/ \E reset \in BOOLEAN : h = RequestHistory(history, reset)
        OBVIOUS
    <2> HIDE DEF h
    <2> QED
        BY <2>1, HistoryAfterAsks
<1> HIDE DEF a, h, r
<1>6. HistoryEffects(h, 0) \in Seq(Command) /\ RefreshEffects(r) \in Seq(Command)
    BY <1>3, <1>4, <1>5, RefreshSends, HistorySends DEF Reads
<1>7. /\ AtMostOne(RefreshesIn(effects))
      /\ ~ Sent(refresh, r) => RefreshesIn(effects) = {}
    BY <1>6, RefreshesOfBoth, RefreshEffectsOnce, HistoryEffectsNone
<1>8. AsksOnce(effects, refresh.loading /\ Head(answers).command.kind # "Refresh")
    BY <1>1, <1>2, <1>4, <1>7 DEF AsksOnce
<1> HIDE DEF effects
<1>9. OneRefresh' /\ \A i \in Answered' : i + 1 \in Answered
    BY <1>1, <1>2, <1>3, <1>8, HearOneRefresh DEF StatusInv
<1>10. ~ refresh.loading => Answered' = {}
    BY <1>9 DEF StatusInv, OneRefresh, RefreshAnswered
<1>11. Fresh'
    BY <1>1, <1>4, <1>10 DEF Fresh, Unannounced
<1> QED
    BY <1>9, <1>11 DEF StatusInv

LEMMA AnswerReadFresh ==
    ASSUME ReadsInv, StatusInv, NEW l \in Lanes, AnswerRead(l)
    PROVE  StatusInv'
<1>1. PICK ok \in Outcomes(executing[l]) :
        /\ Answer(l, [command |-> executing[l], ok |-> ok, seen |-> repository])
        /\ Finish(ok)
    BY DEF AnswerRead
<1> DEFINE event == [command |-> executing[l], ok |-> ok, seen |-> repository]
<1>2. LaneType /\ executing[l] \in Command /\ executing[l] # NoCommand
    BY DEF ReadsInv, LaneType, LaneTypeOK, AnswerRead
<1>3. event \in Event /\ event.command = executing[l] /\ event.seen = repository
    BY <1>1, <1>2, FinishType DEF Event, ReadsInv, OutsideType
<1>4. Answer(l, event)
    BY <1>1
<1> HIDE DEF event
<1>5. UNCHANGED <<refresh, status, busy, settling, repository, notified>>
    BY <1>1 DEF Finish, panes, AnswerRead, outside
<1>6. /\ OneRefresh'
      /\ \A i \in Answered' : \/ i \in Answered /\ answers'[i] = answers[i]
                              \/ answers'[i] = event
    BY <1>2, <1>3, <1>4, <1>5, AnswerOneRefresh DEF StatusInv
<1>7. Fresh'
    BY <1>3, <1>5, <1>6 DEF StatusInv, Fresh, Unannounced
<1> QED
    BY <1>6, <1>7 DEF StatusInv

(* What an operation changes is asked about when its end is heard. *)
LEMMA AnswerOperationFresh ==
    ASSUME ReadsInv, OperationsInv, StatusInv, NEW l \in Lanes, AnswerOperation(l)
    PROVE  StatusInv'
<1>1. PICK ok \in Outcomes(executing[l]) :
        /\ Answer(l, [command |-> executing[l], ok |-> ok, seen |-> repository'])
        /\ Finish(ok)
    BY DEF AnswerOperation
<1> DEFINE event == [command |-> executing[l], ok |-> ok, seen |-> repository']
<1>2. LaneType /\ executing[l] \in Command /\ executing[l] # NoCommand
    BY DEF ReadsInv, LaneType, LaneTypeOK, AnswerOperation
<1>3. OutsideType'
    BY AnswerOperationStep DEF ReadsInv
<1>4. event \in Event /\ event.command = executing[l]
    BY <1>1, <1>2, <1>3, FinishType DEF Event, OutsideType
<1>5. Answer(l, event)
    BY <1>1
<1> HIDE DEF event
<1>6. UNCHANGED <<refresh, busy>>
    BY <1>1 DEF Finish, panes
<1>7. OneRefresh'
    BY <1>2, <1>4, <1>5, <1>6, AnswerOneRefresh DEF StatusInv
<1>8. busy
    <2>1. IsOperation(executing[l])
        BY OperationsAre DEF AnswerOperation
    <2>2. l = Lane0
        BY <1>2, <2>1 DEF OperationsInv, OperationsHaveALane
    <2> QED
        BY <1>2, <2>1, <2>2 DEF OperationsInv, OneOperation, NoneRuns
<1>9. Fresh'
    BY <1>6, <1>8 DEF Fresh, Unannounced
<1> QED
    BY <1>7, <1>9 DEF StatusInv
-----------------------------------------------------------------------------
LEMMA RefreshingFresh ==
    ASSUME ReadsInv, StatusInv, Settle \/ Heartbeat \/ ActiveRefresh
    PROVE  StatusInv'
<1> DEFINE r == RequestRefresh(refresh)
           b == IF branches.loading THEN branches ELSE RequestHistoryBranches(branches)
<1>1. PanesType /\ refresh' = r
    BY DEF ReadsInv, Settle, Heartbeat, ActiveRefresh, Refresh
<1>2. AsksOnce(RefreshEffects(r), refresh.loading)
    BY <1>1, RequestAsksOnce
<1>3. CASE Settle \/ Heartbeat
    <2>1. Handle(RefreshEffects(r))
        BY <1>3 DEF Settle, Heartbeat
    <2> QED
        BY <1>1, <1>2, <2>1, AskingHandler
<1>4. CASE ActiveRefresh
    <2>1. Handle(RefreshEffects(r) \o HistoryBranchesEffects(b))
        BY <1>4 DEF ActiveRefresh
    <2>2. r \in RefreshPane /\ b \in BranchesPane
        BY <1>1, RequestRefreshType, RequestHistoryBranchesType DEF PanesType
    <2> HIDE DEF r, b
    <2>3. RefreshEffects(r) \in Seq(Command) /\ HistoryBranchesEffects(b) \in Seq(Command)
        BY <1>1, <2>2, RefreshSends, HistoryBranchesSends DEF Reads
    <2>4. AsksOnce(RefreshEffects(r) \o HistoryBranchesEffects(b), refresh.loading)
        BY <1>2, <2>3, RefreshesOfBoth, HistoryBranchesEffectsNone DEF AsksOnce
    <2> QED
        BY <1>1, <2>1, <2>4, AskingHandler DEF r
<1> QED
    BY <1>3, <1>4

LEMMA UserFresh ==
    ASSUME ReadsInv, StatusInv, User
    PROVE  StatusInv'
<1>1. CASE ActiveRefresh
    BY <1>1, RefreshingFresh
<1>2. CASE NearEnd
    BY <1>2, QuietHandler, HistoryEffectsNone DEF NearEnd, Press
<1>3. CASE OpenForm
    <2>1. RefreshesIn(<<>>) = {}
        BY DEF RefreshesIn
    <2> QED
        BY <1>3, <2>1, QuietHandler DEF OpenForm, Press
<1>4. CASE Close
    <2>1. UNCHANGED <<outbox, mailbox, executing, answers>>
        BY <1>4 DEF Close, lane
    <2>2. UNCHANGED <<outside, settling, status, refresh, busy>>
        BY <1>4 DEF Close
    <2>3. Answered' = Answered /\ (AtMostOne(Answered)' <=> AtMostOne(Answered))
        BY <2>1 DEF Answered, AtMostOne
    <2>4. AtMostOne(RefreshesIn(outbox))' <=> AtMostOne(RefreshesIn(outbox))
        BY <2>1 DEF RefreshesIn, AtMostOne
    <2>5. RefreshesHaveALane' <=> RefreshesHaveALane
        BY <2>1 DEF RefreshesHaveALane, Full
    <2>6. /\ RefreshSent' <=> RefreshSent
          /\ RefreshSlotted' <=> RefreshSlotted
          /\ RefreshRuns' <=> RefreshRuns
        BY <2>1 DEF RefreshSent, RefreshSlotted, RefreshRuns, Full
    <2>7. RefreshAnswered' <=> RefreshAnswered
        BY <2>3 DEF RefreshAnswered
    <2>8. OneRefresh'
        BY <2>2, <2>3, <2>4, <2>5, <2>6, <2>7 DEF StatusInv, OneRefresh
    <2>9. Fresh'
        BY <2>1, <2>2, <2>3 DEF StatusInv, Fresh, Unannounced, outside
    <2> QED
        BY <2>8, <2>9 DEF StatusInv
<1>5. ASSUME NEW changes \in BOOLEAN, QueueOperation(changes)
      PROVE  StatusInv'
    <2> DEFINE c == [kind |-> "Operate", generation |-> operation_id',
                     changes_history |-> changes]
    <2>1. Handle(<<c>>) /\ c.kind # "Refresh"
        BY <1>5 DEF QueueOperation
    <2> HIDE DEF c
    <2>2. RefreshesIn(<<c>>) = {}
        BY <2>1 DEF RefreshesIn
    <2> QED
        BY <1>5, <2>1, <2>2, QuietHandler DEF QueueOperation, Press
<1>6. ASSUME NEW picker \in {"HistoryBranches", "CompareBranches"}, OpenHistoryBranches(picker)
      PROVE  StatusInv'
    BY <1>6, QuietHandler, HistoryBranchesEffectsNone DEF OpenHistoryBranches, Press
<1>7. ASSUME NEW k \in DOMAIN PickerOf, OpenPicker(k)
      PROVE  StatusInv'
    <2> DEFINE c == [kind |-> k, generation |-> listing'[CounterOf[k]]]
    <2>1. Handle(<<c>>) /\ c.kind # "Refresh"
        BY <1>7, PickerKinds DEF OpenPicker
    <2> HIDE DEF c
    <2>2. RefreshesIn(<<c>>) = {}
        BY <2>1 DEF RefreshesIn
    <2> QED
        BY <1>7, <2>1, <2>2, QuietHandler DEF OpenPicker, Press
<1>8. ASSUME NEW b \in Topics \cup {"HEAD"}, SelectHistoryBranch(b)
      PROVE  StatusInv'
    BY <1>8, QuietHandler, HistoryEffectsNone DEF SelectHistoryBranch
<1> QED
    BY <1>1, <1>2, <1>3, <1>4, <1>5, <1>6, <1>7, <1>8 DEF User

LEMMA HearFresh ==
    ASSUME ReadsInv, StatusInv, Hear
    PROVE  StatusInv'
<1>1. RefreshesIn(<<>>) = {}
    BY DEF RefreshesIn
<1>2. CASE Ignore
    BY <1>1, <1>2, QuietHearing DEF Ignore, panes
<1>3. CASE HearHistory
    BY <1>3, QuietHearing, HistoryEffectsNone DEF HearHistory, Hears
<1>4. CASE HearWorktrees
    BY <1>1, <1>4, QuietHearing DEF HearWorktrees, Hears, panes
<1>5. CASE HearListing
    BY <1>1, <1>5, QuietHearing DEF HearListing, Hears
<1>6. CASE HearHistoryBranches
    BY <1>1, <1>6, QuietHearing DEF HearHistoryBranches, Hears
<1> QED
    BY <1>2, <1>3, <1>4, <1>5, <1>6, HearStatusFresh, HearOperationFresh DEF Hear

(* The steps that leave the lanes and the request for the status alone. *)
LEMMA OtherFresh ==
    ASSUME StatusInv, UNCHANGED <<lane, refresh>>, Fresh => Fresh'
    PROVE  StatusInv'
<1>1. UNCHANGED <<outbox, mailbox, executing, answers, refresh>>
    BY DEF lane
<1>2. UNCHANGED <<RefreshSent, RefreshSlotted, RefreshRuns, RefreshAnswered>>
    <2>1. UNCHANGED RefreshSent
        BY <1>1 DEF RefreshSent, RefreshesIn
    <2>2. UNCHANGED RefreshSlotted
        BY <1>1 DEF RefreshSlotted, Full
    <2>3. UNCHANGED <<RefreshRuns, RefreshAnswered>>
        BY <1>1 DEF RefreshRuns, RefreshAnswered, Answered
    <2> QED
        BY <2>1, <2>2, <2>3
<1>3. RefreshesHaveALane'
    BY <1>1 DEF StatusInv, OneRefresh, RefreshesHaveALane, Full
<1>4. AtMostOne(RefreshesIn(outbox))' /\ AtMostOne(Answered)'
    BY <1>1 DEF StatusInv, OneRefresh, RefreshesIn, Answered, AtMostOne
<1> QED
    BY <1>1, <1>2, <1>3, <1>4 DEF StatusInv, OneRefresh

LEMMA StatusInvKept ==
    ASSUME ReadsInv, OperationsInv, ComingInv, StatusInv, [Next]_vars
    PROVE  StatusInv'
<1>1. CASE OutsideChange
    <2>1. ~ Unannounced'
        BY <1>1, ReadsAssumption DEF OutsideChange, Unannounced
    <2> QED
        BY <1>1, <2>1, OtherFresh DEF OutsideChange, Fresh, panes
<1>2. CASE Notice
    BY <1>2, OtherFresh DEF Notice, panes, Fresh, Unannounced
<1>3. CASE Settle \/ Heartbeat
    BY <1>3, RefreshingFresh
<1>4. CASE User
    BY <1>4, UserFresh
<1>5. CASE Serve /\ UNCHANGED others
    <2>1. OneRefresh' /\ UNCHANGED answers
        BY <1>5, ServeOneRefresh DEF ReadsInv, ComingInv, StatusInv, others, panes
    <2>2. Fresh'
        BY <1>5, <2>1 DEF StatusInv, Fresh, Unannounced, Answered, others, outside, panes
    <2> QED
        BY <2>1, <2>2 DEF StatusInv
<1>6. CASE Thread
    BY <1>6, AnswerReadFresh, AnswerOperationFresh DEF Thread
<1>7. CASE Hear
    BY <1>7, HearFresh
<1>8. CASE UNCHANGED vars
    BY <1>8, OtherFresh DEF vars, others, outside, panes, lane, Fresh, Unannounced, Answered
<1> QED
    BY <1>1, <1>2, <1>3, <1>4, <1>5, <1>6, <1>7, <1>8 DEF Next

LEMMA StatusInitially == Init => StatusInv
<1> SUFFICES ASSUME Init PROVE StatusInv
    OBVIOUS
<1> DEFINE first == [kind |-> "Refresh", generation |-> 1]
           second == [kind |-> "LoadWorktrees", generation |-> 1]
           third == [kind |-> "LoadHistory", generation |-> 1, branch |-> "HEAD", skip |-> 0]
           fourth == [kind |-> "LoadHistoryBranches", generation |-> 1]
<1>1. InitLane(<<first, second, third, fourth>>) /\ refresh.loading
    BY DEF Init
<1>2. second.kind # "Refresh" /\ third.kind # "Refresh" /\ fourth.kind # "Refresh"
    OBVIOUS
<1> HIDE DEF first, second, third, fourth
<1>3. RefreshesIn(outbox) \subseteq {1}
    BY <1>1, <1>2 DEF InitLane, RefreshesIn
<1>4. /\ \A l \in Lanes : Full(mailbox[l]) = {}
      /\ \A l \in Lanes : executing[l] = NoCommand
      /\ Answered = {}
    BY <1>1 DEF InitLane, NewMailbox, Full, Answered
<1>5. /\ RefreshesHaveALane /\ AtMostOne(RefreshesIn(outbox)) /\ AtMostOne(Answered)
      /\ ~ RefreshSlotted /\ ~ RefreshRuns /\ ~ RefreshAnswered
    BY <1>3, <1>4 DEF RefreshesHaveALane, AtMostOne, RefreshSlotted, RefreshRuns, RefreshAnswered
<1> QED
    BY <1>1, <1>4, <1>5 DEF StatusInv, OneRefresh, Fresh

(* A change of the repository is displayed once nothing is under way: when the *)
(* watcher has nothing to report, no refresh is due, asked for or on its way,  *)
(* and no operation runs, then the status is the one the repository has now,   *)
(* unless the last read of it failed.  An answer that was read before the last *)
(* change cannot be the one that is displayed in the end.                      *)
THEOREM QuietStatusStaysFresh == Safe => []QuietStatusIsFresh
<1>1. ReadsInv /\ OperationsInv /\ ComingInv /\ StatusInv /\ [Next]_vars
      => (ReadsInv /\ OperationsInv /\ ComingInv /\ StatusInv)'
    BY OperationsInvKept, ComingInvKept, StatusInvKept
<1>2. ReadsInv /\ StatusInv => QuietStatusIsFresh
    BY DEF ReadsInv, Coalesced, StatusInv, Fresh, Unannounced, QuietStatusIsFresh
<1> QED
    BY <1>1, <1>2, ReadsInvInitially, OperationsInitially, ComingInitially, StatusInitially, PTL
    DEF Safe

-----------------------------------------------------------------------------
(***************************************************************************)
(* The pickers and the history of RepositoryReads, for any number of       *)
(* lanes, keys, changes and failures: a picker that shows that it is       *)
(* loading will be told, it shows no listing that was read before it was   *)
(* opened, and the commits on display are the selected branch's.           *)
(*                                                                         *)
(* What a handler sends is for what is on display when it is sent (Sound), *)
(* and the panes do not change before it is; so no command displaces the   *)
(* one a picker waits for.  The other two rest on the generations: nothing *)
(* that is on its way has a generation the interface did not yet give out. *)
(***************************************************************************)

(* The pickers that only show what they asked for; projects are remembered. *)
Fresh3 == {"LoadBranches", "LoadStashes", "LoadAccounts"}

(* What is sent is for the picker and the history on display. *)
Sound(e) ==
    /\ e.kind \in DOMAIN PickerOf =>
          modal.kind = PickerOf[e.kind] /\ e.generation = listing[CounterOf[e.kind]]
    /\ e.kind = "LoadHistoryBranches" => modal.kind \notin {"Branches", "Stashes", "Accounts"}
    /\ e.kind = "LoadWorktrees" => modal.kind # "Projects"
    /\ e.kind = "LoadHistory" =>
          e.generation = history.generation /\ e.branch = history.branch

SoundSent == \A e \in Elements(outbox) : Sound(e)

(* What becomes of a picker: it is told by the answer that is heard, it waits *)
(* as it did, or it has asked anew.                                           *)
PickerStays(k, hearing) ==
    /\ modal.kind = PickerOf[k] /\ modal'.opened = modal.opened
    /\ listing'[CounterOf[k]] = listing[CounterOf[k]]
    /\ \/ hearing /\ Ends(k) /\ ~ modal'.loading
          /\ modal'.items \in {modal.items, Head(answers).seen.tree}
       \/ ~ (hearing /\ Ends(k)) /\ modal'.items = modal.items

PickerAsks(k) ==
    /\ \E e \in Elements(outbox') : Is(e, k, listing'[CounterOf[k]])
    /\ k \in Fresh3 => /\ modal'.opened = repository.tree /\ modal'.items = 0
                       /\ listing'[CounterOf[k]] # listing[CounterOf[k]]

PickersGo(hearing) ==
    \A k \in DOMAIN PickerOf :
        modal'.kind = PickerOf[k] =>
            \/ PickerStays(k, hearing) /\ (modal'.loading => modal.loading)
            \/ PickerAsks(k)

(* What becomes of the pages: they go, they stay, they are marked as stale, or *)
(* the answer that is heard replaces or extends them.                          *)
PagesGo(hearing) ==
    \/ history'.pages = <<>>
    \/ history'.pages = history.pages /\ history'.stale = history.stale
       /\ history'.branch = history.branch
    \/ history'.stale
    \/ /\ hearing /\ Ends("LoadHistory") /\ history'.branch = history.branch
       /\ \E page \in Page :
             /\ page.of = Head(answers).command.branch
             /\ \/ history'.pages = <<page>>
                \/ history'.pages = Append(history.pages, page)
                   /\ history'.stale = history.stale

HistoryGoes(hearing) ==
    /\ history'.branch = history.branch \/ history'.generation # history.generation
    /\ PagesGo(hearing)

Handled(hearing) ==
    /\ IF hearing THEN answers # <<>> /\ HandleAnswer(outbox') ELSE Handle(outbox')
    /\ UNCHANGED outside
    /\ SoundSent' /\ PickersGo(hearing) /\ HistoryGoes(hearing)
-----------------------------------------------------------------------------
(* A generation moves, whatever it was. *)
LEMMA FollowingMoves ==
    ASSUME NEW k \in Kinds, NEW g \in Nat
    PROVE  Following(k, g) # g
<1>1. Following(k, g) \in 0 .. Generations[k] - 1
    BY FollowingType
<1> QED
    BY <1>1, FollowingDiffers

(* What the handlers send. *)

LEMMA RefreshEffectsAre ==
    ASSUME NEW r
    PROVE  /\ \A e \in Elements(RefreshEffects(r)) :
                 /\ e.kind \in {"Refresh", RefreshLists}
                 /\ e.kind = RefreshLists => e.generation = Listed(r)[CounterOf[RefreshLists]]
           /\ Sent(refresh, r) =>
                 \E e \in Elements(RefreshEffects(r)) :
                     Is(e, RefreshLists, Listed(r)[CounterOf[RefreshLists]])
<1>1. CASE ~ Sent(refresh, r)
    BY <1>1 DEF RefreshEffects, Elements
<1>2. CASE Sent(refresh, r)
    <2> DEFINE first == [kind |-> "Refresh", generation |-> r.generation]
               second == [kind |-> RefreshLists,
                          generation |-> Listed(r)[CounterOf[RefreshLists]]]
    <2>1. RefreshEffects(r) = <<first, second>>
        BY <1>2 DEF RefreshEffects
    <2>2. /\ second.kind = RefreshLists /\ first.kind = "Refresh"
          /\ second.generation = Listed(r)[CounterOf[RefreshLists]]
          /\ RefreshLists # "Refresh"
        BY DEF RefreshLists
    <2> HIDE DEF first, second
    <2>3. Elements(<<first, second>>) = {first, second}
        BY DEF Elements
    <2> QED
        BY <2>1, <2>2, <2>3 DEF Is
<1> QED
    BY <1>1, <1>2

LEMMA HistoryEffectsAre ==
    ASSUME NEW h, NEW skip, NEW e \in Elements(HistoryEffects(h, skip))
    PROVE  e.kind = "LoadHistory" /\ e.generation = h.generation /\ e.branch = h.branch
<1> DEFINE first == [kind |-> "LoadHistory", generation |-> h.generation,
                     branch |-> h.branch, skip |-> skip]
<1>1. HistoryEffects(h, skip) \in {<<>>, <<first>>}
    BY DEF HistoryEffects
<1>2. first.kind = "LoadHistory" /\ first.generation = h.generation /\ first.branch = h.branch
    OBVIOUS
<1> HIDE DEF first
<1>3. e = first
    BY <1>1 DEF Elements
<1> QED
    BY <1>2, <1>3

LEMMA HistoryBranchesEffectsAre ==
    ASSUME NEW b, NEW e \in Elements(HistoryBranchesEffects(b))
    PROVE  e.kind = "LoadHistoryBranches"
<1> DEFINE first == [kind |-> "LoadHistoryBranches", generation |-> b.generation]
<1>1. HistoryBranchesEffects(b) \in {<<>>, <<first>>} /\ first.kind = "LoadHistoryBranches"
    BY DEF HistoryBranchesEffects
<1> HIDE DEF first
<1>2. e = first
    BY <1>1 DEF Elements
<1> QED
    BY <1>1, <1>2

(* What a refresh sends is for the picker that is open, which it leaves open. *)
LEMMA RefreshEffectsSound ==
    ASSUME NEW r, Refresh(r), UNCHANGED modal, NEW e \in Elements(RefreshEffects(r))
    PROVE  Sound(e)'
<1>1. /\ e.kind \in {"Refresh", RefreshLists}
      /\ e.kind = RefreshLists => e.generation = Listed(r)[CounterOf[RefreshLists]]
    BY RefreshEffectsAre
<1>2. \/ RefreshLists = "LoadRecentProjects" /\ modal.kind = "Projects"
      \/ RefreshLists = "LoadWorktrees" /\ modal.kind # "Projects"
    BY DEF RefreshLists
<1>3. PickerOf["LoadRecentProjects"] = "Projects"
    BY DEF PickerOf
<1>4. listing' = Listed(r)
    BY DEF Refresh
<1>5. e.kind \in DOMAIN PickerOf => e.kind = RefreshLists /\ RefreshLists = "LoadRecentProjects"
    BY <1>1, <1>2, PickerKinds
<1> QED
    BY <1>1, <1>2, <1>3, <1>4, <1>5 DEF Sound

LEMMA HistoryEffectsSound ==
    ASSUME NEW h, history' = h, NEW skip, NEW e \in Elements(HistoryEffects(h, skip))
    PROVE  Sound(e)'
BY HistoryEffectsAre, PickerKinds DEF Sound

LEMMA HistoryBranchesEffectsSound ==
    ASSUME modal'.kind \notin {"Branches", "Stashes", "Accounts"},
           NEW b, NEW e \in Elements(HistoryBranchesEffects(b))
    PROVE  Sound(e)'
BY HistoryBranchesEffectsAre, PickerKinds DEF Sound

(* A handler that leaves the open picker alone, but may ask for a refresh: the *)
(* projects are then listed anew, and no other picker's counter moves.         *)
LEMMA PickersOfRefresh ==
    ASSUME ReadsInv, NEW r, Refresh(r), UNCHANGED modal, NEW hearing \in BOOLEAN,
           Elements(RefreshEffects(r)) \subseteq Elements(outbox'),
           hearing => \A k \in DOMAIN PickerOf : ~ Ends(k)
    PROVE  PickersGo(hearing)
<1> SUFFICES ASSUME NEW k \in DOMAIN PickerOf, modal'.kind = PickerOf[k]
             PROVE  \/ PickerStays(k, hearing) /\ (modal'.loading => modal.loading)
                    \/ PickerAsks(k)
    BY DEF PickersGo
<1>1. listing' = Listed(r) /\ listing \in [Counters -> Nat]
    BY DEF Refresh, ReadsInv, PanesType
<1>2. CASE listing'[CounterOf[k]] = listing[CounterOf[k]]
    BY <1>2 DEF PickerStays
<1>3. CASE listing'[CounterOf[k]] # listing[CounterOf[k]]
    <2>1. Sent(refresh, r) /\ listing' = List(RefreshLists)
        BY <1>1, <1>3 DEF Listed
    <2>2. CounterOf[RefreshLists] = CounterOf[k]
        BY <1>1, <1>3, <2>1 DEF List
    <2>3. k = "LoadRecentProjects" /\ RefreshLists = k
        BY <2>2, PickerKinds DEF RefreshLists, CounterOf
    <2>4. \E e \in Elements(outbox') : Is(e, k, listing'[CounterOf[k]])
        BY <1>1, <2>1, <2>3, RefreshEffectsAre
    <2> QED
        BY <2>3, <2>4 DEF PickerAsks, Fresh3
<1> QED
    BY <1>2, <1>3

LEMMA PickersUntouched ==
    ASSUME UNCHANGED <<modal, listing>>, NEW hearing \in BOOLEAN,
           hearing => \A k \in DOMAIN PickerOf : ~ Ends(k)
    PROVE  PickersGo(hearing)
BY DEF PickersGo, PickerStays

LEMMA PickersGone ==
    ASSUME modal'.kind \notin Pickers, NEW hearing
    PROVE  PickersGo(hearing)
BY PickerKinds DEF PickersGo, Pickers, PickerOf

LEMMA HistoryUntouched ==
    ASSUME UNCHANGED history, NEW hearing
    PROVE  HistoryGoes(hearing)
BY DEF HistoryGoes, PagesGo

(* A history that is asked for again keeps its branch and its pages. *)
LEMMA HistoryAsked ==
    ASSUME ReadsInv, NEW h, history' = h,
           h = history \/ \E reset \in BOOLEAN : h = RequestHistory(history, reset),
           NEW hearing
    PROVE  HistoryGoes(hearing)
<1>1. history \in HistoryPane
    BY DEF ReadsInv, PanesType
<1>2. h.branch = history.branch /\ h.pages = history.pages /\ h.stale = history.stale
    BY <1>1 DEF RequestHistory, HistoryPane
<1> QED
    BY <1>2 DEF HistoryGoes, PagesGo

LEMMA NothingElements == Elements(<<>>) = {}
BY DEF Elements
-----------------------------------------------------------------------------
(* The handlers. *)

LEMMA HandleSends ==
    ASSUME NEW effects, Handle(effects)
    PROVE  outbox' = effects /\ Handle(outbox')
BY DEF Handle

LEMMA HandleAnswerSends ==
    ASSUME NEW effects, HandleAnswer(effects)
    PROVE  outbox' = effects /\ HandleAnswer(outbox')
BY DEF HandleAnswer

LEMMA RefreshingHandled ==
    ASSUME ReadsInv, Settle \/ Heartbeat
    PROVE  Handled(FALSE)
<1> PICK r : Refresh(r) /\ Handle(RefreshEffects(r)) /\ UNCHANGED <<outside, modal, history>>
    BY DEF Settle, Heartbeat
<1>1. outbox' = RefreshEffects(r) /\ Handle(outbox')
    BY HandleSends
<1>2. SoundSent'
    BY <1>1, RefreshEffectsSound DEF SoundSent
<1>3. PickersGo(FALSE)
    BY <1>1, PickersOfRefresh
<1> QED
    BY <1>1, <1>2, <1>3, HistoryUntouched DEF Handled

LEMMA ActiveRefreshHandled ==
    ASSUME ReadsInv, ActiveRefresh
    PROVE  Handled(FALSE)
<1> DEFINE r == RequestRefresh(refresh)
           b == IF branches.loading THEN branches ELSE RequestHistoryBranches(branches)
<1>1. /\ Refresh(r) /\ Handle(RefreshEffects(r) \o HistoryBranchesEffects(b))
      /\ UNCHANGED <<outside, modal, history>> /\ modal.kind = "none"
    BY DEF ActiveRefresh, Press
<1>2. PanesType
    BY DEF ReadsInv
<1>3. r \in RefreshPane /\ b \in BranchesPane
    BY <1>2, RequestRefreshType, RequestHistoryBranchesType DEF PanesType
<1>4. RefreshEffects(r) \in Seq(Command) /\ HistoryBranchesEffects(b) \in Seq(Command)
    BY <1>2, <1>3, RefreshSends, HistoryBranchesSends DEF Reads
<1> HIDE DEF r, b
<1>5. /\ outbox' = RefreshEffects(r) \o HistoryBranchesEffects(b) /\ Handle(outbox')
      /\ Elements(outbox') = Elements(RefreshEffects(r)) \cup Elements(HistoryBranchesEffects(b))
    <2>1. outbox' = RefreshEffects(r) \o HistoryBranchesEffects(b) /\ Handle(outbox')
        BY <1>1, HandleSends
    <2>2. Elements(RefreshEffects(r) \o HistoryBranchesEffects(b))
              = Elements(RefreshEffects(r)) \cup Elements(HistoryBranchesEffects(b))
        BY <1>4, ConcatElements
    <2> QED
        BY <2>1, <2>2
<1>6. modal'.kind = "none"
    BY <1>1
<1>7. SoundSent'
    <2>1. \A e \in Elements(outbox') : Sound(e)'
        BY <1>1, <1>5, <1>6, RefreshEffectsSound, HistoryBranchesEffectsSound
    <2> QED
        BY <2>1 DEF SoundSent
<1>8. PickersGo(FALSE)
    BY <1>6, PickersGone DEF Pickers
<1> QED
    BY <1>1, <1>5, <1>7, <1>8, HistoryUntouched DEF Handled

LEMMA QueueOperationHandled ==
    ASSUME ReadsInv, NEW changes \in BOOLEAN, QueueOperation(changes)
    PROVE  Handled(FALSE)
<1> PICK g : g = operation_id'
    OBVIOUS
<1> DEFINE c == [kind |-> "Operate", generation |-> g, changes_history |-> changes]
<1>1. Handle(<<c>>) /\ c.kind = "Operate" /\ UNCHANGED <<outside, modal, listing, history>>
    BY DEF QueueOperation, Press
<1> HIDE DEF c
<1>2. outbox' = <<c>> /\ Handle(outbox')
    BY <1>1, HandleSends
<1>3. Sound(c)'
    BY <1>1, PickerKinds DEF Sound
<1>4. SoundSent'
    BY <1>2, <1>3 DEF SoundSent, Elements
<1> QED
    BY <1>1, <1>2, <1>4, PickersUntouched, HistoryUntouched DEF Handled

LEMMA NearEndHandled ==
    ASSUME ReadsInv, NearEnd
    PROVE  Handled(FALSE)
<1> PICK skip : skip = Len(history.pages)
    OBVIOUS
<1> PICK h : h = RequestHistory(history, FALSE)
    OBVIOUS
<1>1. /\ history' = h /\ Handle(HistoryEffects(h, skip))
      /\ UNCHANGED <<outside, modal, listing>>
    BY DEF NearEnd, Press
<1>2. outbox' = HistoryEffects(h, skip) /\ Handle(outbox')
    BY <1>1, HandleSends
<1>3. SoundSent'
    BY <1>1, <1>2, HistoryEffectsSound DEF SoundSent
<1> QED
    BY <1>1, <1>2, <1>3, PickersUntouched, HistoryAsked DEF Handled

LEMMA OpenHistoryBranchesHandled ==
    ASSUME ReadsInv, NEW picker \in {"HistoryBranches", "CompareBranches"},
           OpenHistoryBranches(picker)
    PROVE  Handled(FALSE)
<1> PICK b : Handle(HistoryBranchesEffects(b)) /\ UNCHANGED <<outside, history>>
    BY DEF OpenHistoryBranches, Press
<1>1. modal'.kind \in {"HistoryBranches", "CompareBranches"}
    BY DEF OpenHistoryBranches, Opened
<1>2. outbox' = HistoryBranchesEffects(b) /\ Handle(outbox')
    BY HandleSends
<1>3. SoundSent'
    BY <1>1, <1>2, HistoryBranchesEffectsSound DEF SoundSent
<1> QED
    BY <1>1, <1>2, <1>3, PickersGone, HistoryUntouched DEF Handled, Pickers

LEMMA OpenPickerHandled ==
    ASSUME ReadsInv, NEW k \in DOMAIN PickerOf, OpenPicker(k)
    PROVE  Handled(FALSE)
<1> PICK g : g = listing'[CounterOf[k]]
    OBVIOUS
<1> DEFINE c == [kind |-> k, generation |-> g]
<1>1. Handle(<<c>>) /\ c.kind = k /\ c.generation = g /\ UNCHANGED <<outside, history>>
    BY DEF OpenPicker, Press
<1> HIDE DEF c
<1>2. outbox' = <<c>> /\ Handle(outbox') /\ Elements(outbox') = {c}
    BY <1>1, HandleSends DEF Elements
<1>3. modal'.kind = PickerOf[k]
    BY DEF OpenPicker, Opened, PickerOf
<1>4. Sound(c)'
    BY <1>1, <1>3, PickerKinds DEF Sound
<1>5. SoundSent'
    BY <1>2, <1>4 DEF SoundSent
<1>6. PickerAsks(k)
    <2>1. Is(c, k, listing'[CounterOf[k]])
        BY <1>1 DEF Is
    <2>2. k \in Fresh3 => modal'.opened = repository.tree /\ modal'.items = 0
        BY DEF Fresh3, OpenPicker, Opened
    <2>3. listing'[CounterOf[k]] # listing[CounterOf[k]]
        <3>1. /\ CounterOf[k] \in Counters /\ k \in Kinds /\ listing \in [Counters -> Nat]
            BY PickerKinds, CounterKinds, ReadsAssumption DEF Counters, ReadsInv, PanesType
        <3>2. listing' = List(k)
            BY DEF OpenPicker
        <3>3. listing'[CounterOf[k]] = Following(k, listing[CounterOf[k]])
            BY <3>1, <3>2 DEF List
        <3> QED
            BY <3>1, <3>3, FollowingMoves
    <2> QED
        BY <1>2, <2>1, <2>2, <2>3 DEF PickerAsks
<1>7. PickersGo(FALSE)
    <2>1. \A j \in DOMAIN PickerOf : PickerOf[j] = PickerOf[k] => j = k
        BY PickerKinds DEF PickerOf
    <2> QED
        BY <1>3, <1>6, <2>1 DEF PickersGo
<1> QED
    BY <1>1, <1>2, <1>5, <1>7, HistoryUntouched DEF Handled

LEMMA OpenFormHandled ==
    ASSUME ReadsInv, OpenForm
    PROVE  Handled(FALSE)
<1>1. /\ Handle(<<>>) /\ UNCHANGED <<outside, history>> /\ modal'.kind = "Commit"
    BY DEF OpenForm, Press, Opened
<1>2. outbox' = <<>> /\ Handle(outbox')
    BY <1>1, HandleSends
<1>3. SoundSent'
    BY <1>2 DEF SoundSent, Elements
<1> QED
    BY <1>1, <1>2, <1>3, PickersGone, HistoryUntouched DEF Handled, Pickers

LEMMA SelectHistoryBranchHandled ==
    ASSUME ReadsInv, NEW b \in Topics \cup {"HEAD"}, SelectHistoryBranch(b)
    PROVE  Handled(FALSE)
<1> PICK h : h = Select(b)
    OBVIOUS
<1>1. /\ history' = h /\ Handle(HistoryEffects(h, 0)) /\ modal'.kind = "none"
      /\ UNCHANGED <<outside, listing>>
    BY DEF SelectHistoryBranch, NoModal
<1>2. outbox' = HistoryEffects(h, 0) /\ Handle(outbox')
    BY <1>1, HandleSends
<1>3. SoundSent'
    BY <1>1, <1>2, HistoryEffectsSound DEF SoundSent
<1>4. history'.pages = <<>> /\ history'.generation # history.generation
    <2>1. /\ history \in HistoryPane /\ "LoadHistory" \in Kinds
          /\ history.generation \in 0 .. Generations["LoadHistory"] - 1
        BY ReadsAssumption DEF ReadsInv, PanesType, HistoryPane
    <2>2. /\ h.pages = <<>>
          /\ h.generation = Following("LoadHistory", Following("LoadHistory", history.generation))
        BY <2>1 DEF Select, RequestHistory, HistoryPane
    <2> QED
        BY <1>1, <2>1, <2>2, FollowingTwiceDiffers
<1> QED
    BY <1>1, <1>2, <1>3, <1>4, PickersGone DEF Handled, Pickers, HistoryGoes, PagesGo
-----------------------------------------------------------------------------
(* The handlers of answers. *)

LEMMA NothingHeard ==
    ASSUME answers # <<>>, HandleAnswer(<<>>), UNCHANGED outside,
           PickersGo(TRUE), HistoryGoes(TRUE)
    PROVE  Handled(TRUE)
<1>1. outbox' = <<>> /\ HandleAnswer(outbox')
    BY HandleAnswerSends
<1>2. SoundSent'
    BY <1>1 DEF SoundSent, Elements
<1> QED
    BY <1>1, <1>2 DEF Handled

LEMMA IgnoreHandled ==
    ASSUME ReadsInv, Ignore
    PROVE  Handled(TRUE)
<1>1. /\ answers # <<>> /\ HandleAnswer(<<>>) /\ UNCHANGED <<outside, modal, listing, history>>
      /\ \A k : ~ Ends(k)
    BY DEF Ignore, Ends, panes
<1> QED
    BY <1>1, PickersUntouched, HistoryUntouched, NothingHeard

LEMMA HearWorktreesHandled ==
    ASSUME ReadsInv, HearWorktrees
    PROVE  Handled(TRUE)
<1>1. /\ answers # <<>> /\ HandleAnswer(<<>>) /\ UNCHANGED <<outside, modal, listing, history>>
      /\ \A k \in DOMAIN PickerOf : ~ Ends(k)
    BY PickerKinds DEF HearWorktrees, Hears, Ends, panes
<1> QED
    BY <1>1, PickersUntouched, HistoryUntouched, NothingHeard

LEMMA HearHistoryBranchesHandled ==
    ASSUME ReadsInv, HearHistoryBranches
    PROVE  Handled(TRUE)
<1>1. /\ answers # <<>> /\ HandleAnswer(<<>>) /\ UNCHANGED <<outside, listing, history>>
      /\ \A k \in DOMAIN PickerOf : ~ Ends(k)
    BY PickerKinds DEF HearHistoryBranches, Hears, Ends
<1>2. modal' = modal \/ modal'.kind \notin Pickers
    BY DEF HearHistoryBranches, Filled, NoModal, Pickers, ReadsInv, PanesType, Modal
<1>3. PickersGo(TRUE)
    BY <1>1, <1>2, PickersGone, PickersUntouched
<1> QED
    BY <1>1, <1>3, HistoryUntouched, NothingHeard

LEMMA HearListingHandled ==
    ASSUME ReadsInv, HearListing
    PROVE  Handled(TRUE)
<1> DEFINE a == Head(answers)
           heard == a.command.kind
           own == modal.kind = PickerOf[heard]
<1>1. /\ Hears(DOMAIN PickerOf) /\ HandleAnswer(<<>>) /\ UNCHANGED <<listing, history>>
      /\ modal' = CASE a.ok /\ own -> Filled(a.seen)
                    [] ~ a.ok /\ own /\ heard = "LoadAccounts" -> [modal EXCEPT !.loading = FALSE]
                    [] ~ a.ok /\ own /\ heard # "LoadAccounts" -> NoModal
                    [] ~ a.ok /\ ~ own /\ heard = "LoadBranches" -> NoModal
                    [] OTHER -> modal
    BY DEF HearListing
<1>2. /\ answers # <<>> /\ heard \in DOMAIN PickerOf /\ a.ok \in BOOLEAN
      /\ UNCHANGED outside /\ (\A k : Ends(k) <=> heard = k)
    BY <1>1, HeardType
<1>3. modal \in Modal
    BY DEF ReadsInv, PanesType
<1>4. ASSUME NEW k \in DOMAIN PickerOf, modal'.kind = PickerOf[k]
      PROVE  PickerStays(k, TRUE) /\ (modal'.loading => modal.loading)
    <2>1. PickerOf[k] # "none" /\ (PickerOf[k] = PickerOf[heard] => k = heard)
        BY <1>2, PickerKinds DEF PickerOf
    <2>2. modal' # NoModal
        BY <1>4, <2>1 DEF NoModal
    <2>3. \/ own /\ modal' = Filled(a.seen)
          \/ own /\ modal' = [modal EXCEPT !.loading = FALSE]
          \/ ~ own /\ modal' = modal
        BY <1>1, <1>2, <2>2
    <2> HIDE DEF own
    <2>4. CASE own
        <3>1. /\ modal'.kind = modal.kind /\ modal'.opened = modal.opened /\ ~ modal'.loading
              /\ modal'.items \in {modal.items, a.seen.tree}
            BY <1>3, <2>3, <2>4 DEF Filled, Modal
        <3>2. k = heard /\ modal.kind = PickerOf[k]
            BY <1>4, <2>1, <2>4, <3>1 DEF own
        <3> QED
            BY <1>1, <1>2, <3>1, <3>2 DEF PickerStays
    <2>5. CASE ~ own
        <3>1. modal' = modal /\ k # heard
            BY <1>4, <2>3, <2>5 DEF own
        <3> QED
            BY <1>1, <1>2, <1>4, <3>1 DEF PickerStays
    <2> QED
        BY <2>4, <2>5
<1>5. PickersGo(TRUE)
    BY <1>4 DEF PickersGo
<1> QED
    BY <1>1, <1>2, <1>5, HistoryUntouched, NothingHeard

LEMMA HearStatusHandled ==
    ASSUME ReadsInv, HearStatus
    PROVE  Handled(TRUE)
<1> DEFINE a == Head(answers)
<1> PICK h : h = IF a.ok THEN HistoryAfter(a.seen) ELSE history
    OBVIOUS
<1> PICK r : r = RefreshAfter(a.ok)
    OBVIOUS
<1>1. /\ Hears({"Refresh"}) /\ history' = h /\ Refresh(r) /\ UNCHANGED modal
      /\ HandleAnswer(HistoryEffects(h, 0) \o RefreshEffects(r))
    BY DEF HearStatus
<1>2. /\ answers # <<>> /\ a.ok \in BOOLEAN /\ UNCHANGED outside
      /\ \A k \in DOMAIN PickerOf : ~ Ends(k)
    BY <1>1, HeardType, PickerKinds
<1>3. h = history \/ \E reset \in BOOLEAN : h = RequestHistory(history, reset)
    BY DEF HistoryAfter
<1>4. HistoryEffects(h, 0) \in Seq(Command) /\ RefreshEffects(r) \in Seq(Command)
    <2>1. r \in RefreshPane /\ h \in HistoryPane /\ PanesType
        BY <1>2, <1>3, RefreshAfterAsks, HistoryAfterAsks DEF ReadsInv
    <2> QED
        BY <2>1, HistorySends, RefreshSends DEF Reads
<1>5. /\ outbox' = HistoryEffects(h, 0) \o RefreshEffects(r) /\ HandleAnswer(outbox')
      /\ Elements(outbox') = Elements(HistoryEffects(h, 0)) \cup Elements(RefreshEffects(r))
    <2>1. outbox' = HistoryEffects(h, 0) \o RefreshEffects(r) /\ HandleAnswer(outbox')
        BY <1>1, HandleAnswerSends
    <2>2. Elements(HistoryEffects(h, 0) \o RefreshEffects(r))
              = Elements(HistoryEffects(h, 0)) \cup Elements(RefreshEffects(r))
        BY <1>4, ConcatElements
    <2> QED
        BY <2>1, <2>2
<1>6. SoundSent'
    <2>1. \A e \in Elements(outbox') : Sound(e)'
        BY <1>1, <1>5, HistoryEffectsSound, RefreshEffectsSound
    <2> QED
        BY <2>1 DEF SoundSent
<1>7. PickersGo(TRUE)
    BY <1>1, <1>2, <1>5, PickersOfRefresh
<1>8. HistoryGoes(TRUE)
    BY <1>1, <1>3, HistoryAsked
<1> QED
    BY <1>2, <1>5, <1>6, <1>7, <1>8 DEF Handled

LEMMA HearOperationHandled ==
    ASSUME ReadsInv, HearOperation
    PROVE  Handled(TRUE)
<1> DEFINE a == Head(answers)
<1> PICK h : h = IF a.ok /\ a.command.changes_history
                 THEN RequestHistory(history, TRUE) ELSE history
    OBVIOUS
<1> PICK r : r = RequestRefresh(refresh)
    OBVIOUS
<1>1. /\ Hears({"Operate"}) /\ history' = h /\ Refresh(r) /\ UNCHANGED modal
      /\ HandleAnswer(RefreshEffects(r) \o HistoryEffects(h, 0))
    BY DEF HearOperation
<1>2. /\ answers # <<>> /\ UNCHANGED outside
      /\ \A k \in DOMAIN PickerOf : ~ Ends(k)
    BY <1>1, HeardType, PickerKinds
<1>3. h = history \/ \E reset \in BOOLEAN : h = RequestHistory(history, reset)
    OBVIOUS
<1>4. RefreshEffects(r) \in Seq(Command) /\ HistoryEffects(h, 0) \in Seq(Command)
    <2>1. r \in RefreshPane /\ h \in HistoryPane /\ PanesType
        BY <1>3, RequestRefreshType, HistoryAfterAsks DEF ReadsInv, PanesType
    <2> QED
        BY <2>1, HistorySends, RefreshSends DEF Reads
<1>5. /\ outbox' = RefreshEffects(r) \o HistoryEffects(h, 0) /\ HandleAnswer(outbox')
      /\ Elements(outbox') = Elements(RefreshEffects(r)) \cup Elements(HistoryEffects(h, 0))
    <2>1. outbox' = RefreshEffects(r) \o HistoryEffects(h, 0) /\ HandleAnswer(outbox')
        BY <1>1, HandleAnswerSends
    <2>2. Elements(RefreshEffects(r) \o HistoryEffects(h, 0))
              = Elements(RefreshEffects(r)) \cup Elements(HistoryEffects(h, 0))
        <3>1. PICK s \in Seq(Command), t \in Seq(Command) :
                 s = RefreshEffects(r) /\ t = HistoryEffects(h, 0)
            BY <1>4
        <3>2. Elements(s \o t) = Elements(s) \cup Elements(t)
            BY ConcatElements
        <3> QED
            BY <3>1, <3>2
    <2> QED
        BY <2>1, <2>2
<1>6. SoundSent'
    <2>1. \A e \in Elements(outbox') : Sound(e)'
        BY <1>1, <1>5, HistoryEffectsSound, RefreshEffectsSound
    <2> QED
        BY <2>1 DEF SoundSent
<1>7. PickersGo(TRUE)
    BY <1>1, <1>2, <1>5, PickersOfRefresh
<1>8. HistoryGoes(TRUE)
    BY <1>1, <1>3, HistoryAsked
<1> QED
    BY <1>2, <1>5, <1>6, <1>7, <1>8 DEF Handled

(* The pages after an answer that brought one. *)
LEMMA PagesHeard ==
    ASSUME NEW read \in HistoryPane, NEW a \in Event,
           a.command.kind = "LoadHistory", a.seen.head \in 1 .. MaxChanges
    PROVE  /\ WithPage(read, a).branch = read.branch
           /\ \/ /\ WithPage(read, a).pages = read.pages
                 /\ WithPage(read, a).stale = read.stale
              \/ \E page \in Page :
                    /\ page.of = a.command.branch
                    /\ \/ WithPage(read, a).pages = <<page>>
                       \/ /\ WithPage(read, a).pages = Append(read.pages, page)
                          /\ WithPage(read, a).stale = read.stale
<1>1. /\ read.pages \in Seq(Page) /\ read.stale \in BOOLEAN
      /\ a.command.branch \in Topics \cup {"HEAD"} /\ a.command.skip \in Nat
    BY KindsOfCommands DEF Event, HistoryPane
<1> PICK page : page = [of |-> a.command.branch, version |-> a.seen.head]
    OBVIOUS
<1>2. page \in Page /\ page.of = a.command.branch
    BY <1>1 DEF Page
<1> DEFINE pages == CASE a.command.skip = 0               -> <<page>>
                      [] a.command.skip = Len(read.pages) -> Append(read.pages, page)
                      [] OTHER                            -> read.pages
           stale == read.stale /\ a.command.skip # 0
<1>3. /\ WithPage(read, a).branch = read.branch
      /\ WithPage(read, a).pages = pages /\ WithPage(read, a).stale = stale
    BY DEF WithPage, HistoryPane
<1>4. CASE a.command.skip = 0
    <2>1. Len(read.pages) = 0 => Append(read.pages, page) = <<page>>
        <3>1. Len(read.pages) = 0 => read.pages = <<>>
            BY <1>1, EmptySeq
        <3>2. Append(<<>>, page) = <<page>>
            OBVIOUS
        <3> QED
            BY <3>1, <3>2
    <2>2. pages = <<page>>
        BY <1>4, <2>1
    <2> QED
        BY <1>2, <1>3, <2>2
<1>5. CASE a.command.skip # 0
    <2>1. /\ stale = read.stale
          /\ pages = Append(read.pages, page) \/ pages = read.pages
        BY <1>1, <1>5
    <2> HIDE DEF pages, stale
    <2> QED
        BY <1>2, <1>3, <2>1
<1> QED
    BY <1>4, <1>5

LEMMA HearHistoryHandled ==
    ASSUME ReadsInv, HearHistory
    PROVE  Handled(TRUE)
<1> PICK a : a = Head(answers)
    OBVIOUS
<1> PICK read : read = [history EXCEPT !.loading = FALSE]
    OBVIOUS
<1> PICK heard : heard = IF a.ok THEN WithPage(read, a) ELSE WithoutPage(read)
    OBVIOUS
<1> PICK h : h = IF heard.again THEN RequestHistory([heard EXCEPT !.again = FALSE], TRUE)
                 ELSE heard
    OBVIOUS
<1>1. /\ Hears({"LoadHistory"}) /\ history' = h /\ UNCHANGED <<modal, listing>>
      /\ HandleAnswer(HistoryEffects(h, 0))
    BY DEF HearHistory
<1>2. /\ answers # <<>> /\ a \in Event /\ a.command.kind = "LoadHistory"
      /\ a.seen.head \in 1 .. MaxChanges /\ UNCHANGED outside /\ Ends("LoadHistory")
      /\ \A k \in DOMAIN PickerOf : ~ Ends(k)
    BY <1>1, HeardType, PickerKinds
<1>3. /\ read \in HistoryPane /\ ~ read.loading /\ read.generation = history.generation
      /\ read.branch = history.branch /\ read.pages = history.pages
      /\ read.stale = history.stale
    BY DEF ReadsInv, PanesType, HistoryPane
<1>4. heard \in HistoryPane /\ (heard.loading <=> heard.generation # history.generation)
    BY <1>2, <1>3, HeardHistory
<1>5. /\ h.branch = heard.branch /\ h.pages = heard.pages /\ h.stale = heard.stale
      /\ heard.loading => h.generation = heard.generation
    BY <1>4 DEF RequestHistory, HistoryPane
<1>6. SoundSent' /\ HandleAnswer(outbox')
    <2>1. outbox' = HistoryEffects(h, 0) /\ HandleAnswer(outbox')
        BY <1>1, HandleAnswerSends
    <2> QED
        BY <1>1, <2>1, HistoryEffectsSound DEF SoundSent
<1>7. HistoryGoes(TRUE)
    <2>1. CASE a.ok
        <3>1. /\ heard = WithPage(read, a) /\ heard.branch = history.branch
            BY <1>2, <1>3, <2>1, PagesHeard
        <3>2. \/ heard.pages = history.pages /\ heard.stale = history.stale
              \/ \E page \in Page :
                    /\ page.of = a.command.branch
                    /\ \/ heard.pages = <<page>>
                       \/ heard.pages = Append(history.pages, page)
                          /\ heard.stale = history.stale
            <4>1. \/ /\ WithPage(read, a).pages = read.pages
                     /\ WithPage(read, a).stale = read.stale
                  \/ \E page \in Page :
                        /\ page.of = a.command.branch
                        /\ \/ WithPage(read, a).pages = <<page>>
                           \/ /\ WithPage(read, a).pages = Append(read.pages, page)
                              /\ WithPage(read, a).stale = read.stale
                BY <1>2, <1>3, PagesHeard
            <4> QED
                BY <1>3, <3>1, <4>1
        <3> QED
            BY <1>1, <1>2, <1>5, <3>1, <3>2 DEF HistoryGoes, PagesGo
    <2>2. CASE ~ a.ok
        <3>1. heard.stale /\ (heard.branch = history.branch \/ heard.loading)
            BY <1>3, <2>2 DEF WithoutPage, RequestHistory, HistoryPane
        <3> QED
            BY <1>1, <1>4, <1>5, <3>1 DEF HistoryGoes, PagesGo
    <2> QED
        BY <2>1, <2>2
<1> QED
    BY <1>1, <1>2, <1>6, <1>7, PickersUntouched DEF Handled
-----------------------------------------------------------------------------
(* The steps, as the panes see them: what is no handler leaves them alone,     *)
(* but for the picker that is closed.                                          *)
Standing ==
    /\ UNCHANGED <<lane, history, listing>>
    /\ modal' = modal \/ (outbox = <<>> /\ modal' = NoModal)
    /\ repository'.tree >= repository.tree

Threading ==
    /\ \E l \in Lanes, event \in Event :
          /\ executing[l] # NoCommand /\ event.command = executing[l]
          /\ Answer(l, event) /\ event.seen = repository'
    /\ UNCHANGED <<history, listing, modal>>
    /\ repository'.tree >= repository.tree

Serving == Serve /\ UNCHANGED <<history, listing, modal, outside>>

LEMMA AnswersOfThreads ==
    ASSUME ReadsInv, ReadsInv', Thread
    PROVE  Threading
<1>1. /\ repository \in Version /\ repository' \in Version
      /\ executing \in [Lanes -> Command \cup {NoCommand}]
    BY DEF ReadsInv, OutsideType, LaneType, LaneTypeOK
<1>2. ASSUME NEW l \in Lanes, AnswerRead(l)
      PROVE  Threading
    <2>1. PICK ok \in Outcomes(executing[l]) :
             /\ Answer(l, [command |-> executing[l], ok |-> ok, seen |-> repository])
             /\ Finish(ok)
        BY <1>2 DEF AnswerRead
    <2> PICK event : event = [command |-> executing[l], ok |-> ok, seen |-> repository]
        OBVIOUS
    <2>2. executing[l] # NoCommand /\ executing[l] \in Command /\ ok \in BOOLEAN
        BY <1>1, <1>2 DEF AnswerRead, Outcomes
    <2>3. event \in Event
        BY <1>1, <2>2 DEF Event
    <2>4. UNCHANGED <<history, listing, modal, repository>>
        BY <1>2, <2>1 DEF AnswerRead, Finish, panes, outside
    <2>5. Answer(l, event) /\ event.command = executing[l] /\ event.seen = repository'
        BY <2>1, <2>4
    <2> QED
        BY <1>1, <2>2, <2>3, <2>4, <2>5 DEF Threading, Version
<1>3. ASSUME NEW l \in Lanes, AnswerOperation(l)
      PROVE  Threading
    <2>1. PICK ok \in Outcomes(executing[l]) :
             /\ Answer(l, [command |-> executing[l], ok |-> ok, seen |-> repository'])
             /\ Finish(ok)
        BY <1>3 DEF AnswerOperation
    <2> PICK event : event = [command |-> executing[l], ok |-> ok, seen |-> repository']
        OBVIOUS
    <2>2. executing[l] # NoCommand /\ executing[l] \in Command /\ ok \in BOOLEAN
        BY <1>1, <1>3 DEF AnswerOperation, Outcomes
    <2>3. event \in Event
        BY <1>1, <2>2 DEF Event
    <2>4. UNCHANGED <<history, listing, modal>>
        BY <2>1 DEF Finish, panes
    <2>5. repository'.tree >= repository.tree
        BY <1>1, <1>3 DEF AnswerOperation, Version
    <2>6. Answer(l, event) /\ event.command = executing[l] /\ event.seen = repository'
        BY <2>1
    <2> QED
        BY <2>2, <2>3, <2>4, <2>5, <2>6 DEF Threading
<1> QED
    BY <1>2, <1>3 DEF Thread

LEMMA PanesStepsAre ==
    ASSUME ReadsInv, [Next]_vars
    PROVE  Standing \/ Threading \/ Serving \/ \E hearing \in BOOLEAN : Handled(hearing)
<1>1. ReadsInv'
    BY StepsAre
<1>2. repository \in Version /\ repository' \in Version
    BY <1>1 DEF ReadsInv, OutsideType
<1>3. CASE OutsideChange
    <2>1. repository'.tree >= repository.tree
        BY <1>2, <1>3 DEF OutsideChange, Version
    <2> QED
        BY <1>3, <2>1 DEF OutsideChange, Standing, panes
<1>4. CASE Notice
    BY <1>2, <1>4 DEF Notice, Standing, panes, Version
<1>5. CASE Settle \/ Heartbeat
    BY <1>5, RefreshingHandled
<1>6. CASE User
    <2>1. CASE Close
        BY <1>2, <2>1 DEF Close, Free, Standing, Version, outside
    <2> QED
        BY <1>6, <2>1, ActiveRefreshHandled, NearEndHandled, OpenFormHandled, QueueOperationHandled,
           OpenHistoryBranchesHandled, OpenPickerHandled, SelectHistoryBranchHandled DEF User
<1>7. CASE Serve /\ UNCHANGED others
    BY <1>7 DEF Serving, others, panes
<1>8. CASE Thread
    BY <1>1, <1>8, AnswersOfThreads
<1>9. CASE Hear
    BY <1>9, IgnoreHandled, HearStatusHandled, HearHistoryHandled, HearOperationHandled,
       HearWorktreesHandled, HearListingHandled, HearHistoryBranchesHandled DEF Hear
<1>10. CASE UNCHANGED vars
    BY <1>2, <1>10 DEF vars, others, panes, outside, Standing, Version
<1> QED
    BY <1>3, <1>4, <1>5, <1>6, <1>7, <1>8, <1>9, <1>10 DEF Next
-----------------------------------------------------------------------------
(* A picker that is loading waits for an answer that comes. *)

PickersCome ==
    \A k \in DOMAIN PickerOf :
        modal.kind = PickerOf[k] /\ modal.loading => Coming(k, listing[CounterOf[k]])

PanesInv == SoundSent /\ PickersCome

LEMMA PickersComeFrom ==
    ASSUME \A k \in DOMAIN PickerOf : \A g :
              modal'.kind = PickerOf[k] /\ modal'.loading /\ g = listing'[CounterOf[k]]
              => Coming(k, g)'
    PROVE  PickersCome'
BY DEF PickersCome, Coming, Out, Slotted, Running, Heard, Full, Is

LEMMA StandingPanes ==
    ASSUME PanesInv, Standing
    PROVE  PanesInv'
<1>1. SoundSent'
    BY DEF PanesInv, SoundSent, Sound, Standing, Elements, lane
<1>2. PickersCome'
    <2>1. NoModal.loading = FALSE
        BY DEF NoModal
    <2> QED
        BY <2>1 DEF PanesInv, PickersCome, Standing, Coming, Out, Slotted, Running, Heard, Full, lane
<1> QED
    BY <1>1, <1>2 DEF PanesInv

LEMMA ThreadingPanes ==
    ASSUME LaneType, PanesInv, Threading
    PROVE  PanesInv'
<1> PICK l \in Lanes, event \in Event :
          /\ executing[l] # NoCommand /\ event.command = executing[l] /\ Answer(l, event)
    BY DEF Threading
<1>1. UNCHANGED <<history, listing, modal, outbox>>
    BY DEF Threading, Answer
<1>2. SoundSent'
    BY <1>1 DEF PanesInv, SoundSent, Sound, Elements
<1>3. PickersCome'
    <2> SUFFICES ASSUME NEW CONSTANT k \in DOMAIN PickerOf, NEW CONSTANT g,
                        modal'.kind = PickerOf[k], modal'.loading, g = listing'[CounterOf[k]]
                 PROVE  Coming(k, g)'
        BY PickersComeFrom
    <2>1. Coming(k, g)
        BY <1>1 DEF PanesInv, PickersCome
    <2> QED
        BY <2>1, AnswerKeepsComing
<1> QED
    BY <1>2, <1>3 DEF PanesInv

LEMMA ServingPanes ==
    ASSUME ReadsInv, InTheirSlots, PanesInv, Serving
    PROVE  PanesInv'
<1>1. UNCHANGED <<history, listing, modal>> /\ outbox \in Seq(Command)
    BY DEF Serving, ReadsInv, LaneType, LaneTypeOK
<1>2. SoundSent'
    <2>1. Elements(outbox)' \subseteq Elements(outbox)
        <3>1. outbox' = outbox \/ (outbox # <<>> /\ outbox' = Tail(outbox))
            BY DEF Serving, Serve, Dispatch, BeginOperation, BeginRead
        <3> QED
            BY <1>1, <3>1, TailElements DEF Elements
    <2> QED
        BY <1>1, <2>1 DEF PanesInv, SoundSent, Sound
<1>3. PickersCome'
    <2> SUFFICES ASSUME NEW CONSTANT k \in DOMAIN PickerOf, NEW CONSTANT g,
                        modal'.kind = PickerOf[k], modal'.loading, g = listing'[CounterOf[k]]
                 PROVE  Coming(k, g)'
        BY PickersComeFrom
    <2>1. Coming(k, g) /\ modal.kind = PickerOf[k] /\ g = listing[CounterOf[k]]
        BY <1>1 DEF PanesInv, PickersCome
    <2>2. k \in Kinds \ Operations
        BY ReadsAssumption
    <2>3. ASSUME NEW c \in Command, Sound(c), ~ IsOperation(c), SlotOf[c.kind] = SlotOf[k]
          PROVE  Is(c, k, g)
        <3>1. c.kind \in Kinds \ Operations
            BY <2>3, KindsOfCommands DEF IsOperation
        <3>2. c.kind \notin {"Refresh", "LoadHistory"}
            BY <2>2, <2>3, PickerKinds, TablesAssumption
        <3>3. c.kind \in {"LoadHistoryBranches", "LoadWorktrees"} \cup DOMAIN PickerOf
            BY <2>3, <3>2, ReadsAssumption DEF Command, IsOperation
        <3>4. CASE c.kind \in DOMAIN PickerOf
            <4>1. c.kind = k
                BY <2>1, <2>3, <3>4, PickerKinds DEF Sound, PickerOf
            <4> QED
                BY <2>1, <2>3, <3>4, <4>1 DEF Sound, Is
        <3>5. CASE c.kind = "LoadHistoryBranches"
            <4>1. k = "LoadRecentProjects"
                BY <2>1, <2>3, <3>5, PickerKinds DEF Sound, PickerOf
            <4> QED
                BY <2>3, <3>5, <4>1, TablesAssumption
        <3>6. CASE c.kind = "LoadWorktrees"
            <4>1. k \in {"LoadBranches", "LoadStashes", "LoadAccounts"}
                BY <2>1, <2>3, <3>6, PickerKinds DEF Sound, PickerOf
            <4> QED
                BY <2>3, <3>6, <4>1, TablesAssumption
        <3> QED
            BY <3>3, <3>4, <3>5, <3>6
    <2>4. \A i \in DOMAIN outbox : outbox[i] \in Command /\ Sound(outbox[i])
        BY <1>1 DEF PanesInv, SoundSent, Elements
    <2>5. \A i \in DOMAIN outbox :
             IsOperation(outbox[i]) \/ SlotOf[outbox[i].kind] # SlotOf[k] \/ Is(outbox[i], k, g)
        BY <2>3, <2>4
    <2> QED
        BY <2>1, <2>2, <2>5, ServeKeepsComing DEF Serving
<1> QED
    BY <1>2, <1>3 DEF PanesInv

LEMMA HandledPanes ==
    ASSUME LaneType, PanesInv, NEW hearing \in BOOLEAN, Handled(hearing)
    PROVE  PanesInv'
<1>1. PickersGo(hearing) /\ SoundSent'
    BY DEF Handled
<1>2. PickersCome'
    <2> SUFFICES ASSUME NEW CONSTANT k \in DOMAIN PickerOf, NEW CONSTANT g,
                        modal'.kind = PickerOf[k], modal'.loading, g = listing'[CounterOf[k]]
                 PROVE  Coming(k, g)'
        BY PickersComeFrom
    <2>1. CASE PickerAsks(k)
        <3>1. \E i \in DOMAIN outbox' : outbox'[i].kind = k /\ outbox'[i].generation = g
            BY <2>1 DEF PickerAsks, Elements, Is
        <3> QED
            BY <3>1 DEF Coming, Out, Is
    <2>2. CASE PickerStays(k, hearing) /\ modal.loading
        <3>1. /\ modal.kind = PickerOf[k] /\ g = listing[CounterOf[k]]
              /\ ~ (hearing /\ Ends(k))
            BY <2>2 DEF PickerStays
        <3>2. Coming(k, g)
            BY <2>2, <3>1 DEF PanesInv, PickersCome
        <3>3. CASE ~ hearing
            BY <3>2, <3>3, HandleKeepsComing DEF Handled, Handle, Free
        <3>4. CASE hearing
            <4>1. GenerationOf(k) = g
                BY <3>1, PickerKinds DEF GenerationOf
            <4>2. ~ Is(Head(answers).command, k, g)
                BY <3>1, <3>4, <4>1 DEF Ends, Current, Is
            <4> QED
                BY <3>2, <3>4, <4>2, HearKeepsComing DEF Handled
        <3> QED
            BY <3>3, <3>4
    <2> QED
        BY <1>1, <2>1, <2>2 DEF PickersGo
<1> QED
    BY <1>1, <1>2 DEF PanesInv

LEMMA PanesInvKept ==
    ASSUME ReadsInv, ComingInv, PanesInv, [Next]_vars
    PROVE  PanesInv'
BY PanesStepsAre, StandingPanes, ThreadingPanes, ServingPanes, HandledPanes
DEF ReadsInv, ComingInv

LEMMA PanesInitially == Init => PanesInv
<1> SUFFICES ASSUME Init PROVE PanesInv
    OBVIOUS
<1> DEFINE first == [kind |-> "Refresh", generation |-> 1]
           second == [kind |-> "LoadWorktrees", generation |-> 1]
           third == [kind |-> "LoadHistory", generation |-> 1, branch |-> "HEAD", skip |-> 0]
           fourth == [kind |-> "LoadHistoryBranches", generation |-> 1]
<1>1. /\ outbox = <<first, second, third, fourth>> /\ modal = NoModal
      /\ history.generation = 1 /\ history.branch = "HEAD"
    BY DEF Init, InitLane
<1>2. Sound(first) /\ Sound(second) /\ Sound(third) /\ Sound(fourth)
    BY <1>1, PickerKinds DEF Sound, NoModal
<1> HIDE DEF first, second, third, fourth
<1>3. SoundSent
    BY <1>1, <1>2 DEF SoundSent, Elements
<1>4. PickersCome
    BY <1>1 DEF PickersCome, NoModal
<1> QED
    BY <1>3, <1>4 DEF PanesInv

LEMMA PickersAreOwed ==
    ASSUME PanesInv
    PROVE  LoadingPickersAreOwed
<1> SUFFICES ASSUME NEW k \in DOMAIN PickerOf, modal.kind = PickerOf[k], modal.loading
             PROVE  Owed(k)
    BY DEF LoadingPickersAreOwed
<1>1. GenerationOf(k) = listing[CounterOf[k]]
    BY PickerKinds DEF GenerationOf
<1>2. Coming(k, listing[CounterOf[k]])
    BY DEF PanesInv, PickersCome
<1>3. PICK c \in OnItsWay : Is(c, k, listing[CounterOf[k]])
    BY <1>2, ComingIsOnItsWay
<1> QED
    BY <1>1, <1>3 DEF Owed, Is

(* A picker that shows that it is loading will be told: the listing it opened  *)
(* with is sent, waits, runs or has run under the generation its answer needs, *)
(* although it shares its slot with others and its counter with one of them.   *)
THEOREM LoadingPickersStayOwed == Safe => []LoadingPickersAreOwed
<1>1. ReadsInv /\ ComingInv /\ PanesInv /\ [Next]_vars => (ReadsInv /\ ComingInv /\ PanesInv)'
    BY StepsAre, ComingInvKept, PanesInvKept
<1>2. PanesInv => LoadingPickersAreOwed
    BY PickersAreOwed
<1> QED
    BY <1>1, <1>2, ReadsInvInitially, ComingInitially, PanesInitially, PTL DEF Safe
-----------------------------------------------------------------------------
(* What the generations tell apart, as long as they do not wrap. *)

LEMMA CommandsOnTheWay ==
    ASSUME LaneType, NEW c \in OnItsWay
    PROVE  c \in Command
<1>1. /\ outbox \in Seq(Command) /\ mailbox \in [Lanes -> MailboxOf(Command)]
      /\ executing \in [Lanes -> Command \cup {NoCommand}] /\ answers \in Seq(Event)
    BY DEF LaneType, LaneTypeOK
<1>2. ASSUME NEW l \in Lanes
      PROVE  /\ \A i \in DOMAIN mailbox[l].operations : mailbox[l].operations[i] \in Command
             /\ \A s \in Full(mailbox[l]) : mailbox[l].slots[s] \in Command
             /\ executing[l] \in Command \cup {NoCommand}
    BY <1>1 DEF MailboxOf, Full
<1>3. ASSUME NEW i \in DOMAIN answers PROVE answers[i].command \in Command
    <2>1. answers[i] \in Event
        BY <1>1
    <2> QED
        BY <2>1 DEF Event
<1> QED
    BY <1>1, <1>2, <1>3, PlacesOfCommands

LEMMA TableIsTabled == Tabled(Command)
BY KindsOfCommands, TablesAssumption, ReadsAssumption DEF Tabled, IsOperation

(* The commands on their way are those that were, and what a handler sends. *)
LEMMA OnlySentComes ==
    ASSUME ReadsInv, [Next]_vars
    PROVE  \/ OnItsWay' \subseteq OnItsWay
           \/ /\ \E hearing \in BOOLEAN : Handled(hearing)
              /\ OnItsWay' \subseteq OnItsWay \cup Elements(outbox')
<1>1. LaneTypeOK(Command, Event) /\ LaneTypeOK(Command, Event)'
    BY StepsAre DEF ReadsInv, LaneType
<1>2. CASE Standing
    BY <1>2 DEF Standing, OnItsWay, lane
<1>3. CASE Threading
    BY <1>1, <1>3, AnswerOnItsWay DEF Threading
<1>4. CASE Serving
    BY <1>1, <1>4, ServeOnItsWay, TableIsTabled DEF Serving
<1>5. ASSUME NEW hearing \in BOOLEAN, Handled(hearing)
      PROVE  OnItsWay' \subseteq OnItsWay \cup Elements(outbox')
    <2> PICK effects : effects = outbox'
        OBVIOUS
    <2>1. effects \in Seq(Command)
        BY <1>1 DEF LaneTypeOK
    <2> QED
        BY <1>1, <1>5, <2>1, HandleOnItsWay, HandleAnswerOnItsWay DEF Handled
<1> QED
    BY <1>2, <1>3, <1>4, <1>5, PanesStepsAre

(* The histories that are on their way are of generations that were given out, *)
(* and those of the newest one are of the selected branch.                     *)
HistoriesAreOld ==
    \A c \in OnItsWay :
        c.kind = "LoadHistory" =>
            /\ c.generation <= history.generation
            /\ c.generation = history.generation => c.branch = history.branch

HistoryInv == HistoriesAreOld /\ HistoryShowsTheSelectedBranch

HistoryDoesNotWrap == history'.generation >= history.generation

LEMMA HistoryInvKept ==
    ASSUME ReadsInv, HistoryInv, [Next]_vars, [HistoryDoesNotWrap]_vars
    PROVE  HistoryInv'
<1>1. /\ history \in HistoryPane /\ history' \in HistoryPane
      /\ history.generation \in Nat /\ history'.generation \in Nat
    BY StepsAre, ReadsAssumption DEF ReadsInv, PanesType, HistoryPane
<1>2. history'.generation >= history.generation
    BY <1>1 DEF HistoryDoesNotWrap, vars, others, panes
<1>3. CASE UNCHANGED history
    <2>1. HistoriesAreOld'
        <3>1. CASE OnItsWay' \subseteq OnItsWay
            BY <1>3, <3>1 DEF HistoryInv, HistoriesAreOld
        <3>2. CASE /\ \E hearing \in BOOLEAN : Handled(hearing)
                   /\ OnItsWay' \subseteq OnItsWay \cup Elements(outbox')
            <4>1. \A e \in Elements(outbox') : e.kind = "LoadHistory" =>
                      e.generation = history'.generation /\ e.branch = history'.branch
                BY <3>2 DEF Handled, SoundSent, Sound
            <4> QED
                BY <1>1, <1>3, <3>2, <4>1 DEF HistoryInv, HistoriesAreOld
        <3> QED
            BY <3>1, <3>2, OnlySentComes
    <2>2. HistoryShowsTheSelectedBranch'
        BY <1>3 DEF HistoryInv, HistoryShowsTheSelectedBranch
    <2> QED
        BY <2>1, <2>2 DEF HistoryInv
<1>4. ASSUME NEW hearing \in BOOLEAN, Handled(hearing)
      PROVE  HistoryInv'
    <2>1. HistoryGoes(hearing) /\ SoundSent'
        BY <1>4 DEF Handled
    <2>2. OnItsWay' \subseteq OnItsWay \cup Elements(outbox')
        BY OnlySentComes
    <2>3. ASSUME NEW c \in OnItsWay', c.kind = "LoadHistory"
          PROVE  /\ c.generation <= history'.generation
                 /\ c.generation = history'.generation => c.branch = history'.branch
        <3>1. CASE c \in Elements(outbox')
            <4>1. c.generation = history'.generation /\ c.branch = history'.branch
                BY <2>1, <2>3, <3>1 DEF SoundSent, Sound
            <4> QED
                BY <1>1, <4>1
        <3>2. CASE c \in OnItsWay
            <4>1. c.generation \in Nat
                BY <3>2, CommandsOnTheWay, KindsOfCommands DEF ReadsInv
            <4>2. /\ c.generation <= history.generation
                  /\ c.generation = history.generation => c.branch = history.branch
                BY <2>3, <3>2 DEF HistoryInv, HistoriesAreOld
            <4>3. c.generation <= history'.generation
                BY <1>1, <1>2, <4>1, <4>2
            <4>4. c.generation = history'.generation => history'.generation = history.generation
                BY <1>1, <1>2, <4>1, <4>2
            <4> QED
                BY <2>1, <4>2, <4>3, <4>4 DEF HistoryGoes
        <3> QED
            BY <2>2, <2>3, <3>1, <3>2
    <2>4. HistoriesAreOld'
        BY <2>3 DEF HistoriesAreOld
    <2>5. HistoryShowsTheSelectedBranch'
        <3> SUFFICES ASSUME NEW i \in DOMAIN history'.pages
                     PROVE  history'.pages[i].of = history'.branch \/ history'.stale
            BY DEF HistoryShowsTheSelectedBranch
        <3>1. \A j \in DOMAIN history.pages : history.pages[j].of = history.branch \/ history.stale
            BY DEF HistoryInv, HistoryShowsTheSelectedBranch
        <3>2. CASE history'.pages = <<>>
            BY <3>2
        <3>3. CASE /\ history'.pages = history.pages /\ history'.stale = history.stale
                   /\ history'.branch = history.branch
            BY <3>1, <3>3
        <3>4. CASE history'.stale
            BY <3>4
        <3>5. CASE /\ hearing /\ Ends("LoadHistory") /\ history'.branch = history.branch
                   /\ \E page \in Page :
                         /\ page.of = Head(answers).command.branch
                         /\ \/ history'.pages = <<page>>
                            \/ history'.pages = Append(history.pages, page)
                               /\ history'.stale = history.stale
            <4>1. answers # <<>> /\ answers \in Seq(Event)
                BY <1>4, <3>5 DEF Handled, ReadsInv, LaneType, LaneTypeOK
            <4>2. Head(answers).command \in OnItsWay
                BY <4>1, TailElements, PlacesOnTheWay DEF Elements
            <4>3. Head(answers).command.branch = history.branch
                BY <3>5, <4>2 DEF Ends, Current, GenerationOf, HistoryInv, HistoriesAreOld
            <4> PICK page \in Page :
                   /\ page.of = history'.branch
                   /\ \/ history'.pages = <<page>>
                      \/ history'.pages = Append(history.pages, page)
                         /\ history'.stale = history.stale
                BY <3>5, <4>3
            <4>4. CASE history'.pages = <<page>>
                BY <4>4
            <4>5. CASE history'.pages = Append(history.pages, page) /\ history'.stale = history.stale
                <5>1. history.pages \in Seq(Page)
                    BY <1>1 DEF HistoryPane
                <5>2. history'.pages[i] \in Elements(history'.pages)
                    BY DEF Elements
                <5>3. history'.pages[i] \in Elements(history.pages) \cup {page}
                    BY <4>5, <5>1, <5>2, AppendElements
                <5> QED
                    BY <3>1, <3>5, <4>5, <5>3 DEF Elements
            <4> QED
                BY <4>4, <4>5
        <3> QED
            BY <2>1, <3>2, <3>3, <3>4, <3>5 DEF HistoryGoes, PagesGo
    <2> QED
        BY <2>4, <2>5 DEF HistoryInv
<1>5. Standing \/ Threading \/ Serving => UNCHANGED history
    BY DEF Standing, Threading, Serving
<1> QED
    BY <1>3, <1>4, <1>5, PanesStepsAre

LEMMA InitiallyOnTheWay ==
    ASSUME Init
    PROVE  /\ answers = <<>> /\ modal = NoModal
           /\ \A c \in OnItsWay :
                 /\ c.kind \notin Fresh3
                 /\ c.kind = "LoadHistory" => c.generation = history.generation
                                              /\ c.branch = history.branch
<1> DEFINE first == [kind |-> "Refresh", generation |-> 1]
           second == [kind |-> "LoadWorktrees", generation |-> 1]
           third == [kind |-> "LoadHistory", generation |-> 1, branch |-> "HEAD", skip |-> 0]
           fourth == [kind |-> "LoadHistoryBranches", generation |-> 1]
<1>1. /\ outbox = <<first, second, third, fourth>> /\ modal = NoModal
      /\ history.generation = 1 /\ history.branch = "HEAD" /\ answers = <<>>
      /\ mailbox = [l \in Lanes |-> NewMailbox] /\ executing = [l \in Lanes |-> NoCommand]
    BY DEF Init, InitLane
<1>2. /\ first.kind = "Refresh" /\ second.kind = "LoadWorktrees" /\ third.kind = "LoadHistory"
      /\ fourth.kind = "LoadHistoryBranches" /\ third.generation = 1 /\ third.branch = "HEAD"
    OBVIOUS
<1> HIDE DEF first, second, third, fourth
<1>3. ASSUME NEW c \in OnItsWay PROVE c \in {first, second, third, fourth}
    BY <1>1, PlacesOfCommands DEF NewMailbox, Full
<1> QED
    BY <1>1, <1>2, <1>3 DEF Fresh3

LEMMA HistoryInitially == Init => HistoryInv
<1> SUFFICES ASSUME Init PROVE HistoryInv
    OBVIOUS
<1>1. history.generation = 1 /\ history.pages = <<>>
    BY DEF Init
<1>2. HistoriesAreOld
    BY <1>1, InitiallyOnTheWay DEF HistoriesAreOld
<1> QED
    BY <1>1, <1>2 DEF HistoryInv, HistoryShowsTheSelectedBranch

(* The commits on display are the selected branch's, however many selections,  *)
(* pages, resets and failures cross, as long as the generations of the history *)
(* do not wrap: an answer of another branch would need a generation that was   *)
(* given out twice.                                                            *)
THEOREM SelectedBranchIsShown ==
    Safe /\ [][HistoryDoesNotWrap]_vars => []HistoryShowsTheSelectedBranch
<1>1. ReadsInv /\ HistoryInv /\ [Next]_vars /\ [HistoryDoesNotWrap]_vars
      => (ReadsInv /\ HistoryInv)'
    BY StepsAre, HistoryInvKept
<1>2. HistoryInv => HistoryShowsTheSelectedBranch
    BY DEF HistoryInv
<1> QED
    BY <1>1, <1>2, ReadsInvInitially, HistoryInitially, PTL DEF Safe
-----------------------------------------------------------------------------
(* What a picker shows was read after it was opened. *)

(* Of the listings on their way none has a generation that was not given out, ... *)
ListingsAreOld ==
    \A c \in OnItsWay : c.kind \in Fresh3 => c.generation <= listing[CounterOf[c.kind]]

(* ... and those that the open picker waits for were read since it was opened. *)
AnswersAreFresh ==
    \A a \in Elements(answers), k \in Fresh3 :
        modal.kind = PickerOf[k] /\ Is(a.command, k, listing[CounterOf[k]])
        => a.seen.tree >= modal.opened

OpenedBefore == \A k \in Fresh3 : modal.kind = PickerOf[k] => modal.opened <= repository.tree

ListingsInv ==
    ListingsAreOld /\ AnswersAreFresh /\ OpenedBefore /\ PickersShowWhatTheyAskedFor

ListingsDoNotWrap == listing'["branch"] >= listing["branch"] /\ listing'["stash"] >= listing["stash"]

LEMMA CountersOfFresh ==
    ASSUME NEW k \in Fresh3
    PROVE  /\ k \in DOMAIN PickerOf /\ CounterOf[k] \in {"branch", "stash"}
           /\ PickerOf[k] \in {"Branches", "Stashes", "Accounts"} /\ CounterOf[k] \in Counters
BY PickerKinds, CountersAre DEF Fresh3, CounterOf, PickerOf

LEMMA PickersOfFresh ==
    ASSUME NEW m \in {"Branches", "Stashes", "Accounts"}
    PROVE  \E k \in Fresh3 : PickerOf[k] = m
BY PickerKinds DEF Fresh3, PickerOf

LEMMA StandingListings ==
    ASSUME ReadsInv, ReadsInv', ListingsInv, Standing
    PROVE  ListingsInv'
<1>1. UNCHANGED <<OnItsWay, listing, answers>> /\ repository'.tree >= repository.tree
    BY DEF Standing, OnItsWay, lane
<1>2. /\ modal \in Modal /\ repository.tree \in Nat /\ repository'.tree \in Nat
    BY ReadsAssumption DEF ReadsInv, PanesType, OutsideType, Version
<1>3. modal' = modal \/ modal'.kind = "none"
    BY DEF Standing, NoModal
<1>4. ListingsAreOld'
    BY <1>1 DEF ListingsInv, ListingsAreOld
<1>5. AnswersAreFresh' /\ OpenedBefore' /\ PickersShowWhatTheyAskedFor'
    <2>1. CASE modal' = modal
        <3>1. modal.opened \in Nat
            BY <1>2, ReadsAssumption DEF Modal
        <3> QED
            BY <1>1, <1>2, <2>1, <3>1
            DEF ListingsInv, AnswersAreFresh, OpenedBefore, PickersShowWhatTheyAskedFor, Elements
    <2>2. CASE modal'.kind = "none"
        BY <2>2, CountersOfFresh DEF AnswersAreFresh, OpenedBefore, PickersShowWhatTheyAskedFor
    <2> QED
        BY <1>3, <2>1, <2>2
<1> QED
    BY <1>4, <1>5 DEF ListingsInv

LEMMA ServingListings ==
    ASSUME ReadsInv, ListingsInv, Serving
    PROVE  ListingsInv'
<1>1. /\ UNCHANGED <<modal, listing, repository, answers>> /\ OnItsWay' \subseteq OnItsWay
    BY ServeOnItsWay, TableIsTabled DEF Serving, ReadsInv, LaneType, outside
<1> QED
    BY <1>1 DEF ListingsInv, ListingsAreOld, AnswersAreFresh, OpenedBefore,
                PickersShowWhatTheyAskedFor, Elements

LEMMA ThreadingListings ==
    ASSUME ReadsInv, ReadsInv', ListingsInv, Threading
    PROVE  ListingsInv'
<1> PICK l \in Lanes, event \in Event :
          /\ executing[l] # NoCommand /\ event.command = executing[l]
          /\ Answer(l, event) /\ event.seen = repository'
    BY DEF Threading
<1>1. UNCHANGED <<modal, listing>> /\ repository'.tree >= repository.tree
    BY DEF Threading
<1>2. /\ OnItsWay' \subseteq OnItsWay
      /\ Elements(answers)' = Elements(answers) \cup {event}
    BY AnswerOnItsWay DEF ReadsInv, LaneType
<1>3. /\ modal.opened \in Nat /\ repository.tree \in Nat /\ repository'.tree \in Nat
    BY ReadsAssumption DEF ReadsInv, PanesType, OutsideType, Version, Modal
<1>4. ListingsAreOld' /\ OpenedBefore' /\ PickersShowWhatTheyAskedFor'
    BY <1>1, <1>2, <1>3
    DEF ListingsInv, ListingsAreOld, OpenedBefore, PickersShowWhatTheyAskedFor
<1>5. AnswersAreFresh'
    <2>1. \A k \in Fresh3 : modal'.kind = PickerOf[k] => event.seen.tree >= modal'.opened
        BY <1>1, <1>3 DEF ListingsInv, OpenedBefore
    <2> QED
        BY <1>1, <1>2, <2>1 DEF ListingsInv, AnswersAreFresh
<1> QED
    BY <1>4, <1>5 DEF ListingsInv

LEMMA HandledListings ==
    ASSUME ReadsInv, ReadsInv', ListingsInv, NEW hearing \in BOOLEAN, Handled(hearing),
           OnItsWay' \subseteq OnItsWay \cup Elements(outbox'), ListingsDoNotWrap
    PROVE  ListingsInv'
<1>1. PickersGo(hearing) /\ SoundSent' /\ UNCHANGED repository
    BY DEF Handled, outside
<1>2. /\ listing \in [Counters -> Nat] /\ listing' \in [Counters -> Nat]
      /\ modal \in Modal /\ modal' \in Modal /\ repository.tree \in Nat
      /\ answers \in Seq(Event)
    BY ReadsAssumption DEF ReadsInv, PanesType, OutsideType, Version, LaneType, LaneTypeOK
<1>3. \A k \in Fresh3 : /\ listing[CounterOf[k]] \in Nat /\ listing'[CounterOf[k]] \in Nat
                        /\ listing'[CounterOf[k]] >= listing[CounterOf[k]]
    BY <1>2, CountersOfFresh DEF ListingsDoNotWrap
<1>4. Elements(answers)' \subseteq Elements(answers)
    <2>1. CASE ~ hearing
        BY <2>1 DEF Handled, Handle, Elements
    <2>2. CASE hearing
        BY <1>2, <2>2, TailElements DEF Handled, HandleAnswer, Elements
    <2> QED
        BY <2>1, <2>2
<1>5. ASSUME NEW c \in OnItsWay, c.kind \in Fresh3
      PROVE  /\ c.generation \in Nat /\ c.generation <= listing[CounterOf[c.kind]]
             /\ c.generation <= listing'[CounterOf[c.kind]]
    <2>1. c.generation \in Nat
        BY CommandsOnTheWay, KindsOfCommands DEF ReadsInv
    <2>2. c.generation <= listing[CounterOf[c.kind]]
        BY <1>5 DEF ListingsInv, ListingsAreOld
    <2> QED
        BY <1>3, <1>5, <2>1, <2>2
<1>6. ListingsAreOld'
    <2> SUFFICES ASSUME NEW c \in OnItsWay', c.kind \in Fresh3
                 PROVE  c.generation <= listing'[CounterOf[c.kind]]
        BY DEF ListingsAreOld
    <2>1. CASE c \in Elements(outbox')
        <3>1. c.generation = listing'[CounterOf[c.kind]]
            BY <1>1, <2>1, CountersOfFresh DEF SoundSent, Sound
        <3> QED
            BY <1>3, <3>1
    <2>2. CASE c \in OnItsWay
        BY <1>5, <2>2
    <2> QED
        BY <2>1, <2>2
<1>7. ASSUME NEW k \in Fresh3, modal'.kind = PickerOf[k]
      PROVE  /\ modal'.opened <= repository'.tree
             /\ modal'.items # 0 => modal'.items >= modal'.opened
             /\ \A a \in Elements(answers)' :
                    Is(a.command, k, listing'[CounterOf[k]]) => a.seen.tree >= modal'.opened
    <2>1. k \in DOMAIN PickerOf /\ PickerOf[k] \in {"Branches", "Stashes", "Accounts"}
        BY CountersOfFresh
    <2>2. CASE PickerStays(k, hearing)
        <3>1. /\ modal.kind = PickerOf[k] /\ modal'.opened = modal.opened
              /\ listing'[CounterOf[k]] = listing[CounterOf[k]]
              /\ \/ hearing /\ Ends(k) /\ modal'.items \in {modal.items, Head(answers).seen.tree}
                 \/ modal'.items = modal.items
            BY <2>2 DEF PickerStays
        <3>2. modal.items # 0 => modal.items >= modal.opened
            BY <2>1, <3>1 DEF ListingsInv, PickersShowWhatTheyAskedFor
        <3>3. hearing /\ Ends(k) => Head(answers).seen.tree >= modal.opened
            <4> SUFFICES ASSUME hearing, Ends(k) PROVE Head(answers).seen.tree >= modal.opened
                OBVIOUS
            <4>1. Head(answers) \in Elements(answers)
                BY <1>2, TailElements DEF Handled
            <4>2. GenerationOf(k) = listing[CounterOf[k]]
                BY <2>1, PickerKinds DEF GenerationOf
            <4>3. Is(Head(answers).command, k, listing[CounterOf[k]])
                BY <4>2 DEF Ends, Current, Is
            <4> QED
                BY <3>1, <4>1, <4>3 DEF ListingsInv, AnswersAreFresh
        <3> QED
            BY <1>1, <1>4, <3>1, <3>2, <3>3 DEF ListingsInv, OpenedBefore, AnswersAreFresh
    <2>3. CASE PickerAsks(k)
        <3>1. /\ modal'.opened = repository.tree /\ modal'.items = 0
              /\ listing'[CounterOf[k]] # listing[CounterOf[k]]
            BY <2>3 DEF PickerAsks
        <3>2. listing'[CounterOf[k]] > listing[CounterOf[k]]
            BY <1>3, <3>1
        <3>3. ASSUME NEW a \in Elements(answers), Is(a.command, k, listing'[CounterOf[k]])
              PROVE  FALSE
            <4>1. a.command \in OnItsWay
                BY PlacesOnTheWay DEF Elements
            <4>2. a.command.generation <= listing[CounterOf[k]] /\ a.command.generation \in Nat
                BY <1>5, <3>3, <4>1 DEF Is
            <4> QED
                BY <1>3, <3>2, <3>3, <4>2 DEF Is
        <3> QED
            BY <1>1, <1>2, <1>4, <3>1, <3>3
    <2> QED
        BY <1>1, <1>7, <2>1, <2>2, <2>3 DEF PickersGo
<1>8. OpenedBefore' /\ AnswersAreFresh'
    BY <1>7 DEF OpenedBefore, AnswersAreFresh
<1>9. PickersShowWhatTheyAskedFor'
    BY <1>7, PickersOfFresh DEF PickersShowWhatTheyAskedFor
<1> QED
    BY <1>6, <1>8, <1>9 DEF ListingsInv

LEMMA ListingsInvKept ==
    ASSUME ReadsInv, ListingsInv, [Next]_vars, [ListingsDoNotWrap]_vars
    PROVE  ListingsInv'
<1>1. ReadsInv'
    BY StepsAre
<1>2. ListingsDoNotWrap
    <2>1. listing["branch"] \in Nat /\ listing["stash"] \in Nat
        BY CountersAre DEF ReadsInv, PanesType
    <2> QED
        BY <2>1 DEF ListingsDoNotWrap, vars, others, panes
<1>3. ASSUME NEW hearing \in BOOLEAN, Handled(hearing)
      PROVE  OnItsWay' \subseteq OnItsWay \cup Elements(outbox')
    BY OnlySentComes
<1> QED
    BY <1>1, <1>2, <1>3, PanesStepsAre, StandingListings, ThreadingListings, ServingListings,
       HandledListings

LEMMA ListingsInitially == Init => ListingsInv
<1> SUFFICES ASSUME Init PROVE ListingsInv
    OBVIOUS
<1>1. answers = <<>> /\ modal.kind = "none" /\ \A c \in OnItsWay : c.kind \notin Fresh3
    BY InitiallyOnTheWay DEF NoModal
<1>2. \A k \in Fresh3 : PickerOf[k] # "none"
    BY CountersOfFresh
<1> QED
    BY <1>1, <1>2 DEF ListingsInv, ListingsAreOld, AnswersAreFresh, OpenedBefore,
                      PickersShowWhatTheyAskedFor, Elements

(* What a picker shows is on its way, or was read after the picker was opened: *)
(* an answer that was asked for by a picker that was closed meanwhile is not   *)
(* shown in the next one, as long as the generations of the listings do not    *)
(* wrap.                                                                       *)
THEOREM PickersStayAnswered ==
    Safe /\ [][ListingsDoNotWrap]_vars => []PickersAreAnswered
<1>1. ReadsInv /\ ListingsInv /\ [Next]_vars /\ [ListingsDoNotWrap]_vars
      => (ReadsInv /\ ListingsInv)'
    BY StepsAre, ListingsInvKept
<1>2. ListingsInv /\ LoadingPickersAreOwed => PickersAreAnswered
    BY DEF ListingsInv, PickersAreAnswered
<1> QED
    BY <1>1, <1>2, ReadsInvInitially, ListingsInitially, LoadingPickersStayOwed, PTL DEF Safe
=============================================================================
