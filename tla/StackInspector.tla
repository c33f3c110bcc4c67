---------------------------- MODULE StackInspector ----------------------------
(***************************************************************************)
(* A stack of pull requests as the interface follows it: the lookup and    *)
(* the stack read behind it, the member under the cursor and the tip, the  *)
(* five streams that read them, and the browser of a member's commits.     *)
(*                                                                         *)
(* GitHub is the stack itself, bottom to tip, each member with a version   *)
(* of its head (and base) and one of its details: title, state, reviews,   *)
(* when it was updated.  A stack that is stale in the cache counts as a    *)
(* failed read.  Members are selected by position and read by identity and *)
(* by all that the stack says of them.  Diffs, reviews, the warming of     *)
(* caches and the checks of a pull request that is not in a stack have     *)
(* lanes and state of their own.                                           *)
(***************************************************************************)
EXTENDS ServedLanes, FiniteSets

CONSTANTS
    Size,          \* how many members the stack has at first
    Opened,        \* the member that was opened by its number
    Scripts,       \* what may happen: the keys the user may press, the kinds of reads
                   \* that may fail, the period of the poll ("never", "any", or "long":
                   \* a round of reads ends first), bounds on presses and failures
    Wrap,          \* bound: how many generations there are
    MaxPolls,      \* bound: how many polls a run has, 0 for no bound
    MaxChanges     \* bound: how often the stack changes

VARIABLES
    remote,        \* GitHub: head and details of each member, the bottom of the stack
    lookup,        \* the reads of the opened pull request and of its stack
    pull_request,  \* the opened pull request
    stack,         \* the snapshot on display
    range,         \* the positions of the cursor and of the anchor, 0 when none
    section,       \* of the pull-request view
    inspector,     \* the member and the tip inspected, the section, sync_due
    streams,       \* what each stream reads and shows
    browser,       \* pr_commits: whose commits are listed
    used           \* the script, and its keys, polls, changes and failures so far

panes  == <<lookup, pull_request, stack, range, section, inspector, streams, browser>>
others == <<remote, panes, used>>
vars   == <<lane, others>>

Streams  == {"detail", "conversation", "checks", "commits", "tip"}
KindOf ==
    [detail |-> "LoadPullRequestStackMember",
     conversation |-> "LoadPullRequestStackMemberConversation",
     checks |-> "LoadPullRequestStackMemberChecks",
     commits |-> "LoadPullRequestStackMemberCommits",
     tip |-> "LoadPullRequestStackTipChecks"]
StreamOf(k) == CHOOSE s \in Streams : KindOf[s] = k
StreamKinds == {KindOf[s] : s \in Streams}

Sections == {"Files", "Summary", "Conversation", "Checks", "Commits"}

NoMember == [id |-> 0, head |-> 0, details |-> 0]
NoRange  == [cursor |-> 0, anchor |-> 0]
Member   == [id : 1 .. Size, head : 0 .. MaxChanges, details : 0 .. MaxChanges]
Stacks   == UNION {[1 .. n -> Member] : n \in 0 .. Size}

CommandKinds == StreamKinds \cup {"LookupPullRequest", "LoadPullRequestStack",
                                 "LoadPullRequestCommits"}
Command == [kind : CommandKinds, generation : 0 .. Wrap - 1, member : Member]
Event   == [command : Command, ok : BOOLEAN, seen : Member, members : Stacks]

ASSUME InspectorAssumption ==
    /\ Size \in Nat \ {0} /\ Opened \in 1 .. Size
    /\ Wrap \in Nat \ {0, 1, 2} /\ {MaxPolls, MaxChanges} \subseteq Nat
    /\ \A s \in Scripts : /\ s.period \in {"any", "long", "never"}
                          /\ {s.presses, s.failures} \subseteq Nat
    /\ CommandKinds \subseteq Kinds \ Operations
    /\ NoCommand \notin Command

(* What the tables of the worker say of these commands: the lookup and the    *)
(* stack share their slot with no other, and the four streams that refresh    *)
(* have slots of their own.                                                   *)
ASSUME TablesAssumption ==
    /\ LaneOf \in [Kinds -> Lanes]
    /\ SlotOf \in [Kinds \ Operations -> Slots]
    /\ \A s \in Streams \ {"commits"}, k \in CommandKinds :
          SlotOf[k] = SlotOf[KindOf[s]] => k = KindOf[s]
    /\ \A k \in CommandKinds, j \in {"LookupPullRequest", "LoadPullRequestStack"} :
          SlotOf[k] = SlotOf[j] => k \in {"LookupPullRequest", "LoadPullRequestStack"}

(* A pull request at the same base and head, whatever else is said of it. *)
SameHead(m, n) == m.id = n.id /\ m.head = n.head

Following(g) == (g + 1) % Wrap

Count(what) == used' = [used EXCEPT ![what] = @ + 1]
-----------------------------------------------------------------------------
(* The streams of the inspector. *)

Idle == [loading |-> FALSE, again |-> FALSE, generation |-> 0, shows |-> NoMember]

(* A cleared stream forgets what it shows and discards what is on its way. *)
Forget(st) == [Idle EXCEPT !.generation = Following(st.generation)]

Who(i, s) == IF s = "tip" THEN i.tip ELSE i.selected

(* The commits of a member are read once, the other streams also refresh. *)
Ask(i, st, s, refresh) ==
    IF st.loading
    THEN [st EXCEPT !.again = @ \/ (refresh /\ s # "commits")]
    ELSE IF (~ refresh /\ st.shows # NoMember) \/ Who(i, s) = NoMember
    THEN st
    ELSE [st EXCEPT !.loading = TRUE, !.generation = Following(@)]

(* The streams that a section reads, besides the tip's checks. *)
StreamsOf(i) ==
    CASE i.section = "Summary"                             -> {"detail"}
      [] i.section = "Conversation"                        -> {"conversation"}
      [] i.section = "Checks" /\ i.selected.id # i.tip.id  -> {"checks"}
      [] i.section = "Commits"                             -> {"commits"}
      [] OTHER                                             -> {}

AskAll(i, sts, which, refresh) ==
    [s \in Streams |-> IF s \in which THEN Ask(i, sts[s], s, refresh) ELSE sts[s]]

(* The commands of the streams that were asked, the tip's first. *)
StreamEffects(i, before, after) ==
    LET asked(s) == IF before[s].generation = after[s].generation THEN <<>>
                    ELSE <<[kind |-> KindOf[s], generation |-> after[s].generation,
                            member |-> Who(i, s)]>> IN
    asked("tip") \o asked("detail") \o asked("conversation") \o asked("checks")
        \o asked("commits")

(* request_stack_inspector on an inspector and its streams. *)
Synced(i) == [i EXCEPT !.sync_due = FALSE]
Read(i, sts, refresh) == AskAll(i, sts, {"tip"} \cup StreamsOf(i), refresh)

(* reconcile_stack_inspector: a member that is another one, or of which the   *)
(* stack says anything else, is read anew; the tick asks for it.              *)
Cursor(st, r) == IF st = <<>> THEN NoMember ELSE st[r.cursor]
Tip(st)       == IF st = <<>> THEN NoMember ELSE st[Len(st)]

Reconciled(i, st, r) ==
    [selected |-> Cursor(st, r), tip |-> Tip(st),
     section |-> IF st = <<>> THEN "Files" ELSE i.section,
     sync_due |-> st # <<>> /\ (i.sync_due \/ i.selected # Cursor(st, r) \/ i.tip # Tip(st))]

(* Mutant: a member that was pushed to is taken for the one it was. *)
ClearedByNumber(i, j, sts) ==
    [s \in Streams |-> IF j.tip = NoMember \/ Who(i, s).id # Who(j, s).id
                       THEN Forget(sts[s]) ELSE sts[s]]

Cleared(i, j, sts) ==
    [s \in Streams |-> IF j.tip = NoMember \/ Who(i, s) # Who(j, s) THEN Forget(sts[s]) ELSE sts[s]]
-----------------------------------------------------------------------------
(* The browser of commits, and the lookup. *)

NewBrowser(b) ==
    [owner |-> NoMember, loading |-> FALSE, introduced |-> FALSE, shows |-> NoMember,
     generation |-> Following(b.generation)]

(* Whose commits are listed: the owner's or the opened pull request's. *)
Listed(b, p) == IF b.owner = NoMember THEN p ELSE b.owner

Browse(b, p) ==
    IF b.loading \/ (b.shows # NoMember /\ ~ b.introduced) \/ Listed(b, p) = NoMember
    THEN b
    ELSE [b EXCEPT !.loading = TRUE, !.generation = Following(@)]

BrowserEffects(before, after, p) ==
    IF before.generation = after.generation \/ ~ after.loading THEN <<>>
    ELSE <<[kind |-> "LoadPullRequestCommits", generation |-> after.generation,
            member |-> Listed(after, p)]>>

(* Mutant: the stack that a lookup displaces still counts as loading. *)
LookUpOver(l, refresh) ==
    [l EXCEPT !.loading = TRUE, !.refresh = refresh, !.generation = Following(@)]

LookUp(l, refresh) ==
    [l EXCEPT !.loading = TRUE, !.stack_loading = FALSE, !.refresh = refresh,
              !.generation = Following(@)]

LookupEffects(before, after, k) ==
    IF before = after THEN <<>>
    ELSE <<[kind |-> k, generation |-> after.generation,
            member |-> [id |-> Opened, head |-> 0, details |-> 0]]>>
-----------------------------------------------------------------------------
(* A pull request was just opened by its number. *)

Init ==
    /\ remote = [heads |-> [i \in 1 .. Size |-> 0], details |-> [i \in 1 .. Size |-> 0],
                 bottom |-> 1]
    /\ lookup = [loading |-> TRUE, stack_loading |-> FALSE, refresh |-> FALSE,
                 generation |-> 1]
    /\ pull_request = NoMember
    /\ stack = <<>>
    /\ range = NoRange
    /\ section = "Overview"
    /\ inspector = [selected |-> NoMember, tip |-> NoMember, section |-> "Files",
                    sync_due |-> FALSE]
    /\ streams = [s \in Streams |-> Idle]
    /\ browser = NewBrowser([generation |-> 0])
    /\ \E script \in Scripts :
          used = [script |-> script, keys |-> 0, polls |-> 0, changes |-> 0, failures |-> 0]
    /\ InitLane(<<[kind |-> "LookupPullRequest", generation |-> 1,
                   member |-> [id |-> Opened, head |-> 0, details |-> 0]]>>)

(* GitHub: a member is pushed to, one is retitled or reviewed, the bottom one *)
(* is merged, the stack of the opened pull request is dissolved.              *)
OutsideChange ==
    /\ used.changes < MaxChanges
    /\ \/ \E i \in 1 .. Size : remote' = [remote EXCEPT !.heads[i] = @ + 1]
       \/ \E i \in 1 .. Size : remote' = [remote EXCEPT !.details[i] = @ + 1]
       \/ remote.bottom < Opened /\ remote' = [remote EXCEPT !.bottom = @ + 1]
       \/ remote.bottom <= Opened /\ remote' = [remote EXCEPT !.bottom = Size + 1]
    /\ Count("changes")
    /\ UNCHANGED <<lane, panes>>
-----------------------------------------------------------------------------
(* The clock. *)

Sync ==
    /\ inspector.sync_due
    /\ inspector' = Synced(inspector)
    /\ streams' = Read(inspector, streams, FALSE)
    /\ Handle(StreamEffects(inspector, streams, streams'))
    /\ UNCHANGED <<remote, lookup, pull_request, stack, range, section, browser, used>>

(* Each read has a floor of its own; a webhook's delivery makes all due.     *)
Polled == IF stack # <<>> /\ browser.owner = NoMember
          THEN {"tip"} \cup (StreamsOf(inspector) \ {"commits"}) ELSE {}

Poll(due) ==
    /\ pull_request # NoMember
    /\ MaxPolls = 0 \/ used.polls < MaxPolls
    /\ streams' = AskAll(inspector, streams, due, TRUE)
    /\ lookup' = IF "lookup" \in due /\ ~ lookup.loading THEN LookUp(lookup, TRUE) ELSE lookup
    /\ Handle(StreamEffects(inspector, streams, streams')
              \o LookupEffects(lookup, lookup', "LookupPullRequest"))
    /\ used' = IF MaxPolls = 0 THEN used ELSE [used EXCEPT !.polls = @ + 1]
    /\ UNCHANGED <<remote, pull_request, stack, range, section, inspector, browser>>

(* Mutant: the pull request and its stack are not polled. *)
PollStreams ==
    \/ used.script.period = "any" /\ \E due \in SUBSET Polled : Poll(due)
    \/ used.script.period = "long" /\ OnItsWay = {} /\ Poll(Polled)

PollAny ==
    \/ used.script.period = "any" /\ \E due \in SUBSET (Polled \cup {"lookup"}) : Poll(due)
    \/ used.script.period = "long" /\ OnItsWay = {} /\ Poll(Polled \cup {"lookup"})
-----------------------------------------------------------------------------
(* The user. *)

Press(key) ==
    /\ key \in used.script.keys
    /\ used.keys < used.script.presses
    /\ Count("keys")
    /\ UNCHANGED <<remote>>

(* reset_pull_request_runtime *)
Reset ==
    /\ stack' = <<>>
    /\ range' = NoRange
    /\ section' = "Overview"
    /\ inspector' = Reconciled(inspector, <<>>, NoRange)
    /\ streams' = Cleared(inspector, inspector', streams)
    /\ browser' = NewBrowser(browser)

(* Opening a pull request, or asking anew for one that has no stack, discards *)
(* all that is shown; with a stack on display it is read in the background.   *)
Open(refresh) ==
    /\ Press(IF refresh THEN "refresh" ELSE "open")
    /\ IF refresh /\ stack # <<>>
       THEN /\ lookup' = IF lookup.loading THEN lookup ELSE LookUp(lookup, TRUE)
            /\ UNCHANGED <<pull_request, stack, range, section, inspector, streams, browser>>
       ELSE /\ lookup' = LookUp(lookup, refresh)
            /\ pull_request' = NoMember
            /\ Reset
    /\ Handle(LookupEffects(lookup, lookup', "LookupPullRequest"))

Ends(r) == {r.cursor, r.anchor}

(* Another range reads its member with the next tick. *)
Move(p, extend) ==
    /\ section = "Stack" /\ p \in DOMAIN stack
    /\ range' = [cursor |-> p, anchor |-> IF extend THEN range.anchor ELSE p]

(* Mutant: the inspector is left where it was. *)
MovedLazily == inspector

Moved == IF Ends(range') = Ends(range) THEN inspector ELSE Reconciled(inspector, stack, range')

SelectMember(p, extend) ==
    /\ Press("member")
    /\ Move(p, extend)
    /\ inspector' = Moved
    /\ streams' = Cleared(inspector, inspector', streams)
    /\ Handle(<<>>)
    /\ UNCHANGED <<lookup, pull_request, stack, section, browser>>

(* select_stack_member_section, on an inspector that was moved or not *)
Select(i, s) ==
    /\ inspector' = Synced([i EXCEPT !.section = s])
    /\ LET cleared == Cleared(inspector, i, streams) IN
          /\ streams' = Read(inspector', cleared, FALSE)
          /\ Handle(StreamEffects(inspector', cleared, streams'))
    /\ UNCHANGED <<lookup, pull_request, stack, section, browser>>

SelectSection(s) ==
    /\ Press(s)
    /\ section = "Stack"
    /\ range' = IF s = "Files" THEN [range EXCEPT !.anchor = range.cursor] ELSE range
    /\ Select(inspector, s)

InspectTip ==
    /\ Press("tip")
    /\ Move(Len(stack), FALSE)
    /\ Select(Moved, "Checks")

(* P and F leave a stack only for the commits of one of its members. *)
ShowSection(s) ==
    /\ Press("overview")
    /\ stack = <<>> \/ browser.owner # NoMember
    /\ section' = s
    /\ Handle(<<>>)
    /\ UNCHANGED <<lookup, pull_request, stack, range, inspector, streams, browser>>

(* The member as it was read by itself, or as the stack says it is. *)
SelectedPullRequest ==
    IF section # "Stack" THEN Listed(browser, pull_request)
    ELSE IF streams["detail"].shows # NoMember THEN streams["detail"].shows
    ELSE inspector.selected

ListCommits ==
    /\ Press("commits")
    /\ section' = "Commits"
    /\ LET b == IF section = "Stack"
                THEN [NewBrowser(browser) EXCEPT !.owner = SelectedPullRequest] ELSE browser IN
          /\ browser' = Browse(b, pull_request)
          /\ Handle(BrowserEffects(b, browser', pull_request))
    /\ UNCHANGED <<lookup, pull_request, stack, range, inspector, streams>>

(* A commit of the inspected member opens in the browser. *)
InspectCommit ==
    /\ Press("commit")
    /\ section = "Stack" /\ inspector.section = "Commits"
    /\ streams["commits"].shows # NoMember
    /\ section' = "Files"
    /\ browser' = [NewBrowser(browser) EXCEPT
                     !.owner = SelectedPullRequest, !.introduced = TRUE,
                     !.shows = streams["commits"].shows]
    /\ Handle(<<>>)
    /\ UNCHANGED <<lookup, pull_request, stack, range, inspector, streams>>

BackToStack ==
    /\ Press("stack")
    /\ stack # <<>> /\ section # "Stack"
    /\ section' = "Stack"
    /\ browser' = IF browser.owner = NoMember THEN browser ELSE NewBrowser(browser)
    /\ LET i == Reconciled(inspector, stack, range)
           cleared == Cleared(inspector, i, streams) IN
          /\ inspector' = Synced(i)
          /\ streams' = Read(i, cleared, FALSE)
          /\ Handle(StreamEffects(i, cleared, streams'))
    /\ UNCHANGED <<lookup, pull_request, stack, range>>
-----------------------------------------------------------------------------
(* The threads.  GitHub is read when the answer is given. *)

Newest(id)  == [id |-> id, head |-> remote.heads[id], details |-> remote.details[id]]
RemoteStack == [i \in 1 .. Size + 1 - remote.bottom |-> Newest(remote.bottom + i - 1)]

(* A pull request is asked for by number and read as it is; the other reads   *)
(* name what they are about.                                                  *)
Seen(c) ==
    IF c.kind \in {"LookupPullRequest", "LoadPullRequestStackMember"}
    THEN Newest(c.member.id) ELSE c.member

AnswerRead(l) ==
    /\ executing[l] # NoCommand
    /\ \E ok \in {TRUE} \cup {b \in {FALSE} : /\ executing[l].kind \in used.script.may_fail
                                              /\ used.failures < used.script.failures} :
          /\ Answer(l, [command |-> executing[l], ok |-> ok, seen |-> Seen(executing[l]),
                       members |-> RemoteStack])
          /\ used' = [used EXCEPT !.failures = @ + (IF ok THEN 0 ELSE 1)]
    /\ UNCHANGED <<remote, panes>>
-----------------------------------------------------------------------------
(* The interface hears the oldest answer. *)

Current(c) ==
    CASE c.kind \in {"LookupPullRequest", "LoadPullRequestStack"} ->
             c.generation = lookup.generation
      [] c.kind = "LoadPullRequestCommits" -> c.generation = browser.generation
      [] OTHER -> /\ c.generation = streams[StreamOf(c.kind)].generation
                  /\ c.member.id = Who(inspector, StreamOf(c.kind)).id

Hears(kinds) ==
    /\ answers # <<>>
    /\ Head(answers).command.kind \in kinds
    /\ Current(Head(answers).command)
    /\ UNCHANGED <<remote, used>>

Ignore ==
    /\ answers # <<>>
    /\ ~ Current(Head(answers).command)
    /\ HandleAnswer(<<>>)
    /\ UNCHANGED others

(* The stack is asked for whenever the pull request was read.  A new head of  *)
(* it lists its commits anew, unless a member of the stack owns the browser.  *)
HearLookup ==
    /\ Hears({"LookupPullRequest"})
    /\ LET a == Head(answers)
           reset == IF a.ok /\ ~ SameHead(pull_request, a.seen) /\ browser.owner = NoMember
                    THEN NewBrowser(browser) ELSE browser
           b == IF reset # browser /\ section = "Commits" THEN Browse(reset, a.seen) ELSE reset IN
          /\ lookup' = [lookup EXCEPT !.loading = FALSE, !.stack_loading = a.ok]
          /\ pull_request' = IF a.ok THEN a.seen ELSE pull_request
          /\ IF a.ok /\ pull_request = NoMember
             THEN Reset
             ELSE browser' = b /\ UNCHANGED <<stack, range, section, inspector, streams>>
          /\ HandleAnswer(BrowserEffects(reset, browser', a.seen)
                          \o (IF a.ok THEN LookupEffects(lookup, lookup', "LoadPullRequestStack")
                              ELSE <<>>))

(* reconcile_pr_commit_owner: the owner is looked up among the members; at    *)
(* the same head, its list is kept.                                           *)
OwnerIn(st, owner) ==
    IF \E i \in DOMAIN st : st[i].id = owner.id
    THEN st[CHOOSE i \in DOMAIN st : st[i].id = owner.id] ELSE NoMember

(* Mutant: the list of an owner that was pushed to is kept. *)
DisownedByNumber(st, b) ==
    IF b.owner = NoMember THEN b
    ELSE IF OwnerIn(st, b.owner) # NoMember THEN [b EXCEPT !.owner = OwnerIn(st, b.owner)]
    ELSE NewBrowser(b)

Disowned(st, b) ==
    IF b.owner = NoMember THEN b
    ELSE IF SameHead(OwnerIn(st, b.owner), b.owner) THEN [b EXCEPT !.owner = OwnerIn(st, b.owner)]
    ELSE [NewBrowser(b) EXCEPT !.owner = OwnerIn(st, b.owner)]

(* Mutant: the anchor is left where it was. *)
RangeOfCursor(st) ==
    IF st = <<>> THEN NoRange
    ELSE IF stack # <<>> /\ Ends(range) \subseteq DOMAIN st THEN range
    ELSE [range EXCEPT !.cursor = CHOOSE i \in DOMAIN st : st[i].id = Opened]

(* The cursor stays at its position in the same stack.  *)
RangeIn(st) ==
    LET home == CHOOSE i \in DOMAIN st : st[i].id = Opened IN
    IF st = <<>> THEN NoRange
    ELSE IF stack # <<>> /\ Ends(range) \subseteq DOMAIN st THEN range
    ELSE [cursor |-> home, anchor |-> home]

(* apply_pull_request_stack_snapshot *)
Apply(st) ==
    LET disowned == Disowned(st, browser)
        b == IF disowned.generation # browser.generation /\ section = "Commits"
             THEN Browse(disowned, pull_request) ELSE disowned
        shown == IF st # <<>> /\ ((stack = <<>>) \/ b.owner = NoMember)
                 THEN "Stack" ELSE section
        i == Reconciled(inspector, st, RangeIn(st))
        cleared == Cleared(inspector, i, streams)
        left == st = <<>> /\ shown = "Stack" IN
    /\ stack' = st
    /\ range' = RangeIn(st)
    /\ browser' = b
    /\ section' = IF left THEN "Overview" ELSE shown
    /\ inspector' = IF left THEN i ELSE Synced(i)
    /\ streams' = IF left THEN cleared ELSE Read(i, cleared, lookup.refresh)
    /\ HandleAnswer(BrowserEffects(disowned, b, pull_request)
                    \o StreamEffects(i, cleared, streams'))

HearStack ==
    /\ Hears({"LoadPullRequestStack"})
    /\ lookup' = [lookup EXCEPT !.stack_loading = FALSE]
    /\ IF Head(answers).ok THEN Apply(Head(answers).members)
       ELSE /\ HandleAnswer(<<>>)
            /\ UNCHANGED <<stack, range, section, inspector, streams, browser>>
    /\ UNCHANGED pull_request

(* Mutant: a failed read empties what is shown. *)
HeardOrNothing(s, a) ==
    LET st == [streams[s] EXCEPT !.loading = FALSE, !.again = FALSE,
                  !.shows = IF a.ok /\ (s = "detail" => SameHead(a.seen, Who(inspector, s)))
                            THEN a.seen ELSE NoMember] IN
    IF streams[s].again THEN Ask(inspector, st, s, TRUE) ELSE st

(* A detail of another head than the stack's is refused. *)
Heard(s, a) ==
    LET st == [streams[s] EXCEPT !.loading = FALSE, !.again = FALSE,
                  !.shows = IF a.ok /\ (s = "detail" => SameHead(a.seen, Who(inspector, s)))
                            THEN a.seen ELSE @] IN
    IF streams[s].again THEN Ask(inspector, st, s, TRUE) ELSE st

HearStream ==
    /\ Hears(StreamKinds)
    /\ LET a == Head(answers)
           s == StreamOf(a.command.kind) IN
          /\ streams' = [streams EXCEPT ![s] = Heard(s, a)]
          /\ HandleAnswer(StreamEffects(inspector, streams, streams'))
    /\ UNCHANGED <<lookup, pull_request, stack, range, section, inspector, browser>>

(* A list of another head than the selected pull request's is refused. *)
HearCommits ==
    /\ Hears({"LoadPullRequestCommits"})
    /\ LET a == Head(answers) IN
          browser' = IF a.ok /\ SameHead(a.seen, SelectedPullRequest)
                     THEN [browser EXCEPT !.loading = FALSE, !.introduced = FALSE,
                                          !.shows = a.seen]
                     ELSE [browser EXCEPT !.loading = FALSE]
    /\ HandleAnswer(<<>>)
    /\ UNCHANGED <<lookup, pull_request, stack, range, section, inspector, streams>>
-----------------------------------------------------------------------------
User ==
    \/ ListCommits \/ InspectCommit \/ BackToStack \/ InspectTip
    \/ \E refresh \in BOOLEAN : Open(refresh)
    \/ \E s \in {"Overview", "Files"} : ShowSection(s)
    \/ \E p \in 1 .. Size, extend \in BOOLEAN : SelectMember(p, extend)
    \/ \E s \in Sections : SelectSection(s)

Hear   == Ignore \/ HearLookup \/ HearStack \/ HearStream \/ HearCommits
Thread == \E l \in Lanes : AnswerRead(l)

Next ==
    \/ OutsideChange \/ Sync \/ PollAny \/ User
    \/ Serve /\ UNCHANGED others
    \/ Thread \/ Hear

Safe == Init /\ [][Next]_vars

(* The event loop dispatches, ticks, polls and drains for ever; each thread   *)
(* works while there is work, and reads end.                                  *)
Fairness ==
    /\ WF_vars(Serve /\ UNCHANGED others) /\ WF_vars(Thread)
    /\ WF_vars(Hear) /\ WF_vars(Sync) /\ WF_vars(PollAny)

Spec == Safe /\ Fairness
-----------------------------------------------------------------------------
TypeOK ==
    /\ LaneTypeOK(Command, Event)
    /\ remote \in [heads : [1 .. Size -> 0 .. MaxChanges],
                   details : [1 .. Size -> 0 .. MaxChanges], bottom : 1 .. Size + 1]
    /\ lookup \in [loading : BOOLEAN, stack_loading : BOOLEAN, refresh : BOOLEAN,
                   generation : 0 .. Wrap - 1]
    /\ pull_request \in Member \cup {NoMember}
    /\ stack \in Stacks
    /\ range = NoRange \/ Ends(range) \subseteq DOMAIN stack
    /\ section \in {"Overview", "Files", "Commits", "Stack"}
    /\ inspector \in [selected : Member \cup {NoMember}, tip : Member \cup {NoMember},
                      section : Sections, sync_due : BOOLEAN]
    /\ streams \in [Streams -> [loading : BOOLEAN, again : BOOLEAN,
                                generation : 0 .. Wrap - 1, shows : Member \cup {NoMember}]]
    /\ browser \in [owner : Member \cup {NoMember}, loading : BOOLEAN, introduced : BOOLEAN,
                    shows : Member \cup {NoMember}, generation : 0 .. Wrap - 1]

Owed(kind, generation) ==
    \E c \in OnItsWay : c.kind = kind /\ c.generation = generation

(* A pane that says it is loading is owed the answer of a command that its    *)
(* handler will take, however often the user moved, opened another pull       *)
(* request or was overtaken by a poll meanwhile; a refresh is put off only    *)
(* while another read runs.                                                   *)
StreamsAreOwed ==
    /\ lookup.loading => Owed("LookupPullRequest", lookup.generation)
    /\ lookup.stack_loading => Owed("LoadPullRequestStack", lookup.generation)
    /\ \A s \in Streams \ {"commits"} :
         /\ streams[s].again => streams[s].loading
         /\ streams[s].loading =>
              \E c \in OnItsWay : /\ c.kind = KindOf[s]
                                  /\ c.generation = streams[s].generation
                                  /\ c.member = Who(inspector, s)

(* A list of commits that says it is loading is owed an answer too:           *)
(* lifecycle.rs says that a command replaces only obsolete requests.          *)
CommitListsAreOwed ==
    /\ browser.loading => Owed("LoadPullRequestCommits", browser.generation)
    /\ streams["commits"].loading =>
         Owed("LoadPullRequestStackMemberCommits", streams["commits"].generation)

(* The member that is inspected is the one under the cursor of the stack on   *)
(* display, and the tip is that stack's last.                                 *)
SelectionFollowsTheStack ==
    /\ inspector.selected = Cursor(stack, range)
    /\ inspector.tip = Tip(stack)

(* What a pane shows is what it shows of that member at that head: no answer  *)
(* about another member or about an earlier head is ever on display.          *)
InspectorShowsTheSelectedMember ==
    \A s \in Streams :
        streams[s].shows = NoMember \/ SameHead(streams[s].shows, Who(inspector, s))

(* Cursor, inspector and panes agree, through every answer and every stack.   *)
InspectorFollowsTheSelection ==
    SelectionFollowsTheStack /\ InspectorShowsTheSelectedMember

(* The commits in the browser are its owner's, at the head the owner has.     *)
BrowserShowsItsOwner ==
    browser.shows = NoMember \/ SameHead(browser.shows, Listed(browser, pull_request))

(* What is shown of a member stays on display through polls, crossing and     *)
(* failing answers, keys and new stacks, as long as it stays selected and the *)
(* stack says the same of it: its head, base, title, state, reviews and when  *)
(* it was updated.  If one of these differs, all its panes are read anew.     *)
ContentStaysVisible ==
    [][\A s \in Streams :
         /\ Who(inspector, s) = Who(inspector', s)
         /\ streams[s].shows # NoMember
         => streams[s].shows' # NoMember]_vars

(* Once GitHub and the user rest, the stack on display is GitHub's and the    *)
(* section on display shows the selected member as it is there.               *)
InspectorCatchesUp ==
    <>[](pull_request # NoMember =>
           /\ stack = RemoteStack
           /\ section = "Stack" =>
                \A s \in {"tip"} \cup (StreamsOf(inspector) \ {"commits"}) :
                    streams[s].shows = Who(inspector, s))
=============================================================================
