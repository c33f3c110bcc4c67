--------------------------- MODULE RepositoryReads ---------------------------
(***************************************************************************)
(* What the interface of one repository reads and changes over the         *)
(* background lane: the status, the paginated history, the listings that   *)
(* pickers show, and the mutations.  Every read is asked for under a       *)
(* generation, and the answers of other generations are ignored.  A        *)
(* refresh, or a history reset, that is asked for while one is on its way  *)
(* is coalesced into one more.                                             *)
(*                                                                         *)
(* The repository is a version of its working tree and a version of its    *)
(* HEAD; what is read is the version that was read.  The previews,         *)
(* searches and pull requests that some of these handlers also schedule    *)
(* have lanes and state of their own.                                      *)
(***************************************************************************)
EXTENDS ServedLanes, FiniteSets

CONSTANTS
    Keys,          \* what the user may ask for
    Topics,        \* the branches whose history can be viewed, besides HEAD
    Pages,         \* how many pages a history has
    MayFail,       \* the kinds of commands that may fail
    WatcherMisses, \* whether the watcher may miss a change
    Period,        \* of the heartbeat: "any", "long" (a round of reads ends first)
                   \* or "never"
    Generations,   \* bound: how many generations of a command there are
    MaxKeys,       \* bound: how many keys are pressed
    MaxChanges,    \* bound: the last version of the working tree
    MaxFailures    \* bound: how often a command fails

VARIABLES
    repository,    \* the versions of the working tree and of HEAD
    notified,      \* the watcher's channel, which holds one signal
    settling,      \* filesystem_refresh_due: a debounced refresh will come
    status,        \* the versions on display
    refresh,       \* refreshing, refresh_again, status_generation
    history,       \* the pages on display and the read that extends them
    branches,      \* history_branches: whether they are loaded or loading
    listing,       \* the generations of the listings
    groups,        \* project_groups: the version listed, 0 when none is
    modal,         \* the picker or form that is open
    busy,          \* an operation was queued and its end was not yet heard
    operation_id,  \* of the newest operation
    pressed,       \* how many keys were pressed
    failures       \* how many commands failed

panes   == <<status, refresh, history, branches, listing, groups, modal, busy,
             operation_id>>
outside == <<repository, notified>>
others  == <<outside, settling, panes, pressed, failures>>
vars    == <<lane, others>>

(* Mutant: an addition that does not wrap. *)
FollowingUnwrapped(k, g) == g + 1

(* generation.wrapping_add(1), for the commands of one kind. *)
Following(k, g) == (g + 1) % Generations[k]

Unknown == [tree |-> 0, head |-> 0]
NoModal == [kind |-> "none", loading |-> FALSE, opened |-> 0, items |-> 0]
Opened(kind, loading) ==
    [kind |-> kind, loading |-> loading, opened |-> repository.tree, items |-> 0]

(* The picker each listing fills. *)
PickerOf ==
    [LoadBranches |-> "Branches", LoadStashes |-> "Stashes", LoadAccounts |-> "Accounts",
     LoadRecentProjects |-> "Projects"]

(* The generation each listing answers on: two share branch_generation. *)
CounterOf ==
    [LoadBranches |-> "branch", LoadStashes |-> "stash", LoadAccounts |-> "branch",
     LoadRecentProjects |-> "project", LoadWorktrees |-> "worktree"]

Counters == {CounterOf[k] : k \in DOMAIN CounterOf}

Command ==
    [kind : {"Refresh", "LoadHistoryBranches", "LoadWorktrees"} \cup DOMAIN PickerOf,
     generation : Nat]
    \cup [kind : {"LoadHistory"}, generation : Nat,
          branch : Topics \cup {"HEAD"}, skip : Nat]
    \cup [kind : {"Operate"}, generation : Nat, changes_history : BOOLEAN]

Version == [tree : 0 .. MaxChanges, head : 0 .. MaxChanges]
Event   == [command : Command, ok : BOOLEAN, seen : Version]
Page    == [of : Topics \cup {"HEAD"}, version : 1 .. MaxChanges]

ASSUME ReadsAssumption ==
    /\ Generations \in [Kinds -> Nat \ {0, 1}] /\ Pages \in Nat \ {0}
    /\ MaxKeys \in Nat /\ MaxChanges \in Nat \ {0} /\ MaxFailures \in Nat
    /\ WatcherMisses \in BOOLEAN /\ Period \in {"any", "long", "never"}
    /\ "HEAD" \notin Topics
    /\ NoCommand \notin Command
    /\ {"Refresh", "LoadHistory", "LoadHistoryBranches", "LoadWorktrees"}
           \cup DOMAIN PickerOf \subseteq Kinds \ Operations
    /\ Operations = {"Operate"} /\ "Operate" \in Kinds

(* What the tables of the worker say of these commands: each has its lane and,  *)
(* unless it is queued, its slot; refreshes and histories have theirs alone,    *)
(* and what lists projects does not share one with what lists branches.         *)
(* A selection bumps the generation of the history twice, which is then not     *)
(* what it was.                                                                 *)
ASSUME TablesAssumption ==
    /\ LaneOf \in [Kinds -> Lanes]
    /\ SlotOf \in [Kinds \ Operations -> Slots]
    /\ \A own \in {"Refresh", "LoadHistory"}, k \in Kinds \ Operations :
          SlotOf[k] = SlotOf[own] => k = own
    /\ \A k \in {"LoadRecentProjects", "LoadWorktrees"},
          other \in {"LoadBranches", "LoadStashes", "LoadAccounts", "LoadHistoryBranches"} :
          SlotOf[k] # SlotOf[other]
    /\ Generations["LoadHistory"] > 2
-----------------------------------------------------------------------------
(* What the requests do to the state of a pane. *)

RequestRefresh(r) ==
    IF r.loading
    THEN [r EXCEPT !.again = TRUE]
    ELSE [r EXCEPT !.loading = TRUE, !.generation = Following("Refresh", @)]

(* Mutant: a reset that cannot start now is forgotten. *)
RequestHistoryOnce(h, reset) ==
    IF h.loading THEN h
    ELSE [h EXCEPT !.loading = TRUE, !.generation = Following("LoadHistory", @),
                   !.complete = @ /\ ~ reset]

RequestHistory(h, reset) ==
    IF h.loading
    THEN [h EXCEPT !.again = @ \/ reset]
    ELSE [h EXCEPT !.loading = TRUE, !.generation = Following("LoadHistory", @),
                   !.complete = @ /\ ~ reset]

RequestHistoryBranches(b) ==
    [b EXCEPT !.loading = TRUE, !.generation = Following("LoadHistoryBranches", @)]

(* What was requested has a new generation, and is sent. *)
Sent(before, after) == before.generation # after.generation

(* Mutant: a refresh lists the worktrees whatever is open. *)
RefreshListsWorktrees == "LoadWorktrees"

RefreshLists == IF modal.kind = "Projects" THEN "LoadRecentProjects" ELSE "LoadWorktrees"

List(k) == [listing EXCEPT ![CounterOf[k]] = Following(k, @)]

Listed(r) == IF Sent(refresh, r) THEN List(RefreshLists) ELSE listing

RefreshEffects(r) ==
    IF Sent(refresh, r)
    THEN <<[kind |-> "Refresh", generation |-> r.generation],
           [kind |-> RefreshLists, generation |-> Listed(r)[CounterOf[RefreshLists]]]>>
    ELSE <<>>

HistoryEffects(h, skip) ==
    IF Sent(history, h)
    THEN <<[kind |-> "LoadHistory", generation |-> h.generation,
            branch |-> h.branch, skip |-> skip]>>
    ELSE <<>>

HistoryBranchesEffects(b) ==
    IF Sent(branches, b)
    THEN <<[kind |-> "LoadHistoryBranches", generation |-> b.generation]>>
    ELSE <<>>

Refresh(r) == refresh' = r /\ listing' = Listed(r)
-----------------------------------------------------------------------------
(* A new interface asks for everything at once. *)

Init ==
    /\ repository = [tree |-> 1, head |-> 1]
    /\ notified = FALSE
    /\ settling = FALSE
    /\ status = Unknown
    /\ refresh = [loading |-> TRUE, again |-> FALSE, generation |-> 1, failed |-> FALSE]
    /\ history = [loading |-> TRUE, again |-> FALSE, generation |-> 1, branch |-> "HEAD",
                  pages |-> <<>>, complete |-> FALSE, stale |-> FALSE]
    /\ branches = [loading |-> TRUE, loaded |-> FALSE, generation |-> 1]
    /\ listing = [k \in Counters |-> IF k = "worktree" THEN 1 ELSE 0]
    /\ groups = 0
    /\ modal = NoModal
    /\ busy = FALSE
    /\ operation_id = 0
    /\ pressed = 0
    /\ failures = 0
    /\ InitLane(<<[kind |-> "Refresh", generation |-> 1],
                  [kind |-> "LoadWorktrees", generation |-> 1],
                  [kind |-> "LoadHistory", generation |-> 1, branch |-> "HEAD", skip |-> 0],
                  [kind |-> "LoadHistoryBranches", generation |-> 1]>>)
-----------------------------------------------------------------------------
(* The repository, the watcher and the clock. *)

OutsideChange ==
    /\ repository.tree < MaxChanges
    /\ \E moved \in {0, 1} :
          repository' = [tree |-> repository.tree + 1, head |-> repository.head + moved]
    /\ notified' \in IF WatcherMisses THEN {notified, TRUE} ELSE {TRUE}
    /\ UNCHANGED <<lane, settling, panes, pressed, failures>>

Notice ==
    /\ Free /\ notified
    /\ notified' = FALSE
    /\ settling' = TRUE
    /\ UNCHANGED <<lane, repository, panes, pressed, failures>>

Settle ==
    /\ settling
    /\ settling' = FALSE
    /\ LET r == RequestRefresh(refresh) IN Refresh(r) /\ Handle(RefreshEffects(r))
    /\ UNCHANGED <<outside, status, history, branches, groups, modal, busy, operation_id,
                   pressed, failures>>

(* Mutant: the heartbeat only draws the screen again. *)
HeartbeatRedraws ==
    /\ Period = "any" \/ (Period = "long" /\ OnItsWay = {})
    /\ UNCHANGED vars

Heartbeat ==
    /\ Period = "any" \/ (Period = "long" /\ OnItsWay = {})
    /\ LET r == RequestRefresh(refresh) IN Refresh(r) /\ Handle(RefreshEffects(r))
    /\ UNCHANGED <<outside, settling, status, history, branches, groups, modal, busy,
                   operation_id, pressed, failures>>
-----------------------------------------------------------------------------
(* The user. *)

Press(key) ==
    /\ key \in Keys
    /\ pressed < MaxKeys
    /\ pressed' = pressed + 1
    /\ modal.kind = "none"
    /\ UNCHANGED <<outside, status, groups, failures>>

ActiveRefresh ==
    /\ Press("refresh")
    /\ settling' = FALSE
    /\ LET r == RequestRefresh(refresh)
           b == IF branches.loading THEN branches ELSE RequestHistoryBranches(branches) IN
          /\ Refresh(r)
          /\ branches' = b
          /\ Handle(RefreshEffects(r) \o HistoryBranchesEffects(b))
    /\ UNCHANGED <<history, modal, busy, operation_id>>

(* Mutant: an operation is queued next to the one that is running. *)
QueueOperationWhileBusy(changes_history) ==
    /\ Press("operate")
    /\ busy' = TRUE
    /\ operation_id' = Following("Operate", operation_id)
    /\ Handle(<<[kind |-> "Operate", generation |-> operation_id',
                 changes_history |-> changes_history]>>)
    /\ UNCHANGED <<settling, refresh, history, branches, listing, modal>>

QueueOperation(changes_history) ==
    /\ Press("operate")
    /\ ~ busy
    /\ busy' = TRUE
    /\ operation_id' = Following("Operate", operation_id)
    /\ Handle(<<[kind |-> "Operate", generation |-> operation_id',
                 changes_history |-> changes_history]>>)
    /\ UNCHANGED <<settling, refresh, history, branches, listing, modal>>

NearEnd ==
    /\ Press("scroll")
    /\ ~ history.loading /\ ~ history.complete
    /\ LET h == RequestHistory(history, FALSE) IN
          history' = h /\ Handle(HistoryEffects(h, Len(history.pages)))
    /\ UNCHANGED <<settling, refresh, branches, listing, modal, busy, operation_id>>

OpenHistoryBranches(picker) ==
    /\ Press(picker)
    /\ modal' = Opened(picker, branches.loading)
    /\ LET b == IF branches.loaded \/ branches.loading
                THEN branches ELSE RequestHistoryBranches(branches) IN
          branches' = b /\ Handle(HistoryBranchesEffects(b))
    /\ UNCHANGED <<settling, refresh, history, listing, busy, operation_id>>

OpenPicker(k) ==
    /\ Press(PickerOf[k])
    /\ listing' = List(k)
    /\ modal' = IF k = "LoadRecentProjects"
                THEN [Opened("Projects", groups = 0) EXCEPT !.items = groups]
                ELSE Opened(PickerOf[k], TRUE)
    /\ Handle(<<[kind |-> k, generation |-> listing'[CounterOf[k]]]>>)
    /\ UNCHANGED <<settling, refresh, history, branches, busy, operation_id>>

OpenForm ==
    /\ Press("Commit")
    /\ modal' = Opened("Commit", FALSE)
    /\ Handle(<<>>)
    /\ UNCHANGED <<settling, refresh, history, branches, listing, busy, operation_id>>

Close ==
    /\ Free /\ modal # NoModal
    /\ modal' = NoModal
    /\ UNCHANGED <<lane, outside, settling, status, refresh, history, branches, listing,
                   groups, busy, operation_id, pressed, failures>>

Select(b) ==
    RequestHistory([history EXCEPT !.branch = b, !.pages = <<>>, !.complete = FALSE,
                                   !.again = FALSE, !.generation = Following("LoadHistory", @),
                                   !.loading = FALSE], TRUE)

SelectHistoryBranch(b) ==
    /\ modal.kind = "HistoryBranches" /\ ~ modal.loading
    /\ branches.loaded
    /\ modal' = NoModal
    /\ history' = Select(b)
    /\ Handle(HistoryEffects(Select(b), 0))
    /\ UNCHANGED <<outside, settling, status, refresh, branches, listing, groups, busy,
                   operation_id, pressed, failures>>
-----------------------------------------------------------------------------
(* The worker thread. *)

Outcomes(c) == {TRUE} \cup {ok \in {FALSE} : c.kind \in MayFail /\ failures < MaxFailures}

Finish(ok) ==
    /\ failures' = failures + (IF ok THEN 0 ELSE 1)
    /\ UNCHANGED <<settling, panes, pressed>>

AnswerRead(l) ==
    /\ executing[l] # NoCommand
    /\ executing[l].kind # "Operate"
    /\ \E ok \in Outcomes(executing[l]) :
          /\ Answer(l, [command |-> executing[l], ok |-> ok, seen |-> repository])
          /\ Finish(ok)
    /\ UNCHANGED outside

(* An operation may change nothing, and one that fails may have changed       *)
(* something before it did.  GitOperation::changes_history names those that   *)
(* can move HEAD.                                                             *)
AnswerOperation(l) ==
    /\ executing[l] # NoCommand
    /\ executing[l].kind = "Operate"
    /\ \E changed \in {0, 1}, moved \in {0, 1} :
          /\ moved = 1 => changed = 1 /\ executing[l].changes_history
          /\ repository.tree + changed <= MaxChanges
          /\ repository' = [tree |-> repository.tree + changed,
                            head |-> repository.head + moved]
          /\ notified' \in {notified, notified \/ changed = 1}
    /\ \E ok \in Outcomes(executing[l]) :
          /\ Answer(l, [command |-> executing[l], ok |-> ok, seen |-> repository'])
          /\ Finish(ok)
-----------------------------------------------------------------------------
(* The interface hears the oldest answer. *)

GenerationOf(k) ==
    CASE k = "Refresh"             -> refresh.generation
      [] k = "LoadHistory"         -> history.generation
      [] k = "LoadHistoryBranches" -> branches.generation
      [] k = "Operate"             -> operation_id
      [] OTHER                     -> listing[CounterOf[k]]

(* Mutant: the answer of an older request is taken for the newest one's. *)
AnyGeneration(a) == TRUE

Current(a) == a.command.generation = GenerationOf(a.command.kind)

Hears(kinds) ==
    /\ answers # <<>>
    /\ Head(answers).command.kind \in kinds
    /\ Current(Head(answers))
    /\ UNCHANGED <<outside, settling, pressed, failures>>

Ignore ==
    /\ answers # <<>>
    /\ ~ Current(Head(answers))
    /\ HandleAnswer(<<>>)
    /\ UNCHANGED <<outside, settling, panes, pressed, failures>>

(* Mutant: only the first status resets the history. *)
HistoryAfterFirst(seen) ==
    IF status = Unknown /\ ~ history.loading THEN RequestHistory(history, TRUE) ELSE history

(* A HEAD that moved resets its history, unless this is the first status and  *)
(* the first page is still on its way.                                        *)
HistoryAfter(seen) ==
    IF /\ status.head # seen.head
       /\ history.branch = "HEAD"
       /\ status # Unknown \/ ~ history.loading
    THEN RequestHistory(history, TRUE) ELSE history

(* Mutant: the refresh that was asked for meanwhile is dropped. *)
RefreshAfterOnce(ok) ==
    [refresh EXCEPT !.loading = FALSE, !.again = FALSE, !.failed = ~ ok]

RefreshAfter(ok) ==
    LET r == [refresh EXCEPT !.loading = FALSE, !.again = FALSE, !.failed = ~ ok] IN
    IF refresh.again THEN RequestRefresh(r) ELSE r

HearStatus ==
    /\ Hears({"Refresh"})
    /\ LET a == Head(answers)
           h == IF a.ok THEN HistoryAfter(a.seen) ELSE history
           r == RefreshAfter(a.ok) IN
          /\ status' = IF a.ok THEN a.seen ELSE status
          /\ history' = h
          /\ Refresh(r)
          /\ HandleAnswer(HistoryEffects(h, 0) \o RefreshEffects(r))
    /\ UNCHANGED <<branches, groups, modal, busy, operation_id>>

(* A page replaces the first one or extends those that are shown; a view that *)
(* cannot be read falls back to HEAD.                                         *)
WithPage(h, a) ==
    LET page == [of |-> a.command.branch, version |-> a.seen.head] IN
    [h EXCEPT !.pages = CASE a.command.skip = 0             -> <<page>>
                          [] a.command.skip = Len(h.pages)  -> Append(h.pages, page)
                          [] OTHER                          -> h.pages,
              !.complete = a.command.skip + 1 >= Pages,
              !.stale = @ /\ a.command.skip # 0]

WithoutPage(h) ==
    IF h.branch = "HEAD"
    THEN [h EXCEPT !.stale = TRUE]
    ELSE RequestHistory([h EXCEPT !.branch = "HEAD", !.stale = TRUE], TRUE)

HearHistory ==
    /\ Hears({"LoadHistory"})
    /\ LET a == Head(answers)
           read == [history EXCEPT !.loading = FALSE]
           heard == IF a.ok THEN WithPage(read, a) ELSE WithoutPage(read)
           h == IF heard.again THEN RequestHistory([heard EXCEPT !.again = FALSE], TRUE)
                ELSE heard IN
          /\ history' = h
          /\ HandleAnswer(HistoryEffects(h, 0))
    /\ UNCHANGED <<status, refresh, branches, listing, groups, modal, busy, operation_id>>

HearOperation ==
    /\ Hears({"Operate"})
    /\ busy' = FALSE
    /\ LET a == Head(answers)
           r == RequestRefresh(refresh)
           h == IF a.ok /\ a.command.changes_history
                THEN RequestHistory(history, TRUE) ELSE history IN
          /\ Refresh(r)
          /\ history' = h
          /\ HandleAnswer(RefreshEffects(r) \o HistoryEffects(h, 0))
    /\ UNCHANGED <<status, branches, groups, modal, operation_id>>

HearWorktrees ==
    /\ Hears({"LoadWorktrees"})
    /\ HandleAnswer(<<>>)
    /\ UNCHANGED panes

Filled(seen) == [modal EXCEPT !.loading = FALSE, !.items = seen.tree]

(* Accounts that cannot be listed leave their picker open with a message, and *)
(* branches that cannot be listed close whatever is open.                     *)
HearListing ==
    /\ Hears(DOMAIN PickerOf)
    /\ LET a == Head(answers)
           k == a.command.kind
           own == modal.kind = PickerOf[k] IN
          /\ groups' = IF a.ok /\ k = "LoadRecentProjects" THEN a.seen.tree ELSE groups
          /\ modal' = CASE a.ok /\ own -> Filled(a.seen)
                        [] ~ a.ok /\ own /\ k = "LoadAccounts" -> [modal EXCEPT !.loading = FALSE]
                        [] ~ a.ok /\ own /\ k # "LoadAccounts" -> NoModal
                        [] ~ a.ok /\ ~ own /\ k = "LoadBranches" -> NoModal
                        [] OTHER -> modal
    /\ HandleAnswer(<<>>)
    /\ UNCHANGED <<status, refresh, history, branches, listing, busy, operation_id>>

HearHistoryBranches ==
    /\ Hears({"LoadHistoryBranches"})
    /\ LET a == Head(answers)
           own == modal.kind \in {"HistoryBranches", "CompareBranches"} IN
          /\ branches' = [branches EXCEPT !.loading = FALSE, !.loaded = @ \/ a.ok]
          /\ modal' = CASE own /\ a.ok   -> Filled(a.seen)
                        [] own /\ ~ a.ok -> NoModal
                        [] OTHER         -> modal
    /\ HandleAnswer(<<>>)
    /\ UNCHANGED <<status, refresh, history, listing, groups, busy, operation_id>>

Hear ==
    \/ Ignore
    \/ HearStatus \/ HearHistory \/ HearOperation
    \/ HearWorktrees \/ HearListing \/ HearHistoryBranches
-----------------------------------------------------------------------------
User ==
    \/ ActiveRefresh \/ NearEnd \/ OpenForm \/ Close
    \/ \E changes_history \in BOOLEAN : QueueOperation(changes_history)
    \/ \E picker \in {"HistoryBranches", "CompareBranches"} : OpenHistoryBranches(picker)
    \/ \E k \in DOMAIN PickerOf : OpenPicker(k)
    \/ \E b \in Topics \cup {"HEAD"} : SelectHistoryBranch(b)

Thread == \E l \in Lanes : AnswerRead(l) \/ AnswerOperation(l)

Next ==
    \/ OutsideChange \/ Notice \/ Settle \/ Heartbeat
    \/ User
    \/ Serve /\ UNCHANGED others
    \/ Thread
    \/ Hear

Safe == Init /\ [][Next]_vars

(* The event loop dispatches, drains the channel, polls the watcher and ticks *)
(* for ever; the thread works while there is work, and commands end.          *)
Fairness ==
    /\ WF_vars(Serve /\ UNCHANGED others)
    /\ WF_vars(Thread) /\ WF_vars(Hear)
    /\ WF_vars(Notice) /\ WF_vars(Settle) /\ WF_vars(Heartbeat)

Spec == Safe /\ Fairness
-----------------------------------------------------------------------------
TypeOK ==
    /\ LaneTypeOK(Command, Event)
    /\ repository \in Version /\ status \in Version
    /\ notified \in BOOLEAN /\ settling \in BOOLEAN /\ busy \in BOOLEAN
    /\ refresh \in [loading : BOOLEAN, again : BOOLEAN, generation : 0 .. Generations["Refresh"] - 1,
                     failed : BOOLEAN]
    /\ history \in [loading : BOOLEAN, again : BOOLEAN, generation : 0 .. Generations["LoadHistory"] - 1,
                     branch : Topics \cup {"HEAD"}, pages : Seq(Page),
                     complete : BOOLEAN, stale : BOOLEAN]
    /\ branches \in [loading : BOOLEAN, loaded : BOOLEAN, generation : Nat]
    /\ listing \in [Counters -> Nat]
    /\ groups \in 0 .. MaxChanges
    /\ modal \in [kind : {"none", "Commit", "HistoryBranches", "CompareBranches", "Branches",
                           "Stashes", "Accounts", "Projects"},
                   loading : BOOLEAN, opened : 0 .. MaxChanges, items : 0 .. MaxChanges]
    /\ operation_id \in Nat
    /\ pressed \in 0 .. MaxKeys /\ failures \in 0 .. MaxFailures

(* The answer a pane or a picker waits for. *)
Owed(k) == \E c \in OnItsWay : c.kind = k /\ c.generation = GenerationOf(k)

(* A flag that keeps a pane from reading again is always followed by the      *)
(* answer that clears it, whatever the mailbox displaced and the generations  *)
(* discarded; and a read that was coalesced has one to be issued after.       *)
LoadingEndsWithAnAnswer ==
    /\ refresh.loading => Owed("Refresh")
    /\ history.loading => Owed("LoadHistory")
    /\ busy => Owed("Operate")
    /\ refresh.again => refresh.loading
    /\ history.again => history.loading

(* The same of the pickers, although they share slots and a generation: one   *)
(* that shows that it is loading will be told.                                *)
LoadingPickersAreOwed ==
    \A k \in DOMAIN PickerOf : modal.kind = PickerOf[k] /\ modal.loading => Owed(k)

(* Mutations are serialized by the app's busy state: there is never a second  *)
(* one on its way, and its end is heard under the id it was queued under.     *)
OperationsAreSerialized ==
    /\ LET l == LaneOf["Operate"] IN
       Len(mailbox[l].operations) + Cardinality({i \in DOMAIN outbox : IsOperation(outbox[i])})
       + Cardinality({i \in DOMAIN answers : IsOperation(answers[i].command)})
       + (IF executing[l] # NoCommand /\ IsOperation(executing[l]) THEN 1 ELSE 0) <= 1
    /\ \A c \in OnItsWay : IsOperation(c) => busy /\ c.generation = operation_id

(* With a watcher that misses nothing, an interface that waits for nothing    *)
(* shows the repository as it is, unless it has said that it could not read.  *)
QuietStatusIsFresh ==
    ~ WatcherMisses /\ ~ notified /\ ~ settling /\ ~ busy
    /\ ~ refresh.loading /\ ~ refresh.failed
    => status = repository

(* The history pane never lags behind the branch line above it, which another *)
(* read filled: no page is older than the HEAD on display.                    *)
HistoryNeverLagsBehindStatus ==
    history.branch = "HEAD" /\ ~ history.loading /\ ~ history.stale
    => \A i \in DOMAIN history.pages : history.pages[i].version >= status.head

(* The commits shown are the selected branch's, however many selections and   *)
(* pages crossed; a view that could not be read excepted, until HEAD is back. *)
HistoryShowsTheSelectedBranch ==
    \A i \in DOMAIN history.pages :
        history.pages[i].of = history.branch \/ history.stale

(* A picker shows no listing that was read before it was opened.              *)
PickersShowWhatTheyAskedFor ==
    modal.kind \in {"Branches", "Stashes", "Accounts"} /\ modal.items # 0
    => modal.items >= modal.opened

(* What a picker shows is on its way, or is what its user asked for.          *)
PickersAreAnswered == LoadingPickersAreOwed /\ PickersShowWhatTheyAskedFor

(* Whatever the watcher misses and whichever reads fail, the status shown is  *)
(* the repository's in the end: the heartbeat makes up for both.              *)
StatusCatchesUp == <>[](status = repository)

(* The history of HEAD catches up as well, unless its own read failed.        *)
HistoryCatchesUp ==
    <>[](history.branch = "HEAD" /\ ~ history.stale =>
            \A i \in DOMAIN history.pages : history.pages[i].version = repository.head)

(* Both of them.                                                              *)
RepositoryCatchesUp == StatusCatchesUp /\ HistoryCatchesUp
=============================================================================
