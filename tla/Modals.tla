------------------------------- MODULE Modals -------------------------------
(* The modal of a tab and the operations that leave it (src/app/keyboard.rs,  *)
(* modal.rs, modal_forms.rs, modal_review.rs, modal_pickers.rs,               *)
(* modal_actions.rs, dialogs.rs, scm.rs, operations.rs, palette.rs).  A key   *)
(* takes the modal, and what becomes of it is decided by one handler; the     *)
(* answers of the worker arrive between two keys and change the status, the   *)
(* pull request and the lists behind the modal.  Which view is shown is left  *)
(* out: the user can change it whenever no modal is open.  So are the cursor  *)
(* and the query in a list: any item may be the selected one, in the status   *)
(* as in a picker.  A text is only blank or not.  An index in a menu may be that of an item the menu had when *)
(* it was drawn: any item it has now.                                         *)
EXTENDS Naturals, Sequences, FiniteSets, SequencesExt

CONSTANTS
    Statuses,     \* the sets of changes the working tree may have
    PullRequests, \* what GitHub says of the pull requests that may be selected
    MaxStashes,   \* bound: stashes ever made
    MaxListings,  \* bound: lists on their way at a time
    Pickers,      \* the lists that are opened
    None

VARIABLES
    desk,     \* the status on display, and the checked paths
    modal,    \* the open modal
    git,      \* the operation that runs, if any
    stashes,  \* the repository's stashes, newest first, and how many were made
    listing,  \* the lists on their way: asked for, or read
    review,   \* the selected pull request, and whether its review is being read
    effects   \* what the last step sent to the worker, and what the user was told

vars == <<desk, modal, git, stashes, listing, review, effects>>
behind == <<stashes, listing, review>>

Changes   == UNION Statuses
Paths     == {c.path : c \in Changes}
PathsOf(s) == {c.path : c \in s}
Area(s, a) == {c \in s : c.area = a}

(* What an operation is about: files, changes, places, names.                *)
Named(n)     == {[name |-> n]}
Files(paths) == {[path |-> p] : p \in paths}
Place(i)     == {[place |-> i]}
Operation(verb, of) == [verb |-> verb, of |-> of]
Nothing == [op |-> None, said |-> None]
Closed  == [kind |-> "none", text |-> FALSE]

(* What the interface asks about before it does it.                          *)
AsksFirst == {"Discard", "Remove", "DeleteBranch", "StashDrop", "StashClear", "Amend",
              "CherryPick", "Revert", "PullRequest", "DeleteComment"}

StashVerbs == {"StashPush", "StashApply", "StashPop", "StashDrop", "StashClear"}

Commit(amend)     == [kind |-> "Commit", text |-> FALSE, amend |-> amend]
Prompt(op, text)  == [kind |-> "Prompt", text |-> text, op |-> op]
Confirm(does, op, said) ==
    [kind |-> "Confirm", text |-> FALSE, does |-> does, op |-> op, said |-> said]
Conflict(c)       == [kind |-> "Conflict", text |-> FALSE, change |-> c]
Comment(op, text) == [kind |-> "PullRequestReviewComment", text |-> text, op |-> op]
Submission        == [kind |-> "PullRequestReviewSubmit", text |-> FALSE, decision |-> "Comment"]
Choice(kind, items) == [kind |-> kind, text |-> FALSE, items |-> items]
Picker(kind, loading, items) ==
    [kind |-> kind, text |-> FALSE, loading |-> loading, items |-> items]
Plain(kind)       == [kind |-> kind, text |-> FALSE]

Forms == {"Commit", "Prompt", "PullRequestReviewComment", "PullRequestReviewSubmit"}

-----------------------------------------------------------------------------
(* Sending an operation                                                       *)

Current  == Named("current")
Branches == Current \cup Named("other")

(* A stash is known by its place in the list.                                 *)
Stash(list) == {[place |-> i, stash |-> list[i]] : i \in DOMAIN list}
PlaceOf(op) == (CHOOSE p \in op.of : TRUE).place

(* One operation at a time; only what it does to the stashes matters later.   *)
Running(op, said) ==
    [busy |-> TRUE,
     doing |-> IF op.verb \in StashVerbs THEN [op |-> op, said |-> said] ELSE Nothing]

(* Only what has to be asked about first is remembered for a step.            *)
Sent(op, said) == IF op.verb \in AsksFirst THEN [op |-> op, said |-> said] ELSE Nothing

Pruned(d, op) ==
    CASE op.verb = "Remove"  -> [d EXCEPT !.checked = @ \ PathsOf(op.of)]
      [] op.verb = "Discard" -> [d EXCEPT !.checked = @ \ PathsOf(op.of)]
      [] OTHER               -> d

QueueOperation(op, said, d) ==
    /\ git' = IF git.busy THEN git ELSE Running(op, said)
    /\ effects' = IF git.busy THEN Nothing ELSE Sent(op, said)
    /\ desk' = IF git.busy THEN d ELSE Pruned(d, op)

QueuePullRequestOperation(op, said) == QueueOperation(op, said, desk)

(* A mutation of a review waits for no operation but for the read of the      *)
(* review, and goes to the pull request that is selected now.                 *)
QueueReviewOperation(op, said) ==
    /\ UNCHANGED <<desk, git, stashes, listing>>
    /\ IF review.loading \/ review.on = None
       THEN effects' = Nothing /\ UNCHANGED review
       ELSE /\ review' = [review EXCEPT !.loading = TRUE]
            /\ effects' = [op |-> op, said |-> said]

Show(m) == modal' = m /\ effects' = Nothing /\ UNCHANGED <<desk, git, behind>>
Do(op, said) == modal' = Closed /\ QueueOperation(op, said, desk) /\ UNCHANGED behind
DoReview(op, said) == modal' = Closed /\ QueueReviewOperation(op, said)

Idle == modal = Closed

-----------------------------------------------------------------------------
(* The working tree's rows, checkboxes and menu                               *)

Check(paths) ==
    /\ Idle /\ paths # {}
    /\ desk' = [desk EXCEPT !.checked = IF paths \subseteq @ THEN @ \ paths ELSE @ \cup paths]
    /\ effects' = Nothing /\ UNCHANGED <<modal, git, behind>>

ToggleCheck == \E c \in desk.status : Check({c.path})
ToggleSectionCheck == \E a \in {"Staged", "Unstaged"} : Check(PathsOf(Area(desk.status, a)))

ToggleStage(c) ==
    CASE c.area = "Unstaged" -> Do(Operation("Stage", Files({c.path})), None)
      [] c.area = "Staged"   -> Do(Operation("Unstage", Files({c.path})), None)
      [] OTHER               -> Show(Conflict(c))

ToggleStageSelected == Idle /\ \E c \in desk.status : ToggleStage(c)

(* A button beside a row, that of another change if the list has moved on.    *)
RowButton ==
    /\ Idle
    /\ \E c \in desk.status :
         /\ modal' = Closed /\ UNCHANGED behind
         /\ \E verb \in {"Stage", "Unstage"} :
              QueueOperation(Operation(verb, Files({c.path})), None, desk)

Resolve ==
    /\ Idle
    /\ \E c \in desk.status : Show(Conflict(c))

StageSection ==
    /\ Idle
    /\ \E a \in {"Staged", "Unstaged"}, verb \in {"Stage", "Unstage"} :
         LET paths == PathsOf(Area(desk.status, a))
         IN  paths # {} /\ Do(Operation(verb, Files(paths)), None)

CheckedChanges ==
    {c \in desk.status : c.area # "Conflict" /\ c.path \in desk.checked}

Discarding(changes) ==
    Show(Confirm("Operate", Operation("Discard", changes), changes))

ConfirmDiscardChecked ==
    /\ Idle /\ CheckedChanges # {}
    /\ Discarding(CheckedChanges)

ConfirmRemoveChecked ==
    /\ Idle /\ CheckedChanges # {}
    /\ Show(Confirm("Operate", Operation("Remove", Files(PathsOf(CheckedChanges))), CheckedChanges))

(* Mutant: the selected change is discarded at once. *)
DiscardAtOnce ==
    /\ Idle /\ desk.checked = {}
    /\ \E c \in desk.status : Do(Operation("Discard", {c}), None)

ConfirmDiscardSelected ==
    /\ Idle /\ desk.checked = {}
    /\ \E c \in desk.status :
         IF c.area = "Conflict" THEN Show(Conflict(c)) ELSE Discarding({c})

ConfirmRemoveSelected ==
    /\ Idle /\ desk.checked = {}
    /\ \E c \in desk.status :
         Show(Confirm("Operate", Operation("Remove", Files({c.path})), {c}))

ConfirmDiscardArea ==
    /\ Idle
    /\ \E areas \in {{"Unstaged"}, {"Unstaged", "Staged"}} :
         LET changes == {c \in desk.status : c.area \in areas}
         IN  changes # {} /\ Discarding(changes)

(* The stash of the checked files is confirmed, then named; every other stash *)
(* of the menu is confirmed as well, and the keys of the manager and the      *)
(* palette go straight to the name.                                           *)
ConfirmStash(paths) ==
    Show(Confirm("OpenPrompt", Operation("StashPush", Files(paths)), Files(paths)))

ScmMenuItem ==
    /\ Idle
    /\ \/ \E verb \in {"StageAll", "UnstageAll"} :
            Show(Confirm("Operate", Operation(verb, {}), {}))
       \/ ConfirmStash({})

Primary ==
    /\ Idle
    /\ IF desk.checked = {} THEN Show(Commit(FALSE)) ELSE ConfirmStash(desk.checked)

ConfirmCommit ==
    /\ Idle
    /\ \E verb \in {"CherryPick", "Revert"} :
         Show(Confirm("Operate", Operation(verb, Named("commit")), Named("commit")))

PromptBranchAtCommit == Idle /\ Show(Prompt(Operation("CreateBranch", Named("commit")), FALSE))

Remote == Idle /\ \E verb \in {"Fetch", "Pull", "Push", "Sync"} : Do(Operation(verb, {}), None)

-----------------------------------------------------------------------------
(* The pull request's menu                                                    *)

May(p, what) == what \in p.may

PrimaryAction(p) ==
    CASE p.state = "CLOSED" /\ May(p, "reopen") -> "Reopen"
      [] p.state \in {"MERGED", "CLOSED"} /\ ~ (p.state = "CLOSED" /\ May(p, "reopen")) -> "Browse"
      [] p.state = "OPEN" /\ p.draft /\ May(p, "update") -> "Ready"
      [] OTHER -> CASE "queued" \in p.is -> "Dequeue"
                    [] "auto" \in p.is /\ "queued" \notin p.is -> "DisableAutoMerge"
                    [] OTHER -> "Merge"

OpenItems(p) ==
    {"Merge"}
    \cup {i \in {"AutoMerge"} : p.is \cap {"auto", "queued"} = {}}
    \cup {i \in {"DisableAutoMerge"} : "auto" \in p.is}
    \cup {i \in {"Dequeue"} : "queued" \in p.is}
    \cup {i \in {"AdminMerge"} : May(p, "admin")}
    \cup {i \in {"UpdateBranch"} : May(p, "branch")}
    \cup {i \in {"SetDraft"} : May(p, "update")}

MenuItems(p) ==
    (CASE p.state = "MERGED" -> {"Revert"}
       [] p.state = "CLOSED" -> {}
       [] OTHER -> IF p.draft THEN {"SetDraft"} ELSE OpenItems(p))
    \cup {i \in {"Review"} : p.state = "OPEN"}
    \cup {i \in {"Edit"} : May(p, "update")}
    \cup {IF "locked" \in p.is THEN "Unlock" ELSE "Lock"}
    \cup {i \in {IF "subscribed" \in p.is THEN "Unsubscribe" ELSE "Subscribe"} : May(p, "subscribe")}
    \cup {i \in {IF "editable" \in p.is THEN "DisallowEdits" ELSE "AllowEdits"} : May(p, "maintain")}
    \cup {i \in {"Close"} : p.state = "OPEN" /\ May(p, "close")}
    \cup {"Comments", "Browse"}

(* Some items open a second list.                                             *)
ActionItems(p) ==
    [AutoMerge |-> {"AutoMerge"}, AdminMerge |-> {"AdminMerge"},
     Review |-> {"Approve", "Comment", "RequestChanges"},
     Comments |-> {"EditLast", "DeleteLast"} \cup {i \in {"Create"} : "locked" \notin p.is},
     Edit |-> {"Title", "RemoveMilestone"},
     UpdateBranch |-> {"UpdateBranch"}, Lock |-> {"Lock"}, Revert |-> {"Revert"}]

NeedsInput == {"Comment", "RequestChanges", "Create", "EditLast", "Title"}

OnPull(p, what) == {[on |-> p, what |-> what]}

ConfirmPull(p, what) ==
    Show(Confirm("PullRequest", Operation("PullRequest", OnPull(p, what)), OnPull(p, what)))

HandleMenuItem(p, item) ==
    CASE item = "Browse" -> Show(Closed)
      [] item \in DOMAIN ActionItems(p) -> Show(Choice("PullRequestActions", ActionItems(p)[item]))
      [] OTHER -> ConfirmPull(p, item)

PullPrimary == Idle /\ review.on # None /\ HandleMenuItem(review.on, PrimaryAction(review.on))
PullMenu == Idle /\ review.on # None /\ \E i \in MenuItems(review.on) : HandleMenuItem(review.on, i)

(* The list was made for the pull request of that time, the choice is made    *)
(* for the one of now.                                                        *)
HandleActionItem(item) ==
    IF review.on = None THEN Show(Closed)
    ELSE IF item \in NeedsInput
         THEN Show(Prompt(Operation("PullRequestText", OnPull(review.on, item)), item = "Title"))
         ELSE ConfirmPull(review.on, item)

ChooseActionItem ==
    /\ modal.kind = "PullRequestActions"
    /\ \E item \in modal.items : HandleActionItem(item)

-----------------------------------------------------------------------------
(* The review of the pull request                                             *)

OpenReviewComment ==
    /\ Idle /\ review.on # None
    /\ \E target \in {"line", "file"} : Show(Comment(Operation("AddThread", Named(target)), FALSE))

OpenReviewReply == Idle /\ review.on # None /\ Show(Comment(Operation("Reply", Named("thread")), FALSE))
OpenSubmission  == Idle /\ review.on # None /\ Show(Submission)

ToggleThread ==
    /\ Idle /\ review.on # None
    /\ \E verb \in {"Resolve", "Unresolve"} : DoReview(Operation(verb, Named("thread")), None)

OpenThreadActions ==
    /\ Idle /\ review.on # None
    /\ Show(Choice("PullRequestReviewThreadActions",
                   {"Reply", "EditComment", "DeleteComment", "Resolve", "Reopen"}))

ThreadAction(item) ==
    CASE item = "Reply" -> Show(Comment(Operation("Reply", Named("thread")), FALSE))
      [] item = "EditComment" -> Show(Comment(Operation("UpdateComment", Named("comment")), TRUE))
      [] item = "DeleteComment" ->
           Show(Confirm("Review", Operation("DeleteComment", Named("comment")), Named("comment")))
      [] item = "Resolve" -> DoReview(Operation("Resolve", Named("thread")), None)
      [] item = "Reopen"  -> DoReview(Operation("Unresolve", Named("thread")), None)

ChooseThreadAction ==
    /\ modal.kind = "PullRequestReviewThreadActions"
    /\ \E item \in modal.items : ThreadAction(item)

SubmitReviewComment ==
    /\ modal.kind = "PullRequestReviewComment" /\ modal.text
    /\ DoReview(modal.op, None)

CycleDecision ==
    /\ modal.kind = "PullRequestReviewSubmit"
    /\ \E d \in {"Comment", "Approve", "RequestChanges"} \ {modal.decision} :
         Show([modal EXCEPT !.decision = d])

SubmitReview ==
    /\ modal.kind = "PullRequestReviewSubmit" /\ modal.text
    /\ DoReview(Operation("Submit", Named(modal.decision)), None)

-----------------------------------------------------------------------------
(* Lists that the worker reads                                                *)

(* Branches and accounts count their requests together: asking for the one    *)
(* makes the answer about the other obsolete.                                 *)
Asked(k) ==
    LET obsolete == IF k \in {"Branches", "Accounts"} THEN {"Branches", "Accounts"} ELSE {k}
    IN  {l \in listing : l.of \notin obsolete} \cup {[of |-> k, read |-> FALSE, ok |-> TRUE, items |-> {}]}

OpenList(kind, k) ==
    /\ Cardinality(Asked(k)) <= MaxListings
    /\ listing' = Asked(k)
    /\ modal' = Picker(kind, TRUE, {})
    /\ effects' = Nothing /\ UNCHANGED <<desk, git, stashes, review>>

OnItsWay(k) == \E l \in listing : l.of = k

(* The branches of the history are read once and kept.                        *)
OpenHistoryList(kind) ==
    IF OnItsWay("HistoryBranches") THEN Show(Picker(kind, TRUE, {}))
    ELSE \/ OpenList(kind, "HistoryBranches")
         \/ Show(Picker(kind, FALSE, Branches))

OpenPicker(kind) ==
    CASE kind \in {"HistoryBranches", "CompareBranches"} -> OpenHistoryList(kind)
      [] OTHER -> OpenList(kind, kind)

OpenPickerByKey == Idle /\ \E kind \in Pickers : OpenPicker(kind)

OpenPalette == Idle /\ Show(Plain("CommandPalette"))
OpenHelp    == Idle /\ Show(Plain("Help"))

(* A command of the palette does at once what the menu asks about first:      *)
(* staging and unstaging everything, popping the latest stash.                *)
ExecutePalette ==
    /\ modal.kind = "CommandPalette"
    /\ \/ \E verb \in {"StageAll", "UnstageAll", "Fetch", "Pull", "Push", "Sync"} :
            Do(Operation(verb, {}), None)
       \/ Do(Operation("StashPop", Place(1)), None)
       \/ \E amend \in BOOLEAN : Show(Commit(amend))
       \/ Show(Prompt(Operation("StashPush", {}), FALSE))
       \/ Show(Prompt(Operation("RenameBranch", Current), TRUE))
       \/ \E kind \in Pickers : OpenPicker(kind)
       \/ \E kind \in {"Help", "Themes", "Appearances"} : Show(Plain(kind))

(* Items of a list, none while it loads.                                      *)
PickBranch ==
    /\ modal.kind = "Branches" /\ ~ modal.loading
    /\ \/ Show(Closed)
       \/ \E branch \in modal.items :
            \/ Show(Prompt(Operation("RenameBranch", {branch}), TRUE))
            \/ {branch} # Current /\ Do(Operation("Checkout", {branch}), None)
            \/ /\ {branch} # Current
               /\ Show(Confirm("Operate", Operation("DeleteBranch", {branch}), {branch}))

CreateBranch == modal.kind = "Branches" /\ Show(Prompt(Operation("CreateBranch", None), FALSE))

PickStash ==
    /\ modal.kind = "Stashes" /\ ~ modal.loading
    /\ \E stash \in modal.items :
         \/ Show(Closed)
         \/ \E verb \in {"StashApply", "StashPop"} : Do(Operation(verb, Place(stash.place)), {stash})
         \/ Show(Confirm("Operate", Operation("StashDrop", Place(stash.place)), {stash}))
         \/ Show(Confirm("Operate", Operation("StashClear", {}), {}))

StashFromManager == modal.kind = "Stashes" /\ Show(Prompt(Operation("StashPush", {}), FALSE))

PickAccount ==
    /\ modal.kind = "Accounts" /\ ~ modal.loading
    /\ \E login \in modal.items : Do(Operation("SwitchAccount", {login}), None)

PickElsewhere ==
    /\ modal.kind \in {"HistoryBranches", "CompareBranches", "Projects", "PullRequestRepositories"}
    /\ ~ modal.loading
    /\ Show(Closed)

-----------------------------------------------------------------------------
(* Forms and confirmations                                                    *)

Type ==
    /\ modal.kind \in Forms
    /\ \E text \in BOOLEAN : Show([modal EXCEPT !.text = text])

ToggleAmend == modal.kind = "Commit" /\ Show([modal EXCEPT !.amend = ~ @])

(* By Ctrl+Enter and by the button.                                           *)
SubmitCommit ==
    /\ modal.kind = "Commit" /\ modal.text
    /\ IF modal.amend THEN Show(Confirm("Operate", Operation("Amend", Named("message")), Named("message")))
                      ELSE Do(Operation("Commit", Named("message")), None)

ClickCommit == SubmitCommit

(* The checked files are unchecked although a stash that comes while another  *)
(* operation runs is dropped.                                                 *)
SubmitPrompt ==
    /\ modal.kind = "Prompt"
    /\ modal' = Closed /\ UNCHANGED behind
    /\ IF modal.op.verb = "StashPush"
       THEN QueueOperation(modal.op, None, [desk EXCEPT !.checked = {}])
       ELSE QueueOperation(modal.op, None, desk)

ConfirmYes ==
    /\ modal.kind = "Confirm"
    /\ CASE modal.does = "OpenPrompt" -> Show(Prompt(modal.op, FALSE))
         [] modal.does = "Review"     -> DoReview(modal.op, modal.said)
         [] OTHER                     -> Do(modal.op, modal.said)

ClickConfirmYes == ConfirmYes

ResolveConflict ==
    /\ modal.kind = "Conflict"
    /\ \E verb \in {"Ours", "Theirs", "Stage"} : Do(Operation(verb, Files({modal.change.path})), None)

ClickConflict == ResolveConflict

Escape == ~ Idle /\ Show(Closed)

-----------------------------------------------------------------------------
(* The worker                                                                 *)

(* The list as it is when the thread comes to it, which takes operations      *)
(* first.  Repositories on GitHub are listed by another thread.               *)
ListOf(k) ==
    CASE k = "Stashes" -> Stash(stashes.list)
      [] k \in {"Branches", "HistoryBranches"} -> Branches
      [] OTHER -> Named("item")

ReadListing ==
    /\ \E l \in listing :
         /\ ~ l.read /\ (l.of # "PullRequestRepositories" => git.doing = Nothing)
         /\ listing' \in
              {(listing \ {l}) \cup {read} :
                 read \in {[l EXCEPT !.read = TRUE, !.items = ListOf(l.of)],
                          [l EXCEPT !.read = TRUE, !.ok = FALSE]}}
    /\ effects' = Nothing /\ UNCHANGED <<desk, modal, git, stashes, review>>

PickersOf(k) == IF k = "HistoryBranches" THEN {"HistoryBranches", "CompareBranches"} ELSE {k}

(* Mutant: the listing is shown over whatever is open. *)
HeardOver(l) ==
    IF l.ok THEN Picker(l.of, FALSE, l.items) ELSE modal

(* Branches that cannot be listed close whatever is open, any other list that *)
(* cannot be read its own picker; accounts stay, with the reason.             *)
HeardListing(l) ==
    IF l.ok
    THEN IF modal.kind \in PickersOf(l.of)
         THEN [modal EXCEPT !.loading = FALSE, !.items = l.items] ELSE modal
    ELSE IF l.of = "Accounts"
    THEN IF modal.kind = "Accounts" THEN [modal EXCEPT !.loading = FALSE] ELSE modal
    ELSE IF l.of = "Branches" \/ modal.kind \in PickersOf(l.of) THEN Closed ELSE modal

HearListing ==
    /\ \E l \in listing :
         /\ l.read
         /\ listing' = listing \ {l}
         /\ modal' = HeardListing(l)
    /\ effects' = Nothing /\ UNCHANGED <<desk, git, stashes, review>>

(* A new status: what vanished is no longer checked.                          *)
HearStatus ==
    /\ \E s \in Statuses : desk' = [status |-> s, checked |-> desk.checked \cap PathsOf(s)]
    /\ effects' = Nothing /\ UNCHANGED <<modal, git, behind>>

AfterOperation(op, s) ==
    CASE op.verb = "StashPush" -> [made |-> s.made + 1, list |-> <<s.made + 1>> \o s.list]
      [] op.verb \in {"StashPop", "StashDrop"} ->
           [s EXCEPT !.list = IF PlaceOf(op) \in DOMAIN @ THEN RemoveAt(@, PlaceOf(op)) ELSE @]
      [] op.verb = "StashClear" -> [s EXCEPT !.list = <<>>]
      [] OTHER -> s

(* The worker may also fail at it.                                            *)
Operate ==
    /\ git.busy /\ git.doing # Nothing
    /\ git' = [git EXCEPT !.doing = Nothing]
    /\ stashes' \in {stashes, AfterOperation(git.doing.op, stashes)}
    /\ stashes'.made <= MaxStashes
    /\ effects' = Nothing /\ UNCHANGED <<desk, modal, listing, review>>

HearOperation ==
    /\ git.busy /\ git.doing = Nothing
    /\ git' = [git EXCEPT !.busy = FALSE]
    /\ effects' = Nothing /\ UNCHANGED <<desk, modal, behind>>

(* Polls read the review; the stack moves on under whatever is open.          *)
ReadReview ==
    /\ review.on # None
    /\ review' = [review EXCEPT !.loading = ~ @]
    /\ effects' = Nothing /\ UNCHANGED <<desk, modal, git, stashes, listing>>

PullRequestMoves ==
    /\ \E p \in PullRequests \cup {None} :
         p # review.on /\ review' = [on |-> p, loading |-> FALSE]
    /\ effects' = Nothing /\ UNCHANGED <<desk, modal, git, stashes, listing>>

-----------------------------------------------------------------------------
Init ==
    /\ \E s \in Statuses : desk = [status |-> s, checked |-> {}]
    /\ modal = Closed
    /\ git = [busy |-> FALSE, doing |-> Nothing]
    /\ stashes = [made |-> 1, list |-> <<1>>]
    /\ listing = {}
    /\ review = [on |-> None, loading |-> FALSE]
    /\ effects = Nothing

Tree ==
    \/ ToggleCheck \/ ToggleSectionCheck \/ ToggleStageSelected \/ RowButton \/ Resolve
    \/ StageSection \/ ConfirmDiscardChecked \/ ConfirmRemoveChecked \/ ConfirmDiscardSelected
    \/ ConfirmRemoveSelected \/ ConfirmDiscardArea \/ ScmMenuItem \/ Primary \/ ConfirmCommit
    \/ PromptBranchAtCommit \/ Remote

Pull ==
    \/ PullPrimary \/ PullMenu \/ ChooseActionItem \/ OpenReviewComment \/ OpenReviewReply
    \/ OpenSubmission \/ ToggleThread \/ OpenThreadActions \/ ChooseThreadAction
    \/ SubmitReviewComment \/ CycleDecision \/ SubmitReview

Lists ==
    \/ OpenPickerByKey \/ OpenPalette \/ OpenHelp \/ ExecutePalette \/ PickBranch \/ CreateBranch
    \/ PickStash \/ StashFromManager \/ PickAccount \/ PickElsewhere

Form ==
    \/ Type \/ ToggleAmend \/ SubmitCommit \/ ClickCommit \/ SubmitPrompt \/ ConfirmYes
    \/ ClickConfirmYes \/ ResolveConflict \/ ClickConflict \/ Escape

Hear == HearListing \/ HearStatus \/ HearOperation

Next ==
    \/ Tree \/ Pull \/ Lists \/ Form
    \/ Hear \/ ReadListing \/ Operate \/ ReadReview \/ PullRequestMoves

Spec == Init /\ [][Next]_vars

-----------------------------------------------------------------------------
(* The variables are of their types.                                          *)
TypeOK ==
    /\ desk.status \in Statuses
    /\ modal.kind \in Pickers \cup Forms \cup {"none", "Confirm", "Conflict", "CommandPalette",
         "Help", "Themes", "Appearances", "PullRequestActions", "PullRequestReviewThreadActions"}
    /\ modal.text \in BOOLEAN /\ (modal.text => modal.kind \in Forms)
    /\ git.busy \in BOOLEAN /\ (~ git.busy => git.doing = Nothing)
    /\ stashes.made \in 1 .. MaxStashes /\ Range(stashes.list) \subseteq 1 .. stashes.made
    /\ Cardinality(listing) <= MaxListings
    /\ review.on \in PullRequests \cup {None} /\ review.loading \in BOOLEAN

(* README: reverting and removing are always behind a confirmation; the       *)
(* tables of docs/cli/tui.md say the same of the rest.  What is sent is what  *)
(* the confirmation named, whatever the status, the selection, the menu and   *)
(* the pull request have become since it was opened.                          *)
Names(said, op) ==
    CASE op.verb = "Remove" -> op.of = Files(PathsOf(said))
      [] op.verb = "StashDrop" -> {s.place : s \in said} = {PlaceOf(op)}
      [] OTHER -> op.of = said

DestructionIsConfirmed ==
    effects.op # None /\ effects.op.verb \in AsksFirst =>
        effects.said # None /\ Names(effects.said, effects.op)

(* scm.rs: what is checked is in the list, or a stash or a removal of the     *)
(* checked files would act on files the user no longer sees.                  *)
ChecksAreShown == desk.checked \subseteq PathsOf(desk.status)

(* The answers of the worker arrive whenever they like and yet leave alone    *)
(* what the user is writing or confirming: an answer fills or closes a list   *)
(* of its own kind.  Only branches that cannot be listed close anything.      *)
AnswerLeavesForm ==
    Hear /\ modal' # modal =>
        \/ \E l \in listing : l.read /\ modal.kind \in PickersOf(l.of)
        \/ \E l \in listing : l.read /\ l.of = "Branches" /\ ~ l.ok

(* A stash is named by its place, which another operation may give to another *)
(* stash: the one that is applied, popped or dropped is still the one of the  *)
(* list on display, or of the confirmation that named it.  The operations run *)
(* on the thread that reads the list and are taken before it.                 *)
StashesAreWhatTheyWere ==
    git.doing # Nothing /\ git.doing.op.verb \in StashVerbs /\ git.doing.op.of # {}
        /\ git.doing.said # None =>
        git.doing.op.verb = "StashPush" \/ git.doing.said \subseteq Stash(stashes.list)

(* docs/cli/pull-request/reviews.md: Ctrl+Enter saves the comment or submits  *)
(* the review.                                                                *)
ReviewsAreSaved ==
    [][(SubmitReviewComment \/ SubmitReview) /\ review.on # None => effects'.op # None]_vars
=============================================================================
