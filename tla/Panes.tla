------------------------------- MODULE Panes -------------------------------
(***************************************************************************)
(* The panes of the interface and the hands on them: the lists of changes  *)
(* and commits with their search, the tree of changed files, scrollbars    *)
(* with the other things a pointer drags, and a field of text.  A          *)
(* behaviour is one of one pane; the variables of the others are None.     *)
(*                                                                         *)
(* An input is handled on the frame that was drawn last, and a frame is    *)
(* drawn before the next input is read.  Answers of the worker come in     *)
(* between: the frame a click lands on may be older than the list.         *)
(*                                                                         *)
(* Cursors and offsets into lists count from 0, as in the code.            *)
(***************************************************************************)
EXTENDS Naturals, Sequences, SequencesExt, FiniteSets

CONSTANTS
    None,
    Named,          \* a query -> the names (of paths and commits) it is part of
    Repositories,   \* what the repository is, time after time
    Height,         \* the rows inside the border of the sidebar
    Sessions,       \* what the user does with the lists in a behaviour
    Listings,       \* the changed files of a pull request, time after time
    Browsings,      \* what the user does with the tree in a behaviour
    Fields,         \* the texts, and what is typed into them
    Gauges          \* lists to scroll, and what the pointer does

VARIABLES
    list, repository,   \* the lists, and the time of the repository
    tree,               \* the tree of files
    bar,                \* what the pointer drags
    text,               \* a text with its cursor
    left                \* the keys, answers and failures that are left

panesVars == <<list, repository, tree, bar, text, left>>

Least(a, b) == IF a < b THEN a ELSE b
Most(a, b) == IF a < b THEN b ELSE a
Less(a, b) == IF a < b THEN 0 ELSE a - b
Toggled(set, member) == IF member \in set THEN set \ {member} ELSE set \cup {member}

(* The first index where a test holds, counted from 0; 0 without any. *)
FirstRow(rows, Test(_)) ==
    LET found == {i \in DOMAIN rows : Test(rows[i])}
    IN  IF found = {} THEN 0 ELSE (CHOOSE i \in found : \A j \in found : i <= j) - 1
-----------------------------------------------------------------------------
(* The window on a list.  It follows the selection until the wheel or the      *)
(* scrollbar detaches it; a selection that moves attaches it again.  pane has  *)
(* its offset, free and last, the cursor that was drawn.                       *)
Viewport(pane, cursor, height, length) ==
    LET free == pane.free /\ pane.last = cursor
        followed ==
            CASE free -> pane.offset
              [] cursor < pane.offset -> cursor
              [] cursor >= pane.offset + height -> cursor + 1 - height
              [] OTHER -> pane.offset
    IN  [pane EXCEPT !.last = cursor, !.free = free,
                     !.offset = IF height = 0 \/ length = 0 THEN 0
                                ELSE Least(IF free THEN pane.offset ELSE followed,
                                           Less(length, height))]
ScrollReset(pane) == [pane EXCEPT !.offset = 0, !.free = FALSE, !.last = None]
WheelTurned(pane, down, max) ==
    [pane EXCEPT !.free = TRUE,
                 !.offset = IF down THEN Least(@ + 2, max) ELSE Less(@, 2)]
-----------------------------------------------------------------------------
(* The lists of changes and commits.                                           *)

Sections == <<"Conflict", "Staged", "Unstaged">>
Modes == <<"Name", "Contents", "Both">>
CycledMode(mode, reverse) ==
    CASE mode = "Name" -> IF reverse THEN "Both" ELSE "Contents"
      [] mode = "Contents" -> IF reverse THEN "Name" ELSE "Both"
      [] OTHER -> IF reverse THEN "Contents" ELSE "Name"
IncludesName(mode) == mode # "Contents"
IncludesContents(mode) == mode # "Name"
NameMatches(query, name) == query = "" \/ name \in Named[query]

Changes(l) == Repositories[l.changesAt].changes
History(l) == Repositories[l.historyAt].commits

ListItemVisible(l, name) ==
    \/ l.filter = ""
    \/ l.mode = "Contents" /\ l.pending
    \/ IncludesName(l.mode) /\ NameMatches(l.filter, name)
    \/ IncludesContents(l.mode) /\ name \in l.hits

(* The indices of what is shown, counted from 1. *)
VisibleChanges(l) ==
    SelectSeq([i \in DOMAIN Changes(l) |-> i],
              LAMBDA i : ListItemVisible(l, Changes(l)[i].path))
VisibleCommits(l) ==
    SelectSeq([i \in DOMAIN History(l) |-> i], LAMBDA i : ListItemVisible(l, History(l)[i]))

SectionTarget(section) == [section |-> section, cursor |-> None]
ChangeTarget(cursor) == [section |-> None, cursor |-> cursor]
Row(target, index) == [target |-> target, index |-> index]
Spacer == Row(None, None)

(* The rows of a section: its title, and unless it is folded its changes. *)
SectionRows(l, section) ==
    LET visible == VisibleChanges(l)
        members == SelectSeq([c \in DOMAIN visible |-> c],
                             LAMBDA c : Changes(l)[visible[c]].area = section)
    IN  IF members = <<>> THEN <<>>
        ELSE <<Row(SectionTarget(section), None)>>
             \o IF section \in l.collapsed THEN <<>>
                ELSE [k \in DOMAIN members |->
                         Row(ChangeTarget(members[k] - 1), visible[members[k]])]
ChangeRows(l) ==
    LET shown == SelectSeq([s \in DOMAIN Sections |-> SectionRows(l, Sections[s])],
                           LAMBDA rows : rows # <<>>)
    IN  FlattenSeq([s \in DOMAIN shown |-> (IF s = 1 THEN <<>> ELSE <<Spacer>>) \o shown[s]])
CommitRows(l) ==
    [c \in DOMAIN VisibleCommits(l) |-> Row(ChangeTarget(c - 1), VisibleCommits(l)[c])]

ChangeTargets(l) ==
    LET rows == SelectSeq(ChangeRows(l), LAMBDA row : row # Spacer)
    IN  [r \in DOMAIN rows |-> rows[r].target]
SelectedTarget(l) ==
    LET target == IF l.section # None THEN SectionTarget(l.section)
                  ELSE ChangeTarget(l.changeCursor)
    IN  IF target \in Range(ChangeTargets(l)) THEN target ELSE None
TargetSelected(l, target) ==
    IF target.section # None THEN [l EXCEPT !.section = target.section]
    ELSE [l EXCEPT !.section = None, !.changeCursor = target.cursor]
SelectedChange(l) ==
    IF l.changeCursor < Len(VisibleChanges(l))
    THEN Changes(l)[VisibleChanges(l)[l.changeCursor + 1]] ELSE None
SelectedCommit(l) ==
    IF l.historyCursor < Len(VisibleCommits(l))
    THEN History(l)[VisibleCommits(l)[l.historyCursor + 1]] ELSE None

ClampedChange(l) == [l EXCEPT !.changeCursor = Least(@, Less(Len(VisibleChanges(l)), 1))]
ClampedCommit(l) == [l EXCEPT !.historyCursor = Least(@, Less(Len(VisibleCommits(l)), 1))]
Normalized(l) ==
    LET picked == IF SelectedTarget(l) = None /\ ChangeTargets(l) # <<>>
                  THEN TargetSelected(l, Head(ChangeTargets(l))) ELSE l
    IN  ScrollReset(ClampedCommit(ClampedChange(picked)))
-----------------------------------------------------------------------------
(* The search.  A request or answer of an earlier generation is one that is    *)
(* not current: the generation moves on by outdating those on their way.       *)

Outdated(message) == IF message = None THEN None ELSE [message EXCEPT !.current = FALSE]
NextGeneration(l) ==
    [l EXCEPT !.request = Outdated(@),
              !.answers = [a \in DOMAIN @ |-> Outdated(@[a])]]

SearchesContents(l) == l.filter # "" /\ IncludesContents(l.mode)
Scheduled(l) ==
    [NextGeneration(l) EXCEPT !.pending = SearchesContents(l), !.due = SearchesContents(l),
                              !.hits = {}, !.failed = FALSE]

Source(change) == IF change.area = "Staged" THEN "Index" ELSE "Worktree"
SearchRequest(l) ==
    [query |-> l.filter, mode |-> l.mode, view |-> l.view, current |-> TRUE,
     files |-> IF l.view = "Changes"
               THEN {[path |-> change.path, source |-> Source(change)] :
                        change \in Range(Changes(l))}
               ELSE {},
     selected |-> IF l.view = "History" THEN SelectedCommit(l) ELSE None]

(* A tick that finds the search due.  A newer request displaces the one that   *)
(* waits in the mailbox.                                                       *)
RequestedSearch(l) ==
    IF SearchesContents(l)
    THEN [NextGeneration(l) EXCEPT !.due = FALSE, !.pending = TRUE,
                                   !.request = SearchRequest(l)]
    ELSE [l EXCEPT !.due = FALSE, !.pending = FALSE, !.hits = {}]

(* What the worker finds in a repository.  A file that vanished has no         *)
(* contents; one that cannot be opened, or a log that fails, fails the search. *)
ChangeHits(request, found) ==
    {file.path : file \in
        {f \in request.files :
            \/ IncludesName(request.mode) /\ NameMatches(request.query, f.path)
            \/ IncludesContents(request.mode) /\ f \in found.contents[request.query]}}
CommitHits(request, found) ==
    {commit \in Range(found.commits) :
        \/ IncludesName(request.mode) /\ NameMatches(request.query, commit)
        \/ IncludesContents(request.mode) /\ commit \in found.messages[request.query]}
    \cup IF IncludesContents(request.mode) /\ request.selected \in found.patches[request.query]
         THEN {request.selected} ELSE {}
Searched(request, found) ==
    IF request.view = "Changes" THEN ChangeHits(request, found) ELSE CommitHits(request, found)

(* Mutant: an answer is taken whichever search it is of. *)
SearchHeardLate(l, answer) ==
    IF answer.ok
    THEN Normalized([l EXCEPT !.answers = Tail(@), !.pending = FALSE, !.hits = answer.hits])
    ELSE [l EXCEPT !.answers = Tail(@), !.pending = FALSE, !.failed = TRUE]

SearchHeard(l, answer) ==
    LET heard == [l EXCEPT !.answers = Tail(@)]
    IN  CASE ~answer.current -> heard
          [] answer.current /\ answer.ok ->
                Normalized([heard EXCEPT !.pending = FALSE, !.hits = answer.hits])
          [] OTHER -> [heard EXCEPT !.pending = FALSE, !.failed = TRUE]

(* The prompt of the search applies every letter and every change of mode.     *)
SearchOpened(l) == [l EXCEPT !.prompt = [filter |-> l.filter, mode |-> l.mode]]
SearchUpdated(l, query, mode) ==
    IF l.filter = query /\ l.mode = mode THEN l
    ELSE Normalized(Scheduled([l EXCEPT !.filter = query, !.mode = mode]))
ModeCycled(l, reverse) ==
    Normalized(Scheduled([l EXCEPT !.mode = CycledMode(@, reverse)]))
SearchCancelled(l) ==
    Normalized(Scheduled(
        [l EXCEPT !.filter = l.prompt.filter, !.mode = l.prompt.mode, !.prompt = None]))
SearchAccepted(l) == SearchUpdated([l EXCEPT !.prompt = None], l.filter, l.mode)
SearchCleared(l) ==
    Normalized([NextGeneration(l) EXCEPT !.filter = "", !.mode = "Name", !.hits = {},
                                         !.pending = FALSE, !.due = FALSE])

(* A view keeps its search and its window while another is shown; what is due  *)
(* is not kept, and an unfinished search starts again.                         *)
Shown(l) ==
    [filter |-> l.filter, mode |-> l.mode, hits |-> l.hits, pending |-> l.pending,
     offset |-> l.offset, free |-> l.free, last |-> l.last]
Restored(l, state) ==
    [l EXCEPT !.filter = state.filter, !.mode = state.mode, !.hits = state.hits,
              !.pending = state.pending, !.offset = state.offset, !.free = state.free,
              !.last = state.last]
Presented(l) ==
    ScrollReset([l EXCEPT !.filter = "", !.mode = "Name", !.hits = {}, !.pending = FALSE,
                          !.due = FALSE])
SwitchedView(l, view) ==
    LET away == [NextGeneration(l) EXCEPT !.view = view,
                                          !.stored = [@ EXCEPT ![l.view] = Shown(l),
                                                               ![view] = None]]
        back == IF l.stored[view] = None THEN Presented(away)
                ELSE Restored(away, l.stored[view])
    IN  IF SearchesContents(back) THEN Scheduled(back) ELSE back
-----------------------------------------------------------------------------
(* New lists.  A status keeps the checked paths it still has, and the selected *)
(* change; a page of history keeps the row.                                    *)

(* Mutant: the row stays selected, whatever is in it now. *)
RowKept(l, selected) == ClampedChange(l)

SelectionRestored(l, selected) ==
    LET at == {c \in DOMAIN VisibleChanges(l) : Changes(l)[VisibleChanges(l)[c]] = selected}
        unstaged == \E i \in Range(VisibleChanges(l)) : Changes(l)[i].area = "Unstaged"
        fallen == CASE SelectedTarget(l) # None -> l
                    [] SelectedTarget(l) = None /\ unstaged -> [l EXCEPT !.section = "Unstaged"]
                    [] OTHER -> IF ChangeTargets(l) = <<>> THEN l
                                ELSE TargetSelected(l, Head(ChangeTargets(l)))
    IN  IF selected # None /\ at # {}
        THEN [l EXCEPT !.section = None, !.changeCursor = (CHOOSE c \in at : TRUE) - 1]
        ELSE ClampedChange(fallen)

(* Mutant: what is checked stays checked. *)
StatusHeardUnpruned(l, time) ==
    LET heard == SelectionRestored([l EXCEPT !.changesAt = time], SelectedChange(l))
    IN  IF l.view = "Changes" /\ SearchesContents(l) THEN Scheduled(heard) ELSE heard

StatusHeard(l, time) ==
    LET selected == IF l.section = None THEN SelectedChange(l) ELSE None
        paths == {change.path : change \in Range(Repositories[time].changes)}
        heard == SelectionRestored(
                    [l EXCEPT !.changesAt = time, !.checked = @ \cap paths], selected)
    IN  IF l.view = "Changes" /\ SearchesContents(l) THEN Scheduled(heard) ELSE heard
HistoryHeard(l, time) ==
    LET heard == ClampedCommit([l EXCEPT !.historyAt = time])
    IN  IF l.view = "History" /\ SearchesContents(l) THEN Scheduled(heard) ELSE heard

(* Moving the selection. *)
Navigated(l, down, amount) ==
    LET targets == ChangeTargets(l)
        commits == Len(VisibleCommits(l))
        Moved(at, length) == IF down THEN Least(at + amount, length - 1) ELSE Less(at, amount)
        selected == SelectedTarget(l)
        at == IF selected = None THEN 0 ELSE FirstRow(targets, LAMBDA t : t = selected)
    IN  CASE l.view = "Changes" /\ targets = <<>> ->
                [l EXCEPT !.section = "Unstaged", !.changeCursor = 0]
          [] l.view = "Changes" /\ targets # <<>> ->
                TargetSelected(l, targets[Moved(at, Len(targets)) + 1])
          [] OTHER -> [l EXCEPT !.historyCursor = IF commits = 0 THEN 0 ELSE Moved(@, commits)]
MovedToEdge(l, end) ==
    LET targets == ChangeTargets(l)
    IN  CASE l.view = "Changes" /\ targets = <<>> -> l
          [] l.view = "Changes" /\ targets # <<>> ->
                TargetSelected(l, IF end THEN Last(targets) ELSE Head(targets))
          [] OTHER -> [l EXCEPT !.historyCursor = IF end THEN Less(Len(VisibleCommits(l)), 1)
                                                  ELSE 0]
SectionToggled(l, section) ==
    [l EXCEPT !.collapsed = Toggled(@, section), !.section = section]
(* To the right of an open title is its first change, to the left of a change  *)
(* its title.                                                                  *)
SectionNavigated(l, expand) ==
    LET selected == SelectedTarget(l)
        targets == ChangeTargets(l)
        next == FirstRow(targets, LAMBDA t : t = selected) + 2
    IN  CASE selected = None -> l
          [] selected # None /\ l.section # None ->
                IF /\ expand /\ l.section \notin l.collapsed /\ next \in DOMAIN targets
                   /\ targets[next].section = None
                THEN TargetSelected(l, targets[next]) ELSE l
          [] OTHER -> IF expand \/ SelectedChange(l) = None THEN l
                      ELSE [l EXCEPT !.section = SelectedChange(l).area]
-----------------------------------------------------------------------------
(* A frame, and what a pointer finds on it.                                    *)

ListRows(l) == IF l.view = "Changes" THEN ChangeRows(l) ELSE CommitRows(l)
ListHeight(l) ==
    CASE l.view = "History" -> Height \div 2
      [] l.view = "Changes" /\ (l.checked = {} \/ Height = 1) -> Less(Height, 1)
      [] OTHER -> Less(Height, 2)
RowSelected(l, row) ==
    IF l.view = "Changes"
    THEN row.target = IF l.section # None THEN SectionTarget(l.section)
                      ELSE ChangeTarget(l.changeCursor)
    ELSE row.target = ChangeTarget(l.historyCursor)
SelectedRow(l) ==
    IF l.view = "History" THEN l.historyCursor
    ELSE FirstRow(ListRows(l), LAMBDA row : RowSelected(l, row))
Window(rows, offset, height) == SubSeq(rows, offset + 1, Least(offset + height, Len(rows)))
Drawn(l) ==
    LET rows == ListRows(l)
        height == ListHeight(l)
        drawn == Viewport(l, SelectedRow(l), height, Len(rows))
    IN  [drawn EXCEPT !.frame = [rows |-> Window(rows, drawn.offset, height),
                                 max |-> Less(Len(rows), height)]]

(* A click on a row means the row that was drawn; its index may since be that  *)
(* of another change.                                                          *)
RowClicked(l, row) ==
    LET visible == IF l.view = "Changes" THEN VisibleChanges(l) ELSE VisibleCommits(l)
        at == {c \in DOMAIN visible : visible[c] = row.index}
    IN  CASE row = Spacer -> l
          [] row # Spacer /\ row.target.section # None -> SectionToggled(l, row.target.section)
          [] row # Spacer /\ row.target.section = None /\ at = {} -> l
          [] row # Spacer /\ row.target.section = None /\ at # {} /\ l.view = "Changes" ->
                TargetSelected(l, ChangeTarget((CHOOSE c \in at : TRUE) - 1))
          [] OTHER -> [l EXCEPT !.historyCursor = (CHOOSE c \in at : TRUE) - 1]

(* The boxes: of a change, and of all the changes of a section. *)
ChangeChecked(l, index) ==
    IF index \in DOMAIN Changes(l)
    THEN [l EXCEPT !.checked = Toggled(@, Changes(l)[index].path)] ELSE l
SectionChecked(l, section) ==
    LET paths == {change.path : change \in {c \in Range(Changes(l)) : c.area = section}}
    IN  [l EXCEPT !.checked = IF paths \subseteq @ THEN @ \ paths ELSE @ \cup paths]
-----------------------------------------------------------------------------
(* Steps of the lists.  What the user does is drawn at once.                   *)

Handled(input, l) ==
    /\ input \in left.inputs /\ left.keys > 0
    /\ left' = [left EXCEPT !.keys = @ - 1]
    /\ list' = Drawn(l)
    /\ UNCHANGED <<repository, tree, bar, text>>
InLists == list # None /\ list.prompt = None
InPrompt == list # None /\ list.prompt # None
InChanges == InLists /\ list.view = "Changes"

Navigate ==
    InLists /\ \E down \in BOOLEAN, page \in BOOLEAN :
        Handled(IF page THEN "page" ELSE "move",
                Navigated(list, down, IF page THEN Most(Less(Height, 2), 1) ELSE 1))
MoveToEdge == InLists /\ \E end \in BOOLEAN : Handled("edge", MovedToEdge(list, end))
NavigateSection ==
    InChanges /\ \E expand \in BOOLEAN : Handled("fold", SectionNavigated(list, expand))
ToggleSection ==
    InChanges /\ list.section # None /\ Handled("fold", SectionToggled(list, list.section))
SwitchView ==
    InLists /\ \E view \in {"Changes", "History"} \ {list.view} :
        Handled("view", SwitchedView(list, view))
ClickRow ==
    InLists /\ \E r \in DOMAIN list.frame.rows :
        Handled("click", RowClicked(list, list.frame.rows[r]))
ClickBox ==
    InChanges /\ \E r \in DOMAIN list.frame.rows :
        LET row == list.frame.rows[r]
        IN  /\ row # Spacer
            /\ Handled("check", IF row.target.section # None
                                THEN SectionChecked(list, row.target.section)
                                ELSE ChangeChecked(list, row.index))
TurnWheel ==
    InLists /\ \E down \in BOOLEAN :
        Handled("wheel", WheelTurned(list, down, list.frame.max))

OpenSearch == InLists /\ Handled("search", SearchOpened(list))
UpdateSearch ==
    InPrompt /\ \E query \in {""} \cup DOMAIN Named :
        /\ query # list.filter
        /\ Handled("search", SearchUpdated(list, query, list.mode))
CycleMode == InPrompt /\ \E reverse \in BOOLEAN : Handled("search", ModeCycled(list, reverse))
CancelSearch == InPrompt /\ Handled("search", SearchCancelled(list))
AcceptSearch == InPrompt /\ Handled("search", SearchAccepted(list))
ClearSearch == InLists /\ list.filter # "" /\ Handled("search", SearchCleared(list))

(* What goes on without the user.  Answers are drawn later than they are heard. *)
InWorld == list # None /\ UNCHANGED <<tree, bar, text>>
Tick ==
    /\ InWorld /\ list.due /\ list' = Drawn(RequestedSearch(list))
    /\ UNCHANGED <<repository, left>>
Search ==
    /\ InWorld /\ list.request # None
    /\ \E ok \in {TRUE} \cup (IF left.failures > 0 THEN {FALSE} ELSE {}) :
          /\ left' = [left EXCEPT !.failures = IF ok THEN @ ELSE @ - 1]
          /\ list' = [list EXCEPT !.request = None,
                        !.answers = Append(@,
                            [current |-> list.request.current, ok |-> ok,
                             hits |-> IF ok THEN Searched(list.request, Repositories[repository])
                                      ELSE {}])]
    /\ UNCHANGED repository
HearSearch ==
    /\ InWorld /\ list.answers # <<>> /\ list' = SearchHeard(list, Head(list.answers))
    /\ UNCHANGED <<repository, left>>
HearStatus ==
    /\ InWorld /\ left.answers > 0
    /\ \E time \in list.changesAt .. repository : list' = StatusHeard(list, time)
    /\ left' = [left EXCEPT !.answers = @ - 1] /\ UNCHANGED repository
HearHistory ==
    /\ InWorld /\ left.answers > 0
    /\ \E time \in list.historyAt .. repository : list' = HistoryHeard(list, time)
    /\ left' = [left EXCEPT !.answers = @ - 1] /\ UNCHANGED repository
ChangeRepository ==
    /\ InWorld /\ repository < Len(Repositories)
    /\ repository' = repository + 1 /\ UNCHANGED <<list, left>>
Redraw ==
    /\ InWorld /\ list # Drawn(list) /\ list' = Drawn(list)
    /\ UNCHANGED <<repository, left>>

ListSteps ==
    \/ Navigate \/ MoveToEdge \/ NavigateSection \/ ToggleSection \/ SwitchView \/ ClickRow
    \/ ClickBox \/ TurnWheel \/ OpenSearch \/ UpdateSearch \/ CycleMode \/ CancelSearch
    \/ AcceptSearch \/ ClearSearch \/ Tick \/ Search \/ HearSearch \/ HearStatus
    \/ HearHistory \/ ChangeRepository \/ Redraw

NoList ==
    [view |-> "Changes", filter |-> "", mode |-> "Name", pending |-> FALSE, due |-> FALSE,
     hits |-> {}, failed |-> FALSE, request |-> None, answers |-> <<>>, prompt |-> None,
     stored |-> [view \in {"Changes", "History"} |-> None], changesAt |-> 1, historyAt |-> 1,
     changeCursor |-> 0, historyCursor |-> 0, section |-> None, collapsed |-> {},
     checked |-> {}, offset |-> 0, free |-> FALSE, last |-> None, frame |-> None]

(* A search of contents that is said to be going on is: its time comes, or it  *)
(* is on its way, or its answer is.                                            *)
SearchIsOwed ==
    list # None /\ list.pending =>
        \/ list.due
        \/ list.request # None /\ list.request.current
        \/ \E a \in DOMAIN list.answers : list.answers[a].current

(* A search that ended, and did not fail, shows what matches and nothing else, *)
(* once the list is of the repository as it is.  A commit's patch is searched  *)
(* only if it was selected.                                                    *)
SettledSearchIsTrue ==
    LET query == list.filter
        now == Repositories[repository]
        Matching(row) ==
            \/ IncludesName(list.mode) /\ NameMatches(query, row.path)
            \/ \E change \in Range(now.changes) :
                  /\ change.path = row.path
                  /\ [path |-> row.path, source |-> Source(change)] \in now.contents[query]
        shown == {History(list)[i] : i \in Range(VisibleCommits(list))}
        named == {commit \in Range(now.commits) :
                     IncludesName(list.mode) /\ NameMatches(query, commit)}
        said == Range(now.commits) \cap now.messages[query]
    IN  /\ list # None /\ SearchesContents(list) /\ ~list.pending /\ ~list.failed
        => /\ list.view = "Changes" /\ list.changesAt = repository =>
                \A i \in DOMAIN now.changes :
                    i \in Range(VisibleChanges(list)) <=> Matching(now.changes[i])
           /\ list.view = "History" /\ list.historyAt = repository =>
                named \cup said \subseteq shown /\ shown \subseteq named \cup said \cup now.patches[query]

(* Unless contents are searched something that is listed is selected, as long  *)
(* as there is anything.  Two steps may leave nothing selected: a click on a    *)
(* row that was drawn and is no longer there, which selects the title of a      *)
(* section that is gone or a change of a folded one, and a switch to a view     *)
(* with a search of its own.                                                    *)
SelectionListed(l) ==
    ~SearchesContents(l) =>
        IF l.view = "Changes" THEN ChangeTargets(l) # <<>> => SelectedTarget(l) # None
        ELSE VisibleCommits(l) # <<>> => SelectedCommit(l) # None
StaleClick ==
    /\ "click" \in left.inputs /\ left'.keys # left.keys
    /\ ~(Range(list.frame.rows) \subseteq Range(ListRows(list)))
SelectionStaysListed ==
    /\ list # None /\ SelectionListed(list) /\ ~StaleClick /\ list'.view = list.view
    => SelectionListed(list')

(* The selection is in the window unless the window was taken elsewhere. *)
SelectionIsShown ==
    list # None /\ list = Drawn(list) /\ ~list.free /\ ListHeight(list) > 0 =>
        \A r \in DOMAIN ListRows(list) :
            RowSelected(list, ListRows(list)[r]) => ListRows(list)[r] \in Range(list.frame.rows)

(* A refresh keeps the selected change if it is still there. *)
SelectionSurvives ==
    LET change == SelectedChange(list)
    IN  /\ list # None /\ list.filter = "" /\ list.section = None
        /\ list'.changesAt # list.changesAt /\ change \in Range(Changes(list'))
        => list'.section = None /\ SelectedChange(list') = change
-----------------------------------------------------------------------------
(* The tree of changed files.  A path is a sequence of names, a listing its    *)
(* paths and the files each query is in the path of.                           *)

Paths(t) == IF t.listing = 0 THEN <<>> ELSE Listings[t.listing].paths
TreeFiles(t) ==
    {i \in DOMAIN Paths(t) : t.filter = "" \/ i \in Listings[t.listing].named[t.filter]}

Inside(path, dir) == Len(path) > Len(dir) /\ SubSeq(path, 1, Len(dir)) = dir
FilesIn(paths, files, dir) ==
    {i \in files : Inside(paths[i], dir) /\ Len(paths[i]) = Len(dir) + 1}
DirectoriesIn(paths, files, dir) ==
    {SubSeq(paths[i], 1, Len(dir) + 1) :
        i \in {j \in files : Inside(paths[j], dir) /\ Len(paths[j]) > Len(dir) + 1}}

(* Directories with nothing but one directory are one row with it. *)
RECURSIVE Compacted(_, _, _)
Compacted(paths, files, dir) ==
    LET children == DirectoriesIn(paths, files, dir)
    IN  IF FilesIn(paths, files, dir) = {} /\ Cardinality(children) = 1
        THEN Compacted(paths, files, CHOOSE child \in children : TRUE) ELSE dir

DirectoryEntry(path, depth) == [path |-> path, depth |-> depth, index |-> None]
FileEntry(index, depth) == [path |-> None, depth |-> depth, index |-> index]

RECURSIVE Entries(_, _, _, _, _)
Entries(paths, files, dir, depth, collapsed) ==
    LET children == SetToSortSeq(DirectoriesIn(paths, files, dir),
                                 LAMBDA a, b : Last(a) < Last(b))
        Child(child) ==
            LET row == Compacted(paths, files, child)
            IN  <<DirectoryEntry(row, depth)>>
                \o IF row \in collapsed THEN <<>>
                   ELSE Entries(paths, files, row, depth + 1, collapsed)
        indices == SetToSortSeq(FilesIn(paths, files, dir), LAMBDA a, b : a < b)
    IN  FlattenSeq([c \in DOMAIN children |-> Child(children[c])])
        \o [f \in DOMAIN indices |-> FileEntry(indices[f], depth)]

Rebuilt(t) == [t EXCEPT !.rows = Entries(Paths(t), TreeFiles(t), <<>>, 0, t.collapsed)]
(* Without rows the tree is built when it is looked at. *)
Looked(t) == IF t.rows = <<>> /\ Paths(t) # <<>> THEN Rebuilt(t) ELSE t

TreeDrawn(t) ==
    LET seen == Looked(t)
        length == Len(seen.rows)
        drawn == Viewport([seen EXCEPT !.cursor = Least(@, Less(length, 1))],
                          Least(seen.cursor, Less(length, 1)), Height, length)
    IN  IF Paths(t) = <<>> THEN [t EXCEPT !.frame = <<>>]
        ELSE [drawn EXCEPT !.frame = Window(seen.rows, drawn.offset, Height)]

EntrySelected(t, cursor) ==
    LET seen == Looked(t)
        at == Least(cursor, Less(Len(seen.rows), 1))
        entry == seen.rows[at + 1]
    IN  CASE seen.rows = <<>> -> [seen EXCEPT !.cursor = 0]
          [] seen.rows # <<>> /\ entry.index # None ->
                [seen EXCEPT !.cursor = at, !.file = entry.index - 1, !.single = TRUE]
          [] OTHER -> [seen EXCEPT !.cursor = at]
TreeNavigated(t, down, amount) ==
    LET seen == Looked(t)
        length == Len(seen.rows)
    IN  IF length = 0 THEN [seen EXCEPT !.file = 0, !.cursor = 0]
        ELSE EntrySelected(seen, IF down THEN Least(seen.cursor + amount, length - 1)
                                 ELSE Less(seen.cursor, amount))
TreeMovedToEdge(t, end) == EntrySelected(t, IF end THEN Less(Len(Looked(t).rows), 1) ELSE 0)

DirectoryToggled(t, path) ==
    LET built == Rebuilt([t EXCEPT !.collapsed = Toggled(@, path)])
    IN  [built EXCEPT !.cursor = FirstRow(built.rows, LAMBDA row : row.path = path)]

(* To the right of an open directory is the first thing in it, to the left of  *)
(* anything the nearest row above that holds it.                               *)
TreeNavigatedSideways(t, expand) ==
    LET seen == Looked(t)
        here == seen.rows[seen.cursor + 1]
        above == {r \in 1 .. seen.cursor :
                     seen.rows[r].path # None /\ seen.rows[r].depth < here.depth}
        below == seen.cursor + 2
    IN  CASE seen.cursor >= Len(seen.rows) -> seen
          [] seen.cursor < Len(seen.rows) /\ expand ->
                IF /\ here.path # None /\ here.path \notin seen.collapsed
                   /\ below \in DOMAIN seen.rows /\ seen.rows[below].depth > here.depth
                THEN EntrySelected(seen, seen.cursor + 1) ELSE seen
          [] OTHER -> IF above = {} THEN seen
                      ELSE [seen EXCEPT !.cursor = (CHOOSE r \in above : \A q \in above : q <= r) - 1]

TreeFiltered(t, query) == ScrollReset(Rebuilt([t EXCEPT !.filter = query]))

(* The index of a diff: all its files are shown, the row of the file follows. *)
IndexHeard(t, listing) ==
    LET heard == [t EXCEPT !.listing = listing, !.single = FALSE,
                           !.file = Least(@, Less(Len(Listings[listing].paths), 1))]
        built == Rebuilt(heard)
    IN  [built EXCEPT !.cursor = FirstRow(built.rows, LAMBDA row : row.index = heard.file + 1)]
(* Another diff is asked for. *)
DiffDropped(t) ==
    [t EXCEPT !.listing = 0, !.rows = <<>>, !.file = 0, !.cursor = 0, !.collapsed = {}]
-----------------------------------------------------------------------------
(* Steps of the tree *)

TreeHandled(input, t) ==
    /\ input \in left.inputs /\ left.keys > 0
    /\ left' = [left EXCEPT !.keys = @ - 1]
    /\ tree' = TreeDrawn(t)
    /\ UNCHANGED <<list, repository, bar, text>>

NavigateTree ==
    tree # None /\ \E down \in BOOLEAN, amount \in {1, Most(Less(Height, 2), 1)} :
        TreeHandled("move", TreeNavigated(tree, down, amount))
MoveTreeToEdge ==
    tree # None /\ \E end \in BOOLEAN : TreeHandled("move", TreeMovedToEdge(tree, end))
NavigateTreeSideways ==
    tree # None /\ \E expand \in BOOLEAN :
        TreeHandled("fold", TreeNavigatedSideways(tree, expand))
ToggleDirectory ==
    /\ tree # None /\ tree.cursor < Len(tree.rows)
    /\ tree.rows[tree.cursor + 1].path # None
    /\ TreeHandled("fold", DirectoryToggled(tree, tree.rows[tree.cursor + 1].path))
(* A click means what was drawn.  A directory is folded whether or not it is   *)
(* still there; a file is looked for.                                          *)
ClickTree ==
    tree # None /\ \E r \in DOMAIN tree.frame :
        LET row == tree.frame[r]
            seen == Looked(tree)
            at == {q \in DOMAIN seen.rows : seen.rows[q].index = row.index}
        IN  TreeHandled("click",
                CASE row.path # None -> DirectoryToggled(tree, row.path)
                  [] row.path = None /\ at # {} -> EntrySelected(seen, (CHOOSE q \in at : TRUE) - 1)
                  [] OTHER -> seen)
TurnTreeWheel ==
    tree # None /\ \E down \in BOOLEAN :
        TreeHandled("wheel", WheelTurned(tree, down, Less(Len(tree.rows), Height)))
FilterTree ==
    tree # None /\ tree.listing # 0
    /\ \E query \in {""} \cup DOMAIN Listings[tree.listing].named :
           query # tree.filter /\ TreeHandled("search", TreeFiltered(tree, query))
InTree == tree # None /\ UNCHANGED <<list, repository, bar, text>>
HearIndex ==
    /\ InTree /\ left.answers > 0 /\ left' = [left EXCEPT !.answers = @ - 1]
    /\ \E listing \in DOMAIN Listings : tree' = IndexHeard(tree, listing)
DropDiff == InTree /\ tree.listing # 0 /\ tree' = DiffDropped(tree) /\ UNCHANGED left
RedrawTree ==
    InTree /\ tree # TreeDrawn(tree) /\ tree' = TreeDrawn(tree) /\ UNCHANGED left

TreeSteps ==
    \/ NavigateTree \/ MoveTreeToEdge \/ NavigateTreeSideways \/ ToggleDirectory \/ ClickTree
    \/ TurnTreeWheel \/ FilterTree \/ HearIndex \/ DropDiff \/ RedrawTree

NoTree ==
    [listing |-> 0, rows |-> <<>>, cursor |-> 0, file |-> 0, single |-> FALSE, collapsed |-> {},
     filter |-> "", offset |-> 0, free |-> FALSE, last |-> None, frame |-> <<>>]

(* The rows are the files that match, each once and below its directory, but   *)
(* for those of folded directories; no directory is empty, or there only for   *)
(* the one in it; and the cursor, once drawn, is on a row.                     *)
TreeIsWhole ==
    LET rows == tree.rows
        paths == Paths(tree)
        directories == {r \in DOMAIN rows : rows[r].path # None}
        Holding(path) == {r \in directories : Inside(path, rows[r].path)}
        Folded(path) == \E r \in Holding(path) : rows[r].path \in tree.collapsed
        Nearest(r) == {d \in directories : d < r /\ rows[d].depth < rows[r].depth}
        Parent(path) == Front(path)
        Held(r, path) ==
            /\ rows[r].depth = Cardinality(Holding(path))
            /\ Nearest(r) = {} \/ (CHOOSE d \in Nearest(r) : \A e \in Nearest(r) : e <= d)
                                  \in Holding(path)
    IN  tree # None /\ rows # <<>> =>
            /\ \A i \in TreeFiles(tree) :
                 Cardinality({r \in DOMAIN rows : rows[r].index = i})
                    = IF Folded(paths[i]) THEN 0 ELSE 1
            /\ \A r \in DOMAIN rows \ directories :
                 /\ rows[r].index \in TreeFiles(tree)
                 /\ Held(r, paths[rows[r].index])
                 /\ Parent(paths[rows[r].index]) # <<>> =>
                        \E d \in directories : rows[d].path = Parent(paths[rows[r].index])
            /\ \A d \in directories :
                 /\ Held(d, rows[d].path)
                 /\ \E i \in TreeFiles(tree) : Inside(paths[i], rows[d].path)
                 /\ FilesIn(paths, TreeFiles(tree), rows[d].path) # {}
                    \/ Cardinality(DirectoriesIn(paths, TreeFiles(tree), rows[d].path)) > 1
            /\ tree = TreeDrawn(tree) => tree.cursor < Len(rows)
(* A tree without rows has nothing to show. *)
TreeIsBuilt ==
    tree # None /\ tree = TreeDrawn(tree) /\ tree.rows = <<>> => TreeFiles(tree) = {}
(* To the left is a directory that holds the row, to the right one that it holds. *)
SidewaysIsWithin ==
    LET PathAt(r) ==
            IF tree.rows[r].path # None THEN tree.rows[r].path ELSE Paths(tree)[tree.rows[r].index]
        here == tree.cursor + 1
    IN  tree # None /\ here \in DOMAIN tree.rows =>
        \A expand \in BOOLEAN :
            LET beside == TreeNavigatedSideways(tree, expand).cursor + 1
            IN  \/ beside = here /\ (expand \/ tree.rows[here].depth = 0)
                \/ expand /\ Inside(PathAt(beside), PathAt(here))
                \/ ~expand /\ Inside(PathAt(here), PathAt(beside))
(* The file of the tree is one of the diff, and with a row drawn for it the    *)
(* window follows the cursor to it.                                            *)
TreeCursorIsShown ==
    tree # None /\ tree = TreeDrawn(tree) /\ ~tree.free /\ tree.rows # <<>> =>
        /\ tree.cursor \in tree.offset .. tree.offset + Height - 1
        /\ tree.file < Len(Paths(tree))
-----------------------------------------------------------------------------
(* Scrollbars.  A track of some rows, a thumb on it, and the offsets they mean. *)

(* Mutant: places are cut off, not rounded. *)
CutOff(value, scale, total) == IF total = 0 THEN 0 ELSE (value * scale) \div total

Proportional(value, scale, total) ==
    IF total = 0 THEN 0 ELSE (value * scale + total \div 2) \div total
Clamped(value, low, high) == Most(low, Least(value, high))

(* Scrollbar::build; there is none where everything is shown. *)
Scrollbar(extent, offset, length, viewport) ==
    LET thumb == Clamped((extent * viewport) \div length, 1, extent - 1)
        max == length - viewport
    IN  IF extent < 2 \/ viewport = 0 \/ length <= viewport THEN None
        ELSE [extent |-> extent, max |-> max, thumb |-> thumb,
              start |-> Proportional(Least(offset, max), extent - thumb, max)]
OffsetAt(scrollbar, position, grab) ==
    LET travel == scrollbar.extent - scrollbar.thumb
    IN  Proportional(Least(Less(position, Least(grab, scrollbar.thumb - 1)), travel),
                     scrollbar.max, travel)
-----------------------------------------------------------------------------
(* What a pointer holds: a thumb, a divider or the end of a selected text.     *)
(* Columns count from the left of the screen, rows from the top of the list.   *)

MinSidebar == 22
MinContent == 32
MaxSidebar(b) == Most(Less(b.screen, MinContent), MinSidebar)
ContentWidth(b) == b.screen - b.width - 1
MaxContent == 2         \* rows of the content that are out of sight
MaxCells == 65535       \* a cell's coordinate has 16 bits
SideBySide(b) == ContentWidth(b) - 2 >= 72
DiffDivider(b) ==
    b.width + 2 + Least((ContentWidth(b) - 3) * b.split, MaxCells) \div 100

BarOf(b) == Scrollbar(b.rows, b.offset, b.length, b.rows)
OnBar(b, at) ==
    BarOf(b) # None /\ at.column = b.width - 2 /\ at.row \in 1 .. b.rows
InContent(b, at) == at.column \in b.width + 1 .. b.screen - 1
InSidebar(b, at) == at.column < b.width

(* The columns of the pane a text is selected in: the content, or its half. *)
Pane(b, column) ==
    CASE ~SideBySide(b) -> [from |-> b.width + 1, to |-> b.screen - 1]
      [] SideBySide(b) /\ column < DiffDivider(b) ->
            [from |-> b.width + 1, to |-> DiffDivider(b) - 1]
      [] OTHER -> [from |-> DiffDivider(b) + 1, to |-> b.screen - 1]

Resized(b, target, column) ==
    IF target = "Sidebar"
    THEN [b EXCEPT !.width = Clamped(column, MinSidebar, MaxSidebar(b))]
    ELSE [b EXCEPT !.split =
            Clamped(Least(Least(Less(column, b.width + 1), ContentWidth(b)) * 100, MaxCells)
                        \div ContentWidth(b), 20, 80)]
ResizeBegun(b, target, column) ==
    IF b.tap = target
    THEN [b EXCEPT !.resize = None, !.tap = None,
                   !.width = IF target = "Sidebar" THEN Clamped(42, MinSidebar, MaxSidebar(b))
                             ELSE @,
                   !.split = IF target = "Diff" THEN 50 ELSE @]
    ELSE Resized([b EXCEPT !.resize = target, !.tap = target], target, column)

Grabbed(b, at) ==
    LET scrollbar == BarOf(b)
        position == at.row - 1
        inThumb == position \in scrollbar.start .. scrollbar.start + scrollbar.thumb - 1
        grab == IF inThumb THEN position - scrollbar.start ELSE scrollbar.thumb \div 2
    IN  [b EXCEPT !.selection = None, !.resize = None, !.tap = None,
                  !.drag = [grab |-> grab, row |-> at.row],
                  !.offset = IF inThumb THEN @ ELSE OffsetAt(scrollbar, position, grab)]
SelectionBegun(b, at) ==
    IF InContent(b, at) /\ ~(SideBySide(b) /\ at.column = DiffDivider(b))
    THEN [b EXCEPT !.selection = [pane |-> Pane(b, at.column), anchor |-> at, head |-> at]]
    ELSE b
SelectionUpdated(b, at) ==
    IF b.selection = None THEN b
    ELSE [b EXCEPT !.selection.head =
            [column |-> Clamped(at.column, b.selection.pane.from, b.selection.pane.to),
             row |-> at.row]]

Pressed(b, at) ==
    LET free == [b EXCEPT !.drag = None, !.down = TRUE, !.burst = None]
        away == [free EXCEPT !.selection = None]
    IN  CASE b.modal -> free
          [] ~b.modal /\ OnBar(b, at) -> Grabbed(free, at)
          [] ~b.modal /\ at.column = b.width -> ResizeBegun(away, "Sidebar", at.column)
          [] ~b.modal /\ SideBySide(b) /\ at.column = DiffDivider(b) ->
                ResizeBegun(away, "Diff", at.column)
          [] OTHER -> SelectionBegun([away EXCEPT !.tap = None], at)
(* What a held thumb does; moving along the columns is no movement of it. *)
Scrolled(b, at) ==
    IF at.row = b.drag.row THEN b
    ELSE [b EXCEPT !.drag.row = at.row,
                   !.offset = OffsetAt(BarOf(b), Less(at.row, 1), b.drag.grab)]
Dragged(b, at) ==
    LET moved == [b EXCEPT !.burst = None]
    IN  CASE b.modal -> [moved EXCEPT !.drag = None]
          [] ~b.modal /\ b.drag # None -> Scrolled(moved, at)
          [] ~b.modal /\ b.drag = None /\ b.resize # None ->
                Resized([moved EXCEPT !.tap = None], b.resize, at.column)
          [] OTHER -> SelectionUpdated([moved EXCEPT !.tap = None], at)
Released(b, at) ==
    LET up == [b EXCEPT !.down = FALSE, !.burst = None]
        ended == SelectionUpdated(up, at)
    IN  CASE b.modal -> [up EXCEPT !.drag = None, !.swallowed = TRUE]
          [] ~b.modal /\ b.drag # None -> [Scrolled(up, at) EXCEPT !.drag = None]
          [] ~b.modal /\ b.drag = None /\ b.resize # None -> [up EXCEPT !.resize = None]
          [] OTHER -> IF /\ ended.selection # None
                         /\ ended.selection.anchor = ended.selection.head
                      THEN [ended EXCEPT !.selection = None] ELSE ended

(* The wheel.  Turns that follow each other go where the first one went, as    *)
(* long as that is there.                                                      *)
WheelTarget(b, at) ==
    CASE b.modal -> "Modal"
      [] ~b.modal /\ InSidebar(b, at) -> "Sidebar"
      [] ~b.modal /\ InContent(b, at) -> "Content"
      [] OTHER -> None
Wheeled(b, at, down) ==
    LET target == WheelTarget(b, at)
        burst == IF b.burst # None THEN b.burst ELSE target
        turned == [b EXCEPT !.burst = burst]
        Turn(offset, max) == IF down THEN Least(offset + 2, max) ELSE Less(offset, 2)
    IN  CASE burst = "Sidebar" /\ ~b.modal /\ b.drag = None ->
                [turned EXCEPT !.offset = Turn(@, Less(b.length, b.rows))]
          [] burst = "Content" /\ ~b.modal /\ b.drag = None ->
                [turned EXCEPT !.content = Turn(@, MaxContent)]
          [] OTHER -> turned

(* A frame: the sidebar fits the screen, the offset the list, and a thumb that *)
(* is gone is let go.                                                          *)
BarDrawn(b) ==
    LET fitted == [b EXCEPT !.width = Clamped(@, MinSidebar, MaxSidebar(b)),
                            !.offset = Least(@, Less(b.length, b.rows))]
    IN  IF b.modal \/ BarOf(fitted) = None THEN [fitted EXCEPT !.drag = None] ELSE fitted
-----------------------------------------------------------------------------
(* Steps of the pointer, and what happens to the panes meanwhile *)

BarHandled(b) ==
    /\ left.keys > 0 /\ left' = [left EXCEPT !.keys = @ - 1]
    /\ bar' = BarDrawn(b) /\ UNCHANGED <<list, repository, tree, text>>
Gauge == Gauges[left.gauge]
Points == [column : Gauge.columns, row : Gauge.rows]
(* Where something can be taken hold of. *)
Holds ==
    Points \cup [column : {bar.width - 2, bar.width} \cup
                          (IF SideBySide(bar) THEN {DiffDivider(bar)} ELSE {}),
                 row : Gauge.rows]

Press == bar # None /\ ~bar.down /\ \E at \in Holds : BarHandled(Pressed(bar, at))
Drag == bar # None /\ bar.down /\ \E at \in Points : BarHandled(Dragged(bar, at))
Release == bar # None /\ bar.down /\ \E at \in Points : BarHandled(Released(bar, at))
Wheel ==
    bar # None /\ \E at \in Points, down \in BOOLEAN : BarHandled(Wheeled(bar, at, down))
ToggleModal ==
    bar # None /\ BarHandled([bar EXCEPT !.modal = ~@, !.drag = None])
(* Neither a second tap nor another turn of the wheel comes in time. *)
WaitAWhile ==
    /\ bar # None /\ <<bar.tap, bar.burst>> # <<None, None>>
    /\ BarHandled([bar EXCEPT !.tap = None, !.burst = None])
ChangeLength ==
    bar # None /\ \E length \in Gauge.lengths \ {bar.length} :
        BarHandled([bar EXCEPT !.length = length])
ChangeScreen ==
    bar # None /\ \E screen \in Gauge.screens \ {bar.screen} :
        BarHandled([bar EXCEPT !.screen = screen])

BarSteps ==
    Press \/ Drag \/ Release \/ Wheel \/ ToggleModal \/ WaitAWhile \/ ChangeLength
    \/ ChangeScreen

NoBar(gauge) ==
    [screen |-> CHOOSE s \in gauge.screens : \A t \in gauge.screens : s <= t, rows |-> gauge.extent,
     length |-> CHOOSE n \in gauge.lengths : \A m \in gauge.lengths : n >= m,
     width |-> 42, split |-> 50, offset |-> 0, content |-> 0, drag |-> None, resize |-> None,
     tap |-> None, selection |-> None, modal |-> FALSE, burst |-> None, down |-> FALSE,
     swallowed |-> FALSE]

(* A thumb is on its track and shorter, it is at an end when the list is, it   *)
(* moves with the list, and where there is more to show than there are places  *)
(* for it, it is drawn where it is dropped.                                    *)
ThumbsAreTrue ==
    LET length == bar.length
        Thumb(offset) == Scrollbar(bar.rows, offset, length, bar.rows)
        max == length - bar.rows
        travel == bar.rows - Thumb(0).thumb
    IN  bar # None /\ BarOf(bar) # None =>
            /\ Thumb(0).thumb \in 1 .. bar.rows - 1
            /\ Thumb(0).start = 0 /\ Thumb(max).start = travel
            /\ \A offset \in 0 .. max - 1 : Thumb(offset).start <= Thumb(offset + 1).start
            /\ \A grab \in 0 .. Thumb(0).thumb - 1 :
                 /\ OffsetAt(Thumb(0), grab, grab) = 0
                 /\ OffsetAt(Thumb(0), travel + grab, grab) = max
                 /\ max >= travel => \A place \in 0 .. travel :
                        Thumb(OffsetAt(Thumb(0), place + grab, grab)).start = place

(* One thing is held at a time and nothing without the button, unless a modal  *)
(* took the release: then a divider stays held.                                *)
OneThingIsHeld ==
    bar # None =>
    /\ bar.drag # None => bar.down /\ bar.resize = None /\ bar.selection = None /\ ~bar.modal
    /\ bar.resize # None => bar.swallowed \/ (bar.down /\ bar.selection = None)
(* The panes keep their least widths, and a selected text is of one pane. *)
PanesFit ==
    bar # None =>
    /\ bar.width \in MinSidebar .. MaxSidebar(bar) /\ bar.split \in 20 .. 80
    /\ bar.screen >= MinSidebar + MinContent => ContentWidth(bar) >= MinContent - 1
    /\ SideBySide(bar) => DiffDivider(bar) \in bar.width + 2 .. bar.screen - 2
    /\ bar.selection # None =>
        {bar.selection.anchor.column, bar.selection.head.column}
            \subseteq bar.selection.pane.from .. bar.selection.pane.to
(* The divider of a diff is under the pointer that drags it, to one part in a  *)
(* hundred and its borders.                                                    *)
DividerFollows ==
    bar # None => \A at \in Points :
        LET dragged == Resized(bar, "Diff", at.column)
        IN  SideBySide(bar) /\ InContent(bar, at) /\ dragged.split \in 21 .. 79 =>
                /\ DiffDivider(dragged) <= at.column + 3
                /\ at.column <= DiffDivider(dragged) + ContentWidth(bar) \div 100 + 3
(* A thumb that is dragged stays under the pointer, where it is held. *)
ThumbFollows ==
    /\ bar # None /\ bar.drag # None /\ bar'.drag # None /\ bar'.drag.row # bar.drag.row
    /\ BarOf(bar').max >= bar'.rows - BarOf(bar').thumb
    => BarOf(bar').start =
            Least(Less(Less(bar'.drag.row, 1), Least(bar.drag.grab, BarOf(bar').thumb - 1)),
                  bar'.rows - BarOf(bar').thumb)
(* While the wheel keeps turning it moves one pane. *)
WheelStays ==
    /\ bar # None /\ bar.burst # None /\ bar'.burst = bar.burst
    => /\ bar.burst # "Content" => bar'.content = bar.content
       /\ bar.burst = "Content" /\ bar'.length = bar.length => bar'.offset = bar.offset
-----------------------------------------------------------------------------
(* A text of characters of one to four bytes, with a cursor in bytes.          *)

Size(characters) == FoldSeq(LAMBDA c, n : c.bytes + n, 0, characters)
Prefix(t, count) == SubSeq(t.value, 1, count)
(* The characters before the cursor, if it is not inside of one. *)
Boundaries(t) == {n \in 0 .. Len(t.value) : Size(Prefix(t, n)) = t.cursor}
Before(t) == IF Boundaries(t) = {} THEN <<>> ELSE Prefix(t, CHOOSE n \in Boundaries(t) : TRUE)
After(t) ==
    IF Boundaries(t) = {} THEN <<>>
    ELSE SubSeq(t.value, (CHOOSE n \in Boundaries(t) : TRUE) + 1, Len(t.value))

White(c) == c.kind \in {"space", "line"}
Word(c) == c.kind = "word"
Newline(c) == c.kind = "line"

(* How many characters a walk passes that goes on while they pass a test. *)
Passed(characters, Test(_)) ==
    LET failing == {i \in DOMAIN characters : ~Test(characters[i])}
    IN  IF failing = {} THEN Len(characters)
        ELSE (CHOOSE i \in failing : \A j \in failing : i <= j) - 1
Beyond(characters, count) == SubSeq(characters, count + 1, Len(characters))
(* Over what passes one test, then over what passes another. *)
Walk(characters, First(_), Second(_)) ==
    LET first == Passed(characters, First)
    IN  first + Passed(Beyond(characters, first), Second)

WordBack(t) == Walk(Reverse(Before(t)), White, Word)
WordAhead(t) == Walk(After(t), White, Word)
PastWord(t) == Walk(After(t), Word, White)
LineBack(t) == Passed(Reverse(Before(t)), LAMBDA c : ~Newline(c))
LineAhead(t) == Passed(After(t), LAMBDA c : ~Newline(c))

CutBack(t, count) ==
    LET kept == SubSeq(Before(t), 1, Len(Before(t)) - count)
    IN  [value |-> kept \o After(t), cursor |-> Size(kept)]
CutAhead(t, count) == [t EXCEPT !.value = Before(t) \o Beyond(After(t), count)]
MovedBack(t, count) == [t EXCEPT !.cursor = Size(SubSeq(Before(t), 1, Len(Before(t)) - count))]
MovedAhead(t, count) == [t EXCEPT !.cursor = @ + Size(SubSeq(After(t), 1, count))]
Inserted(t, characters) ==
    [value |-> Before(t) \o characters \o After(t), cursor |-> t.cursor + Size(characters)]
AtLeastOne(count, characters) == Least(Most(count, 1), Len(characters))

(* edit_text *)
Edited(t, key) ==
    CASE key = "backspace" -> CutBack(t, Least(1, Len(Before(t))))
      [] key = "delete" -> CutAhead(t, Least(1, Len(After(t))))
      [] key = "word backspace" -> CutBack(t, AtLeastOne(WordBack(t), Before(t)))
      [] key = "word delete" -> CutAhead(t, AtLeastOne(WordAhead(t), After(t)))
      [] key = "line backspace" -> CutBack(t, LineBack(t))
      [] key = "line delete" -> CutAhead(t, LineAhead(t))
      [] key = "left" -> MovedBack(t, Least(1, Len(Before(t))))
      [] key = "right" -> MovedAhead(t, Least(1, Len(After(t))))
      [] key = "word left" -> MovedBack(t, WordBack(t))
      [] key = "word right" -> MovedAhead(t, PastWord(t))
      [] key = "home" -> MovedBack(t, LineBack(t))
      [] key = "end" -> MovedAhead(t, LineAhead(t))
      [] key = "start" -> [t EXCEPT !.cursor = 0]
      [] OTHER -> [t EXCEPT !.cursor = Size(t.value)]
Keys ==
    {"backspace", "delete", "word backspace", "word delete", "line backspace", "line delete",
     "left", "right", "word left", "word right", "home", "end", "start", "last"}

Edit ==
    /\ text # None /\ left.keys > 0 /\ left' = [left EXCEPT !.keys = @ - 1]
    /\ \E key \in Keys : text' = Edited(text, key)
    /\ UNCHANGED <<list, repository, tree, bar>>
Insert ==
    /\ text # None /\ left.keys > 0 /\ left' = [left EXCEPT !.keys = @ - 1]
    /\ \E typed \in left.typed : text' = Inserted(text, typed)
    /\ UNCHANGED <<list, repository, tree, bar>>
TextSteps == Edit \/ Insert

(* The cursor is never inside a character: the code would then take the text   *)
(* before it for empty, and cutting there would panic.                         *)
CursorIsBetween == text # None => Boundaries(text) # {}
(* A key moves the cursor or changes the text at the cursor: what is left is   *)
(* what was there but for one piece that ends, or starts, at the cursor.  A    *)
(* deletion at a line's end stops there, and one of a word deletes something.  *)
EditsAreLocal ==
    text # None =>
        LET before == Before(text)
            after == After(text)
            cut == Len(text.value) - Len(text'.value)
        IN  /\ text'.cursor # text.cursor /\ cut > 0 =>
                 /\ After(text') = after /\ IsPrefix(Before(text'), before)
            /\ text'.cursor = text.cursor /\ cut > 0 =>
                 /\ Before(text') = before /\ IsSuffix(After(text'), after)
            /\ cut < 0 => /\ IsPrefix(before, Before(text')) /\ After(text') = after
            /\ cut = 0 => text'.value = text.value
WordsAreCut ==
    LET before == Before(text)
        after == After(text)
        word == CutBack(text, AtLeastOne(WordBack(text), before))
        ahead == CutAhead(text, AtLeastOne(WordAhead(text), after))
        lined == CutBack(text, LineBack(text))
        rest == CutAhead(text, LineAhead(text))
        Lines(characters) == Len(SelectSeq(characters, Newline))
    IN  text # None =>
        /\ before # <<>> => Len(word.value) < Len(text.value)
        /\ after # <<>> => Len(ahead.value) < Len(text.value)
        /\ Lines(lined.value) = Lines(text.value) /\ LineBack(lined) = 0
        /\ Lines(rest.value) = Lines(text.value) /\ LineAhead(rest) = 0
-----------------------------------------------------------------------------
Init ==
    \/ /\ list = Drawn(NoList) /\ left \in Sessions
       /\ repository = 1 /\ tree = None /\ bar = None /\ text = None
    \/ /\ tree = NoTree /\ left \in Browsings
       /\ repository = None /\ list = None /\ bar = None /\ text = None
    \/ /\ left \in {[gauge |-> g, keys |-> Gauges[g].keys] : g \in DOMAIN Gauges}
       /\ bar = BarDrawn(NoBar(Gauges[left.gauge]))
       /\ repository = None /\ list = None /\ tree = None /\ text = None
    \/ /\ left \in Fields
       /\ text = [value |-> left.value, cursor |-> Size(left.value)]
       /\ repository = None /\ list = None /\ tree = None /\ bar = None

Next == ListSteps \/ TreeSteps \/ BarSteps \/ TextSteps

Spec == Init /\ [][Next]_panesVars
-----------------------------------------------------------------------------
TypeOK ==
    /\ list # None =>
        /\ {list.view} \cup DOMAIN list.stored = {"Changes", "History"}
        /\ list.mode \in Range(Modes) /\ {list.pending, list.due, list.failed} \subseteq BOOLEAN
        /\ list.filter \in {""} \cup DOMAIN Named /\ list.collapsed \subseteq Range(Sections)
        /\ list.checked \subseteq {change.path : change \in Range(Changes(list))}
        /\ repository \in list.changesAt .. Len(Repositories)
    /\ tree # None =>
        /\ tree.listing \in 0 .. Len(Listings) /\ {tree.cursor, tree.file} \subseteq Nat
    /\ bar # None => bar.drag = None \/ bar.drag.grab \in 0 .. bar.rows
    /\ text # None => text.cursor \in 0 .. Size(text.value)
====
