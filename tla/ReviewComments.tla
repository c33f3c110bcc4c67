--------------------------- MODULE ReviewComments ---------------------------
(***************************************************************************)
(* The review threads inside the diff of an opened pull request: rows that *)
(* are laid between the lines of the one file on display, the line the     *)
(* keys comment on, and what a click on a row is about.                    *)
(*                                                                         *)
(* The document, the threads, the place and the cursor change on their own *)
(* occasions: an answer of the diff, an answer of the review, a push, a    *)
(* key.  The focus is wherever a key or a click needs it, the bound on     *)
(* what is kept is not met, and a push shows the new list at once.         *)
(***************************************************************************)
EXTENDS Naturals, Sequences, SequencesExt, FiniteSets, Functions

CONSTANTS
    None,
    Diffs,         \* of each head in turn: the lines of each file's diff
    Snapshots,     \* the lists of threads a read of the review may answer
    MaxKeys,       \* bound on keys and clicks
    MaxAnswers     \* bound on reads of the review that answer

VARIABLES
    place,         \* the view and section, the file that is chosen, and how it is shown
    display,       \* the document's lines, the file it is of, and the threads by index
    kept,          \* the documents of other files
    review,        \* the threads of the snapshot
    cursor,        \* the selected anchor
    modal,         \* the form that is open, and on what it was opened
    used

vars == <<place, display, kept, review, cursor, modal, used>>

Paths   == DOMAIN Diffs[1]
Threads == UNION {ToSet(s) : s \in Snapshots}
Anchor  == [path : Paths, line : Nat, side : {"Left", "Right", "Unknown"}]

Line(kind, old, new) == [kind |-> kind, old |-> old, new |-> new, thread |-> None]
Header  == Line("FileHeader", 0, 0)
List    == [i \in 1 .. Cardinality(Paths) |-> Header]
Local   == <<Header, Line("Context", 1, 1)>>
Patch(path) == Diffs[place.head][path]

NoMarks == [i \in {} |-> None]
Plain(lines) == SelectSeq(lines, LAMBDA l : l.kind # "Review")
Count(what) == used' = [used EXCEPT ![what] = @ + 1]
-----------------------------------------------------------------------------
(* The rows of the threads. *)

(* review_document_active *)
Active(p, single) ==
    p.view = "PullRequests" /\ p.section = "Files" /\ p.mode = "Single" /\ single # None

(* review_thread_matches_line: no number matches a line without one. *)
Matches(thread, l) ==
    IF thread.file THEN l.kind = "FileHeader"
    ELSE thread.line = IF thread.side = "Left" THEN l.old ELSE l.new

(* review_thread_lines: the state and one row of each comment. *)
Rows(thread) ==
    [i \in 1 .. thread.comments + 1 |->
        [kind |-> "Review", old |-> 0, new |-> 0, thread |-> thread]]

(* decorate_pull_request_review *)
Decorated(d, p, threads) ==
    IF ~ Active(p, d.single) THEN d
    ELSE LET mine  == SelectSeq(threads, LAMBDA t : t.path = d.single)
             Under(l) == FoldLeft(LAMBDA rows, t : rows \o Rows(t), <<>>,
                                  SelectSeq(mine, LAMBDA t : Matches(t, l)))
             lines == FoldLeft(LAMBDA laid, l : Append(laid, l) \o Under(l), <<>>,
                               Plain(d.lines))
             rows  == {i \in DOMAIN lines : lines[i].kind = "Review"}
         IN  [d EXCEPT !.lines = lines, !.marks = [i \in rows |-> lines[i].thread.id]]

(* Mutant: the rows of before are left among the lines. *)
DecoratedOnce(d, p, threads) ==
    IF \E i \in DOMAIN d.lines : d.lines[i].kind = "Review" THEN d
    ELSE Decorated(d, p, threads)

(* cache_current_pull_request_single_document *)
KeptSingle ==
    IF display.single = None \/ display.single \in DOMAIN kept THEN kept
    ELSE [path \in DOMAIN kept \cup {display.single} |->
             IF path = display.single THEN Plain(display.lines) ELSE kept[path]]

(* The document of one file is put on display: set_document leaves the marks. *)
Show(path, lines, others) ==
    /\ display' = Decorated([display EXCEPT !.lines = lines, !.single = path], place', review)
    /\ kept' = others

(* show_pull_request_all_files *)
ShowAll ==
    /\ kept' = KeptSingle
    /\ display' = [display EXCEPT !.lines = List, !.single = None]
-----------------------------------------------------------------------------
(* The line that is selected. *)

(* review_anchors: of removed lines the old number, of others the new. *)
Anchors ==
    IF display.single = None THEN <<>>
    ELSE LET AnchorOf(l) ==
                 [path |-> display.single,
                  line |-> IF l.kind = "Removed" THEN l.old ELSE l.new,
                  side |-> IF l.kind = "Removed" THEN "Left" ELSE "Right"]
             lines == SelectSeq(display.lines,
                                LAMBDA l : l.kind \in {"Removed", "Added", "Context"})
         IN  SelectSeq([i \in DOMAIN lines |-> AnchorOf(lines[i])], LAMBDA a : a.line # 0)

(* move_review_cursor *)
Moved(from, step) ==
    LET at == SelectInSeq(Anchors, LAMBDA a : a = from) IN
    IF Anchors = <<>> THEN None
    ELSE IF at = 0 THEN IF step = "up" THEN Last(Anchors) ELSE Anchors[1]
    ELSE Anchors[IF step = "up" THEN IF at = 1 THEN 1 ELSE at - 1
                 ELSE IF at = Len(Anchors) THEN at ELSE at + 1]

(* ensure_review_cursor *)
Ensured == IF cursor \in ToSet(Anchors) THEN cursor ELSE Moved(None, "down")

(* selected_review_thread: the first that is anchored there. *)
Selected ==
    IF cursor = None THEN <<>>
    ELSE LET there == SelectSeq(review, LAMBDA t :
                          /\ t.path = cursor.path /\ t.side = cursor.side
                          /\ t.line # 0 /\ t.line = cursor.line)
         IN  IF there = <<>> THEN <<>> ELSE <<there[1]>>

(* review_line_selected, in the unified diff: the line is highlighted. *)
Highlighted(l) ==
    /\ cursor # None /\ display.single = cursor.path
    /\ cursor.line = IF cursor.side = "Left" THEN l.old ELSE l.new

Key ==
    /\ used.keys < MaxKeys /\ Count("keys")
    /\ modal = None
    /\ Active(place, display.single)
    /\ UNCHANGED <<place, kept, review>>

MoveCursor(step) ==
    /\ Key
    /\ cursor' = Moved(cursor, step)
    /\ UNCHANGED <<display, modal>>

(* open_review_comment, on the line that is selected or on the file. *)
OpenLineComment ==
    /\ Key
    /\ cursor' = Ensured
    /\ modal' = IF Ensured = None THEN None
                ELSE [kind |-> "line", head |-> place.head, on |-> Ensured]
    /\ UNCHANGED display

OpenFileComment ==
    /\ Key
    /\ modal' = [kind |-> "file", head |-> place.head, on |-> display.single]
    /\ UNCHANGED <<display, cursor>>

(* open_review_reply, and what x sends: Resolve or Unresolve, if the viewer may. *)
ActOnSelected(kind) ==
    /\ Key
    /\ \E t \in ToSet(Selected) :
          /\ kind \in t.may
          /\ modal' = [kind |-> kind, head |-> place.head, on |-> t]
    /\ UNCHANGED <<display, cursor>>

(* The rows that are drawn with a thread to click on. *)
Clickable == DOMAIN display.marks \cap DOMAIN display.lines

(* open_review_thread_actions *)
ClickRow(i) ==
    /\ used.keys < MaxKeys /\ Count("keys")
    /\ modal = None
    /\ \E t \in ToSet(review) :
          /\ t.id = display.marks[i]
          /\ cursor' = IF t.line = 0 THEN None
                       ELSE [path |-> t.path, line |-> t.line, side |-> t.side]
          /\ modal' = [kind |-> "thread", head |-> place.head, on |-> t,
                       row |-> display.lines[i]]
    /\ UNCHANGED <<place, display, kept, review>>

CloseModal ==
    /\ modal # None /\ modal' = None
    /\ UNCHANGED <<place, display, kept, review, cursor, used>>
-----------------------------------------------------------------------------
(* The occasions on which the document and the threads change. *)

Init ==
    /\ place = [view |-> "PullRequests", section |-> "Files", mode |-> "All", head |-> 1,
                chosen |-> None, due |-> FALSE, asked |-> None]
    /\ display = [lines |-> List, single |-> None, marks |-> NoMarks, away |-> <<>>]
    /\ kept = [path \in {} |-> <<>>]
    /\ review = <<>> /\ cursor = None /\ modal = None
    /\ used = [keys |-> 0, answers |-> 0]

(* select_pull_request_tree_entry; the preview comes a while later. *)
SelectFile(path) ==
    /\ place.view = "PullRequests" /\ place.section = "Files" /\ modal = None
    /\ path # place.chosen \/ place.mode = "All"
    /\ place' = [place EXCEPT !.chosen = path, !.mode = "Single", !.due = TRUE, !.asked = None]
    /\ UNCHANGED <<display, kept, review, cursor, modal, used>>

(* request_pull_request_diff_file, of request_preview in this mode. *)
PreviewDue ==
    /\ place.due /\ Active(place, place.chosen)
    /\ IF place.chosen \in DOMAIN kept
       THEN /\ place' = [place EXCEPT !.due = FALSE, !.asked = None]
            /\ Show(place.chosen, KeptSingle[place.chosen],
                    Restrict(KeptSingle, DOMAIN KeptSingle \ {place.chosen}))
       ELSE /\ place' = [place EXCEPT !.due = FALSE, !.asked = place.chosen]
            /\ UNCHANGED <<display, kept>>
    /\ UNCHANGED <<review, cursor, modal, used>>

(* The patch arrives, or its read fails and what was shown is kept. *)
HearFile ==
    /\ place.asked # None
    /\ place' = [place EXCEPT !.asked = None]
    /\ Show(place.asked, Patch(place.asked), KeptSingle) \/ UNCHANGED <<display, kept>>
    /\ UNCHANGED <<review, cursor, modal, used>>

(* PullRequestReview: the threads are those of the snapshot. *)
HearReview(threads) ==
    /\ used.answers < MaxAnswers /\ Count("answers")
    /\ review' = threads
    /\ display' = Decorated(display, place, threads)
    /\ UNCHANGED <<place, kept, cursor, modal>>

(* select_pull_request_section *)
ShowSection(section) ==
    /\ place.view = "PullRequests" /\ modal = None
    /\ section # place.section \/ (section = "Files" /\ place.mode = "Single")
    /\ place' = [place EXCEPT !.section = section, !.due = FALSE, !.asked = None,
                              !.mode = IF section = "Files" THEN "All" ELSE @]
    /\ IF section = "Files" THEN ShowAll ELSE UNCHANGED <<display, kept>>
    /\ UNCHANGED <<review, cursor, modal, used>>

(* switch_view: to the local changes, and back. *)
LeaveView ==
    /\ place.view = "PullRequests" /\ modal = None
    /\ place' = [place EXCEPT !.view = "Changes", !.due = FALSE, !.asked = None]
    /\ display' = [display EXCEPT !.lines = Local, !.away = display.lines]
    /\ UNCHANGED <<kept, review, cursor, modal, used>>

ReturnToView ==
    /\ place.view = "Changes" /\ modal = None
    /\ place' = [place EXCEPT !.view = "PullRequests", !.due = place.mode = "Single"]
    /\ display' = Decorated([display EXCEPT !.lines = display.away, !.away = <<>>], place', review)
    /\ UNCHANGED <<kept, review, cursor, modal, used>>

(* A poll finds another head: reset_pull_request_diff_runtime, and the list of *)
(* the new comparison.  The threads and the cursor stay.                       *)
HearHead ==
    /\ place.head < Len(Diffs)
    /\ place.view = "PullRequests" /\ place.section = "Files"
    /\ place' = [place EXCEPT !.head = @ + 1, !.mode = "All", !.due = FALSE, !.asked = None]
    /\ display' = [display EXCEPT !.lines = List, !.single = None]
    /\ kept' = [path \in {} |-> <<>>]
    /\ UNCHANGED <<review, cursor, modal, used>>

Next ==
    \/ \E step \in {"up", "down"} : MoveCursor(step)
    \/ OpenLineComment \/ OpenFileComment
    \/ \E kind \in {"reply", "resolve"} : ActOnSelected(kind)
    \/ \E i \in Clickable : ClickRow(i)
    \/ CloseModal
    \/ \E path \in Paths : SelectFile(path)
    \/ PreviewDue \/ HearFile
    \/ \E threads \in Snapshots : HearReview(threads)
    \/ \E section \in {"Overview", "Files"} : ShowSection(section)
    \/ LeaveView \/ ReturnToView \/ HearHead

Spec == Init /\ [][Next]_vars
-----------------------------------------------------------------------------
TypeOK ==
    /\ place \in [view : {"PullRequests", "Changes"}, section : {"Overview", "Files"},
                  mode : {"All", "Single"}, head : DOMAIN Diffs, chosen : Paths \cup {None},
                  due : BOOLEAN, asked : Paths \cup {None}]
    /\ display.single \in Paths \cup {None}
    /\ DOMAIN kept \subseteq Paths /\ review \in Snapshots \cup {<<>>}
    /\ cursor \in Anchor \cup {None}

(* Between the lines of the file on display are the threads of the snapshot   *)
(* that are anchored there, each as it is now and below its line, and nothing *)
(* else; and exactly their rows are marked, each with its own thread.         *)
RowsAreTheThreads ==
    Active(place, display.single) =>
        LET rows == {i \in DOMAIN display.lines : display.lines[i].kind = "Review"}
            mine == {t \in ToSet(review) : t.path = display.single}
        IN  /\ Plain(display.lines) = Patch(display.single)
            /\ DOMAIN display.marks = rows
            /\ \A i \in rows :
                  LET t == display.lines[i].thread
                      above == {j \in 1 .. i : j \notin rows}
                  IN  /\ t \in mine /\ display.marks[i] = t.id
                      /\ Matches(t, display.lines[CHOOSE j \in above : \A k \in above : k <= j])
            /\ \A t \in mine :
                  Cardinality({i \in rows : display.lines[i].thread = t}) =
                      (t.comments + 1) *
                      Cardinality({i \in DOMAIN display.lines \ rows : Matches(t, display.lines[i])})

(* What is kept of a file is its patch, without the rows that were in it. *)
KeptAreBare == \A path \in DOMAIN kept : kept[path] = Patch(path)

(* A comment is written on a line of the diff that was on display, and that is *)
(* the line that is highlighted there.                                         *)
CommentsAreOnTheDiff ==
    modal # None /\ modal.kind = "line" =>
        /\ modal.on = cursor
        /\ \E i \in DOMAIN Diffs[modal.head][modal.on.path] :
              LET l == Diffs[modal.head][modal.on.path][i] IN
              /\ l.kind \in IF modal.on.side = "Left" THEN {"Removed"} ELSE {"Added", "Context"}
              /\ modal.on.line = IF modal.on.side = "Left" THEN l.old ELSE l.new
              /\ modal.head = place.head /\ display.single = modal.on.path => Highlighted(l)

(* A click on the row of a thread is about that thread. *)
ClicksOpenTheirThread ==
    modal # None /\ modal.kind = "thread" /\ modal.row.kind = "Review" =>
        modal.row.thread.id = modal.on.id
=============================================================================
