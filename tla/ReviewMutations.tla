--------------------------- MODULE ReviewMutations ---------------------------
(***************************************************************************)
(* The review of a pull request at GitHub, read and changed by processes   *)
(* of the same viewer: the interface and commands.  An operation that adds *)
(* to the review or submits it reads all of its threads page by page,      *)
(* refuses a pending review on another head than the one it read, starts   *)
(* one when there is none, and then makes its change.  Nothing is locked:  *)
(* the calls of two processes, a push and others' comments interleave.     *)
(*                                                                         *)
(* GitHub keeps one pending review of a viewer, numbers its threads in the *)
(* order in which they are listed, and goes on after the thread a page     *)
(* ended with whether or not that one is still there.                      *)
(***************************************************************************)
EXTENDS Naturals, FiniteSets, FiniteSetsExt

CONSTANTS
    Sessions,      \* the processes
    PageSize,      \* the threads of a page
    MaxShown,      \* MAX_REVIEW_THREADS
    MaxComments,   \* MAX_REVIEW_COMMENTS_PER_THREAD
    MaxHead,       \* the largest bound on pushes
    ReviewBounds   \* the threads at first, which operations there are, and bounds on them, on
                   \* pushes, on others' threads and on calls that fail

VARIABLES
    pull,          \* the pull request at GitHub
    sessions,      \* what each process is doing
    tally          \* the bounds, and how much of each was used

reviewVars == <<pull, sessions, tally>>

NoHead   == MaxHead + 1    \* the commit of a review whose commit is gone
NoReview == 0
May(what)  == tally[what] < tally.bounds[what]
Count(what) == tally' = [tally EXCEPT ![what] = @ + 1]

Ids(set) == {x.id : x \in set}
Lowest(n, set) == {x \in set : Cardinality({y \in set : y.id < x.id}) < n}

Begins   == {"Show", "AddThread", "Reply", "Submit", "Discard"}
Directly == {"UpdateComment", "DeleteComment", "Resolve", "Unresolve"}

Idle == [at |-> "idle", kind |-> "none", target |-> 0, head |-> NoHead, pending |-> {},
         cursor |-> 0, threads |-> {}, truncated |-> FALSE, there |-> {}, floor |-> NoHead]

Init ==
    /\ \E b \in ReviewBounds :
          /\ tally = [bounds |-> b, operations |-> 0, pushes |-> 0, others |-> 0, failures |-> 0]
          /\ pull = [head |-> 0, pending |-> {},
                     threads |-> {[id |-> t, resolved |-> FALSE] : t \in 1 .. b.threads},
                     comments |-> {[id |-> b.threads + t, thread |-> t, review |-> NoReview,
                                    read |-> NoHead, edited |-> FALSE] : t \in 1 .. b.threads},
                     submitted |-> {}, next |-> 2 * b.threads + 1]
    /\ sessions = [s \in Sessions |-> Idle]

At(s, label) == sessions[s].at = label

(* The threads that have been there since a read began. *)
Noticed(next, p) == [s \in Sessions |-> [next[s] EXCEPT !.there = @ \cap Ids(p.threads)]]
Step(s, me, p) ==
    /\ pull' = p
    /\ sessions' = Noticed([sessions EXCEPT ![s] = me], p)
-----------------------------------------------------------------------------
(* pull_request_review: the first page tells the head and the viewer's pending *)
(* review, every page adds its threads, up to the bound.                       *)

Start(s, kind, target) ==
    /\ At(s, "idle")
    /\ kind \in tally.bounds.kinds
    /\ May("operations") /\ Count("operations")
    /\ Step(s, [Idle EXCEPT !.at = IF kind \in Begins THEN "read" ELSE "change", !.kind = kind,
                            !.target = target, !.there = Ids(pull.threads), !.floor = pull.head],
            pull)

CommentsOf(t) == {c \in pull.comments : c.thread = t}

(* A thread as it is listed: how many comments it has, and how many of them. *)
Listed(t) ==
    LET n == Cardinality(CommentsOf(t)) IN
    [id |-> t, total |-> n, shown |-> Min({n, MaxComments})]

WithPage(me, page) ==
    [me EXCEPT !.threads = @ \cup {Listed(t.id) : t \in page},
               !.truncated = @ \/ \E t \in page : Listed(t.id).shown < Listed(t.id).total,
               !.cursor = IF page = {} THEN @ ELSE Max(Ids(page))]

Opened(me) ==
    IF me.head # NoHead THEN me ELSE [me EXCEPT !.head = pull.head, !.pending = pull.pending]

(* ensure_current_pending_review *)
Current(me) == \A p \in me.pending : p.commit = NoHead \/ p.commit = me.head

(* Mutant: a pending review is taken whatever head it is on. *)
ReadOnAnyHead(me) ==
    CASE me.kind = "Show"                                 -> [me EXCEPT !.at = "shown"]
      [] me.kind = "Discard" /\ me.pending = {}            -> Idle
      [] me.kind \in {"AddThread", "Reply"} /\ me.pending = {} -> [me EXCEPT !.at = "create"]
      [] OTHER                                            -> [me EXCEPT !.at = "change"]

(* What an operation does once all is read. *)
Read(me) ==
    CASE me.kind = "Show"                                 -> [me EXCEPT !.at = "shown"]
      [] me.kind = "Discard" /\ me.pending = {}            -> Idle
      [] me.kind \notin {"Show", "Discard"} /\ ~ Current(me) -> Idle
      [] me.kind \in {"AddThread", "Reply"} /\ me.pending = {} -> [me EXCEPT !.at = "create"]
      [] OTHER                                            -> [me EXCEPT !.at = "change"]

(* A page; GitHub may keep the cursor to itself. *)
Page(s) ==
    /\ At(s, "read")
    /\ LET me   == Opened(sessions[s])
           rest == {t \in pull.threads : t.id > me.cursor}
           page == Lowest(Min({PageSize, MaxShown - Cardinality(me.threads)}), rest)
           next == WithPage(me, page)
       IN  \/ /\ Cardinality(next.threads) >= MaxShown
              /\ Step(s, Read([next EXCEPT !.truncated = TRUE]), pull)
              /\ UNCHANGED tally
           \/ /\ Cardinality(next.threads) < MaxShown
              /\ Step(s, IF page = rest THEN Read(next) ELSE next, pull)
              /\ UNCHANGED tally
           \/ /\ Cardinality(next.threads) < MaxShown /\ page # rest
              /\ Count("failures") /\ May("failures")
              /\ Step(s, Read([next EXCEPT !.truncated = TRUE]), pull)

(* The reader of a snapshot is done with it. *)
Close(s) ==
    /\ At(s, "shown")
    /\ Step(s, Idle, pull)
    /\ UNCHANGED tally
-----------------------------------------------------------------------------
(* The changes, as GitHub makes them; it refuses those of what is not there. *)

(* create_pending_review: on the head that was read. *)
Created(me) ==
    IF pull.pending # {} THEN {}
    ELSE {[pull EXCEPT !.pending = {[id |-> pull.next, commit |-> me.head]}, !.next = @ + 1]}

Chosen(me) == {p \in pull.pending : p.id \in Ids(me.pending)}

Comment(me, id, thread, p) ==
    [id |-> id, thread |-> thread, review |-> p.id, read |-> me.head, edited |-> FALSE]

Added(me) ==
    {[pull EXCEPT !.threads = @ \cup {[id |-> pull.next, resolved |-> FALSE]},
                  !.comments = @ \cup {Comment(me, pull.next + 1, pull.next, p)},
                  !.next = @ + 2] : p \in Chosen(me)}
Replied(me) ==
    {[pull EXCEPT !.comments = @ \cup {Comment(me, pull.next, me.target, p)}, !.next = @ + 1] :
        p \in {q \in Chosen(me) : me.target \in Ids(pull.threads)}}

(* A verdict is given with the pending review, or by a review of its own. *)
Submitted(me) ==
    {[pull EXCEPT !.pending = {}, !.next = @ + 1,
                  !.submitted = @ \cup {[id |-> p.id, commit |-> p.commit, read |-> me.head]}] :
        p \in IF me.pending # {} THEN Chosen(me)
              ELSE IF pull.pending # {} THEN {} ELSE {[id |-> pull.next, commit |-> me.head]}}

(* A thread goes with its last comment. *)
WithComments(comments) ==
    [pull EXCEPT !.comments = comments,
                 !.threads = {t \in @ : \E c \in comments : c.thread = t.id}]

Discarded(me) ==
    {[WithComments({c \in pull.comments : c.review # p.id}) EXCEPT !.pending = {}] :
        p \in Chosen(me)}
Deleted(me) ==
    {WithComments(pull.comments \ {c}) : c \in {d \in pull.comments : d.id = me.target}}
Updated(me) ==
    {[pull EXCEPT !.comments = (@ \ {c}) \cup {[c EXCEPT !.edited = TRUE]}] :
        c \in {d \in pull.comments : d.id = me.target}}
Resolved(me, resolved) ==
    {[pull EXCEPT !.threads = (@ \ {t}) \cup {[t EXCEPT !.resolved = resolved]}] :
        t \in {u \in pull.threads : u.id = me.target}}

Changed(me) ==
    CASE me.kind = "AddThread"     -> Added(me)
      [] me.kind = "Reply"         -> Replied(me)
      [] me.kind = "Submit"        -> Submitted(me)
      [] me.kind = "Discard"       -> Discarded(me)
      [] me.kind = "UpdateComment" -> Updated(me)
      [] me.kind = "DeleteComment" -> Deleted(me)
      [] me.kind = "Resolve"       -> Resolved(me, TRUE)
      [] me.kind = "Unresolve"     -> Resolved(me, FALSE)

(* graphql_value: the answer is the new state, an error of GitHub's, or lost   *)
(* on its way, when the change may have been made all the same.                *)
Result(me, p) == [me |-> me, pull |-> p]
Call(s, results) ==
    \/ \E r \in results : Step(s, r.me, r.pull)  /\ UNCHANGED tally
    \/ results = {} /\ Step(s, Idle, pull)       /\ UNCHANGED tally
    \/ /\ May("failures") /\ Count("failures")
       /\ \E p \in {r.pull : r \in results} \cup {pull} : Step(s, Idle, p)

Create(s) ==
    /\ At(s, "create")
    /\ Call(s, {Result([sessions[s] EXCEPT !.at = "change", !.pending = p.pending], p) :
                   p \in Created(sessions[s])})

(* A change of which nothing is to be read comes first and last. *)
Change(s) ==
    /\ At(s, "change")
    /\ Call(s, {Result(Idle, p) : p \in Changed(sessions[s])})
-----------------------------------------------------------------------------
(* What others do: the author pushes, which may take the commit of a pending  *)
(* review away; someone comments or answers.                                  *)

Others(p) == pull' = p /\ sessions' = Noticed(sessions, p)

Push ==
    /\ pull.head < MaxHead /\ May("pushes") /\ Count("pushes")
    /\ \E lost \in BOOLEAN :
          Others([pull EXCEPT !.head = @ + 1,
                              !.pending = {[p EXCEPT !.commit = IF lost THEN NoHead ELSE @] : p \in @}])

OtherComments ==
    /\ May("others") /\ Count("others")
    /\ \E t \in Ids(pull.threads) \cup {pull.next} :
          Others([pull EXCEPT
              !.threads = @ \cup (IF t = pull.next THEN {[id |-> t, resolved |-> FALSE]} ELSE {}),
              !.comments = @ \cup {[id |-> pull.next + 1, thread |-> t, review |-> NoReview,
                                    read |-> NoHead, edited |-> FALSE]},
              !.next = @ + 2])

Next ==
    \/ \E s \in Sessions :
          \/ \E kind \in {"Show", "AddThread", "Submit", "Discard"} : Start(s, kind, 0)
          \/ \E t \in Ids(pull.threads), kind \in {"Reply", "Resolve", "Unresolve"} : Start(s, kind, t)
          \/ \E c \in Ids(pull.comments), kind \in {"UpdateComment", "DeleteComment"} : Start(s, kind, c)
          \/ Page(s) \/ Close(s) \/ Create(s) \/ Change(s)
    \/ Push \/ OtherComments

Spec == Init /\ [][Next]_reviewVars
-----------------------------------------------------------------------------
TypeOK ==
    /\ pull.head \in 0 .. MaxHead
    /\ pull.pending \subseteq [id : Nat, commit : 0 .. NoHead]
    /\ pull.threads \subseteq [id : Nat, resolved : BOOLEAN]
    /\ \A s \in Sessions :
          /\ sessions[s].at \in {"idle", "read", "shown", "create", "change"}
          /\ sessions[s].kind \in Begins \cup Directly \cup {"none"}
          /\ sessions[s].head \in 0 .. NoHead

(* A comment and a verdict are of the head that the operation read after it    *)
(* was asked for, or of a review whose commit is gone: what was started on an  *)
(* older head is neither added to nor submitted, whoever started it and        *)
(* whatever is pushed between the calls.                                       *)
FeedbackIsOfTheHead ==
    /\ \A s \in Sessions : ~ At(s, "idle") /\ sessions[s].head # NoHead =>
          sessions[s].head \in sessions[s].floor .. pull.head
    /\ \A r \in pull.submitted : r.commit \in {r.read, NoHead}
    /\ \A c \in pull.comments, p \in pull.pending : c.review = p.id => p.commit \in {c.read, NoHead}

(* A review that is read has every thread that was there all the while, with   *)
(* every comment it had then, or says that it is cut off.                      *)
ReviewsAreWhole ==
    \A s \in Sessions : At(s, "shown") /\ ~ sessions[s].truncated =>
        /\ sessions[s].there \subseteq Ids(sessions[s].threads)
        /\ \A t \in sessions[s].threads : t.shown = t.total

(* Whatever fails between two calls, a viewer's comments are either published  *)
(* or in the one pending review, which the next operation finds.               *)
NoCommentIsStranded ==
    \A c \in pull.comments :
        c.review \in {NoReview} \cup Ids(pull.pending) \cup Ids(pull.submitted)
=============================================================================
