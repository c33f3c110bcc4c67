-------------------------- MODULE PullRequestReads --------------------------
(***************************************************************************)
(* An opened pull request that is in no stack, as the interface follows    *)
(* it: the lookup, the checks of its head or of one of its commits, the    *)
(* log of the check under the cursor, the conversation and the review.     *)
(* Each has a generation of its own and is read by its own lane.           *)
(*                                                                         *)
(* GitHub is a list of jobs for each pull request and for one commit of    *)
(* it, sorted by name, so that a job may appear before another; a version  *)
(* of the conversation and one of the review.  A behaviour follows some of *)
(* the streams and leaves the requests of the others out.                  *)
(***************************************************************************)
EXTENDS ServedLanes, FiniteSets

CONSTANTS
    Numbers,       \* the pull requests that may be opened
    Scripts,       \* the streams a behaviour follows, and bounds on its keys, its polls
                   \* and deliveries, the changes at GitHub and the reads that fail
    MaxChanges,    \* the largest bound on changes, of keys and changes together
    MaxWarm,       \* how many logs are warmed for one pull request
    Wrap           \* bound: how many generations there are

VARIABLES
    github,        \* the heads, the lists of jobs, which ended, the versions
    lookup,        \* the read of the pull request itself
    pull,          \* the pull request on display
    page,          \* the section, and whether a commit of it is inspected
    checks,        \* the list of checks and the cursor in it
    log,           \* the log of the check under the cursor
    talk,          \* the conversation
    review,        \* the review threads
    used           \* the script and the bounds so far, and the
                   \* conversation as it was when a poll asked for it last

panes  == <<lookup, pull, page, checks, log, talk, review>>
others == <<github, panes, used>>
vars   == <<lane, others>>

Streams == {"checks", "log", "talk", "review"}
KindOf ==
    [checks |-> "LoadPullRequestChecks", log |-> "LoadCheckRunLog",
     talk |-> "LoadPullRequestConversation", review |-> "LoadPullRequestReview",
     operation |-> "OperatePullRequestReview", lookup |-> "LookupPullRequest"]

(* A subject of checks: a pull request's head, or the commit of it. *)
Subject == [number : Numbers, commit : BOOLEAN]
Nobody  == 0
NoPull  == [number |-> Nobody, head |-> 0]
Job(subject, n) == [of |-> subject, n |-> n]
NoJob   == Job([number |-> Nobody, commit |-> FALSE], 0)
Jobs    == {Job(s, n) : s \in Subject, n \in 0 .. MaxChanges}
Check   == [job : Jobs, ended : BOOLEAN]
Lists   == Seq(Check)
Nothing == [of |-> Nobody, at |-> 0]
Version == [of : Numbers, at : 0 .. MaxChanges]

Command ==
    [kind : {KindOf[s] : s \in DOMAIN KindOf}, generation : 0 .. Wrap - 1, number : Numbers,
     commit : BOOLEAN, job : Jobs \cup {NoJob}]
Event ==
    [command : Command, ok : BOOLEAN, list : Lists, head : 0 .. MaxChanges,
     whole : BOOLEAN, seen : Version \cup {Nothing}, made : 0 .. MaxChanges]

Following(g) == (g + 1) % Wrap
Count(what) == used' = [used EXCEPT ![what] = @ + 1]
Followed(s) == s \in used.script.follows
May(what) == used[what] < used.script[what]
-----------------------------------------------------------------------------
(* The streams, each with what resets it and what asks for it; p is the pull *)
(* request that is selected.                                                 *)

(* clear_pr_commit_checks, and the part of reset_pull_request_runtime. *)
ClearChecks(c) ==
    [loading |-> FALSE, generation |-> Following(c.generation), list |-> <<>>, cursor |-> 0,
     warmed |-> {}, of |-> [number |-> Nobody, commit |-> FALSE]]

AskChecks(c, p, refresh) ==
    IF ~ Followed("checks") \/ c.loading \/ (~ refresh /\ c.list # <<>>) \/ p = NoPull
    THEN c ELSE [c EXCEPT !.loading = TRUE, !.generation = Following(@)]

Selected(c) == IF c.cursor = 0 THEN [job |-> NoJob, ended |-> FALSE] ELSE c.list[c.cursor]
Running(c)  == c.cursor # 0 /\ ~ c.list[c.cursor].ended

(* invalidate_check_run_log *)
NoLog(l) ==
    [target |-> NoJob, loading |-> FALSE, generation |-> Following(l.generation),
     held |-> "none", whole |-> FALSE]

(* set_check_cursor *)
AtCursor(c, l, cursor) == IF c.cursor = cursor THEN l ELSE NoLog(l)

(* A log that is held for the selected run is read again only on refresh.    *)
AskLog(c, l, refresh) ==
    LET job == Selected(c).job IN
    IF ~ Followed("log") THEN l
    ELSE IF job = NoJob THEN NoLog(l)
    ELSE IF l.target = job /\ (l.loading \/ (l.held # "none" /\ ~ refresh)) THEN l
    ELSE [(IF l.target = job THEN l ELSE NoLog(l)) EXCEPT
            !.target = job, !.loading = TRUE, !.generation = Following(l.generation)]

(* Mutant: a refresh that finds the stream loading is forgotten. *)
AskTalkOnce(t, p, refresh) ==
    IF ~ Followed("talk") \/ t.loading \/ (~ refresh /\ t.shows # Nothing) \/ p = NoPull
    THEN t ELSE [t EXCEPT !.loading = TRUE, !.generation = Following(@)]

NoTalk(t) ==
    [loading |-> FALSE, again |-> FALSE, generation |-> Following(t.generation),
     shows |-> Nothing]

AskTalk(t, p, refresh) ==
    IF ~ Followed("talk") THEN t
    ELSE IF t.loading THEN [t EXCEPT !.again = @ \/ refresh]
    ELSE IF (~ refresh /\ t.shows # Nothing) \/ p = NoPull THEN t
    ELSE [t EXCEPT !.loading = TRUE, !.generation = Following(@)]

NoReview(r) ==
    [loading |-> FALSE, mutating |-> FALSE, generation |-> Following(r.generation),
     shows |-> Nothing, said |-> 0]

AskReview(r, p, refresh) ==
    IF ~ Followed("review") \/ r.loading \/ (~ refresh /\ r.shows # Nothing) \/ p = NoPull
    THEN r
    ELSE [r EXCEPT !.loading = TRUE, !.mutating = FALSE, !.generation = Following(@)]

LookUp(l) == [loading |-> TRUE, generation |-> Following(l.generation)]

(* The command of a stream that was asked for something. *)
Asked(before, after, kind, number, commit, job) ==
    IF ~ after.loading \/ before.generation = after.generation THEN <<>>
    ELSE <<[kind |-> kind, generation |-> after.generation, number |-> number,
            commit |-> commit, job |-> job]>>

ChecksEffects(p, g) ==
    Asked(checks, checks', KindOf.checks, p.number, g.commit, NoJob)
LogEffects(p)    == Asked(log, log', KindOf.log, p.number, FALSE, Selected(checks').job)
TalkEffects(t, p) == Asked(t, talk', KindOf.talk, p.number, FALSE, NoJob)
ReviewEffects(p) == Asked(review, review', KindOf.review, p.number, FALSE, NoJob)
LookupEffects(n) == Asked(lookup, lookup', KindOf.lookup, n, FALSE, NoJob)
-----------------------------------------------------------------------------
(* A pull request was just opened by its number. *)

Init ==
    /\ github =
         [heads |-> [n \in Numbers |-> 0],
          jobs |-> [s \in Subject |-> <<Job(s, 0)>>],
          ended |-> {Job(s, 0) : s \in {t \in Subject : t.commit}},
          talk |-> [n \in Numbers |-> 0], review |-> [n \in Numbers |-> 0]]
    /\ \E script \in Scripts :
          used = [script |-> script, keys |-> 0, polls |-> 0, changes |-> 0, failures |-> 0,
                  asked |-> Nothing]
    /\ lookup = [loading |-> TRUE, generation |-> 1]
    /\ pull = NoPull
    /\ page = [section |-> "Overview", commit |-> FALSE]
    /\ checks = ClearChecks([generation |-> 0])
    /\ log = NoLog([generation |-> 0])
    /\ talk = NoTalk([generation |-> 0])
    /\ review = NoReview([generation |-> 0])
    /\ \E n \in Numbers :
          InitLane(<<[kind |-> KindOf.lookup, generation |-> 1, number |-> n, commit |-> FALSE,
                      job |-> NoJob]>>)

(* GitHub, external.  A run ends, a job appears in front of the others, a head *)
(* is pushed with jobs of its own, someone writes.                             *)
Head0(n) == [number |-> n, commit |-> FALSE]
Fresh(n) == Job(Head0(n), used.changes + 1)
OutsideChange ==
    /\ May("changes") /\ Count("changes")
    /\ \E n \in Numbers :
         \/ /\ Followed("checks")
            /\ \/ \E i \in DOMAIN github.jobs[Head0(n)] :
                     /\ github.jobs[Head0(n)][i] \notin github.ended
                     /\ github' = [github EXCEPT !.ended = @ \cup {github.jobs[Head0(n)][i]}]
               \/ github' = [github EXCEPT !.jobs[Head0(n)] = <<Fresh(n)>> \o @]
               \/ github' = [github EXCEPT !.heads[n] = @ + 1, !.jobs[Head0(n)] = <<Fresh(n)>>]
         \/ Followed("talk") /\ github' = [github EXCEPT !.talk[n] = @ + 1]
         \/ Followed("review") /\ github' = [github EXCEPT !.review[n] = @ + 1]
    /\ UNCHANGED <<lane, panes>>
-----------------------------------------------------------------------------
(* The clock and the listener. *)

(* refresh_pull_request_live: what is due by its own floor; a delivery makes  *)
(* everything due.  The threads of a commit's pull request are left alone.    *)
Poll(due) ==
    /\ pull # NoPull
    /\ May("polls")
    /\ used' = [used EXCEPT !.polls = @ + 1,
                            !.asked = IF "detail" \in due /\ ~ page.commit
                                      THEN [of |-> pull.number, at |-> github.talk[pull.number]]
                                      ELSE @]
    /\ checks' = IF "checks" \in due THEN AskChecks(checks, pull, TRUE) ELSE checks
    /\ lookup' = IF "detail" \in due /\ ~ lookup.loading THEN LookUp(lookup) ELSE lookup
    /\ talk' = IF "detail" \in due /\ ~ page.commit THEN AskTalk(talk, pull, TRUE) ELSE talk
    /\ review' = IF "detail" \in due /\ ~ page.commit THEN AskReview(review, pull, TRUE) ELSE review
    /\ log' = IF "log" \in due /\ Running(checks) THEN AskLog(checks, log, TRUE) ELSE log
    /\ Handle(ChecksEffects(pull, page) \o LookupEffects(pull.number) \o TalkEffects(talk, pull)
              \o ReviewEffects(pull) \o LogEffects(pull))
    /\ UNCHANGED <<github, pull, page>>

(* request_preview in the overview, a while after the cursor was moved. *)
Preview ==
    /\ page.section = "Overview" /\ pull # NoPull
    /\ log' = AskLog(checks, log, FALSE)
    /\ log' # log
    /\ Handle(Asked(log, log', KindOf.log, pull.number, FALSE, Selected(checks).job))
    /\ UNCHANGED <<github, lookup, pull, page, checks, talk, review, used>>
-----------------------------------------------------------------------------
(* The user. *)

Press == May("keys") /\ Count("keys") /\ UNCHANGED github

(* reset_pull_request_runtime *)
Reset ==
    /\ page' = [section |-> "Overview", commit |-> FALSE]
    /\ log' = NoLog(log)
    /\ checks' = ClearChecks(checks)
    /\ talk' = NoTalk(talk)
    /\ review' = NoReview(review)

Open(n) ==
    /\ Press
    /\ lookup' = LookUp(lookup)
    /\ pull' = NoPull
    /\ Reset
    /\ Handle(LookupEffects(n))

(* A click reads the log at once, a key leaves it to the preview. *)
SelectCheck(i, clicked) ==
    /\ Press
    /\ page.section = "Overview" /\ i \in 0 .. Len(checks.list)
    /\ checks' = [checks EXCEPT !.cursor = i]
    /\ LET l == AtCursor(checks, log, i) IN
          log' = IF clicked /\ checks.cursor # i THEN AskLog(checks', l, FALSE) ELSE l
    /\ Handle(LogEffects(pull))
    /\ UNCHANGED <<lookup, pull, page, talk, review>>

ShowOverview ==
    /\ Press
    /\ page.section # "Overview"
    /\ page' = [page EXCEPT !.section = "Overview"]
    /\ checks' = AskChecks(checks, pull, FALSE)
    /\ talk' = IF page.commit THEN talk ELSE AskTalk(talk, pull, FALSE)
    /\ review' = AskReview(review, pull, FALSE)
    /\ log' = AskLog(checks, log, FALSE)
    /\ Handle(ChecksEffects(pull, page) \o TalkEffects(talk, pull) \o ReviewEffects(pull)
              \o LogEffects(pull))
    /\ UNCHANGED <<lookup, pull>>

ShowFiles ==
    /\ Press
    /\ page.section # "Files"
    /\ page' = [page EXCEPT !.section = "Files"]
    /\ review' = AskReview(review, pull, FALSE)
    /\ Handle(ReviewEffects(pull))
    /\ UNCHANGED <<lookup, pull, checks, log, talk>>

(* inspect_pr_commit: one of the commits, or the pull request again.  *)
InspectCommit(commit) ==
    /\ Press
    /\ pull # NoPull
    /\ page' = [section |-> "Files", commit |-> commit]
    /\ checks' = AskChecks(ClearChecks(checks), pull, TRUE)
    /\ log' = NoLog(log)
    /\ Handle(ChecksEffects(pull, page'))
    /\ UNCHANGED <<lookup, pull, talk, review>>

(* queue_pull_request_review_operation *)
OperateReview ==
    /\ Press
    /\ Followed("review") /\ ~ review.loading /\ pull # NoPull
    /\ review' = [review EXCEPT !.loading = TRUE, !.mutating = TRUE,
                                !.generation = Following(@)]
    /\ Handle(Asked(review, review', KindOf.operation, pull.number, FALSE, NoJob))
    /\ UNCHANGED <<lookup, pull, page, checks, log, talk>>
-----------------------------------------------------------------------------
(* The threads.  The checks are asked for by number or by commit, and listed  *)
(* as they are when the answer is given.                                      *)

Listing(c) ==
    LET jobs == github.jobs[[number |-> c.number, commit |-> c.commit]] IN
    [i \in DOMAIN jobs |-> [job |-> jobs[i], ended |-> jobs[i] \in github.ended]]

Talk(c)   == [of |-> c.number, at |-> github.talk[c.number]]
Review(c) == [of |-> c.number, at |-> github.review[c.number]]

AnswerOf(c, ok, seen, made) ==
    [command |-> c, ok |-> ok, list |-> IF c.kind = KindOf.checks THEN Listing(c) ELSE <<>>,
     head |-> github.heads[c.number],
     whole |-> c.job \in github.ended, seen |-> seen, made |-> made]

Fails(b) == b => May("failures")

AnswerRead(l) ==
    LET c == executing[l] IN
    /\ c # NoCommand /\ c.kind # KindOf.operation
    /\ \E failed \in BOOLEAN :
          /\ Fails(failed)
          /\ Answer(l, AnswerOf(c, ~ failed, CASE c.kind = KindOf.talk   -> Talk(c)
                                                [] c.kind = KindOf.review -> Review(c)
                                                [] OTHER                  -> Nothing, 0))
          /\ used' = [used EXCEPT !.failures = @ + (IF failed THEN 1 ELSE 0)]
    /\ UNCHANGED <<github, panes>>

(* The threads as they are read behind the operation. *)
ReadBehind(n) == github'.review[n]

(* The operation, and the read of the threads behind it: the one answer is a *)
(* failure when either fails.                                                *)
AnswerOperation(l) ==
    LET c == executing[l]
        n == c.number IN
    /\ c # NoCommand /\ c.kind = KindOf.operation
    /\ \E failed \in {"none", "operation", "read"} :
          /\ Fails(failed # "none")
          /\ github' = IF failed = "operation" THEN github ELSE [github EXCEPT !.review[n] = @ + 1]
          /\ Answer(l, AnswerOf(c, failed = "none", [of |-> n, at |-> ReadBehind(n)],
                                github'.review[n]))
          /\ used' = [used EXCEPT !.failures = @ + (IF failed = "none" THEN 0 ELSE 1)]
    /\ UNCHANGED panes
-----------------------------------------------------------------------------
(* The interface hears the oldest answer. *)

Stream(kind) ==
    CASE kind = KindOf.checks -> checks [] kind = KindOf.log -> log
      [] kind = KindOf.talk -> talk [] kind = KindOf.lookup -> lookup
      [] OTHER -> review

Current(c) == c.generation = Stream(c.kind).generation

Hears(kinds) ==
    /\ answers # <<>>
    /\ Head(answers).command.kind \in kinds
    /\ Current(Head(answers).command)
    /\ UNCHANGED <<github, used>>

Ignore ==
    /\ answers # <<>>
    /\ ~ Current(Head(answers).command)
    /\ HandleAnswer(<<>>)
    /\ UNCHANGED others

(* Another pull request starts afresh; a new head or base of the same one     *)
(* closes the commit that is inspected, and keeps what is shown otherwise.    *)
HearLookup ==
    /\ Hears({KindOf.lookup})
    /\ LET a == Head(answers)
           seen == [number |-> a.command.number, head |-> a.head]
           same == pull.number = seen.number
           moved == same /\ pull.head # seen.head
           left == moved /\ page.commit
           c == IF ~ same \/ left THEN ClearChecks(checks) ELSE checks
           t == IF same THEN talk ELSE NoTalk(talk) IN
          IF ~ a.ok
          THEN HandleAnswer(<<>>) /\ UNCHANGED <<pull, page, checks, log, talk, review>>
          ELSE /\ pull' = seen
               /\ page' = [section |-> IF same THEN page.section ELSE "Overview",
                           commit |-> same /\ ~ moved /\ page.commit]
               /\ checks' = AskChecks(c, seen, TRUE)
               /\ log' = IF ~ same \/ left THEN NoLog(log) ELSE log
               /\ talk' = AskTalk(t, seen, TRUE)
               /\ review' = IF same THEN review ELSE NoReview(review)
               /\ HandleAnswer(ChecksEffects(seen, page') \o TalkEffects(t, seen))
    /\ lookup' = [lookup EXCEPT !.loading = FALSE]

(* The finished runs whose logs are not warm yet, up to a limit. *)
Warmed(c) ==
    LET cold == SelectSeq(c.list, LAMBDA k : k.ended /\ k.job \notin c.warmed)
        room == MaxWarm - Cardinality(c.warmed) IN
    c.warmed \cup {cold[i].job : i \in {j \in DOMAIN cold : j <= room}}

(* Where a check is in a list, 0 when it left it. *)
Position(list, job) ==
    IF \E i \in DOMAIN list : list[i].job = job
    THEN CHOOSE i \in DOMAIN list : list[i].job = job ELSE 0

(* The log of a run that was shown as running is read once more. *)
FollowedUp(c, l) == IF Running(checks) THEN AskLog(c, l, TRUE) ELSE l

(* The cursor stays on its check, wherever that is now. *)
HearChecks ==
    /\ Hears({KindOf.checks})
    /\ LET a == Head(answers)
           at == Position(a.list, Selected(checks).job)
           listed == [checks EXCEPT
                        !.loading = FALSE, !.list = a.list, !.cursor = at,
                        !.of = [number |-> a.command.number, commit |-> a.command.commit]]
           c == [listed EXCEPT !.warmed = Warmed(listed)] IN
          IF a.ok
          THEN /\ checks' = c
               /\ log' = FollowedUp(c, AtCursor(checks, log, at))
               /\ HandleAnswer(LogEffects(pull))
          ELSE /\ checks' = [checks EXCEPT !.loading = FALSE]
               /\ HandleAnswer(<<>>)
               /\ UNCHANGED log
    /\ UNCHANGED <<lookup, pull, page, talk, review>>

(* A failed read takes the log away. *)
HearLog ==
    /\ Hears({KindOf.log})
    /\ LET a == Head(answers) IN
          log' = [log EXCEPT !.loading = FALSE, !.held = IF a.ok THEN "log" ELSE "error",
                             !.whole = a.ok /\ a.whole]
    /\ HandleAnswer(<<>>)
    /\ UNCHANGED <<lookup, pull, page, checks, talk, review>>

HearTalk ==
    /\ Hears({KindOf.talk})
    /\ LET a == Head(answers)
           t == [talk EXCEPT !.loading = FALSE, !.again = FALSE,
                             !.shows = IF a.ok THEN a.seen ELSE @] IN
          /\ talk' = IF talk.again THEN AskTalk(t, pull, TRUE) ELSE t
          /\ HandleAnswer(TalkEffects(t, pull))
    /\ UNCHANGED <<lookup, pull, page, checks, log, review>>

HearReview ==
    /\ Hears({KindOf.review, KindOf.operation})
    /\ LET a == Head(answers) IN
          review' = [review EXCEPT !.loading = FALSE, !.mutating = FALSE,
                                   !.shows = IF a.ok THEN a.seen ELSE @,
                                   !.said = IF a.ok /\ review.mutating THEN a.made ELSE @]
    /\ HandleAnswer(<<>>)
    /\ UNCHANGED <<lookup, pull, page, checks, log, talk>>
-----------------------------------------------------------------------------
User ==
    \/ \E n \in Numbers : Open(n)
    \/ \E i \in 0 .. MaxChanges + 1, clicked \in BOOLEAN : SelectCheck(i, clicked)
    \/ ShowOverview \/ ShowFiles \/ OperateReview
    \/ \E commit \in BOOLEAN : InspectCommit(commit)

Hear   == Ignore \/ HearLookup \/ HearChecks \/ HearLog \/ HearTalk \/ HearReview
Thread == \E l \in Lanes : AnswerRead(l) \/ AnswerOperation(l)

Next ==
    \/ OutsideChange \/ Preview \/ User
    \/ \E due \in SUBSET {"checks", "detail", "log"} : Poll(due)
    \/ Serve /\ UNCHANGED others
    \/ Thread \/ Hear
-----------------------------------------------------------------------------
TypeOK ==
    /\ LaneTypeOK(Command, Event)
    /\ lookup \in [loading : BOOLEAN, generation : 0 .. Wrap - 1]
    /\ pull \in [number : Numbers, head : 0 .. MaxChanges] \cup {NoPull}
    /\ page \in [section : {"Overview", "Files"}, commit : BOOLEAN]
    /\ checks.list \in Lists /\ checks.cursor \in 0 .. Len(checks.list)
    /\ Cardinality(checks.warmed) <= MaxWarm
    /\ log \in [target : Jobs \cup {NoJob}, loading : BOOLEAN, generation : 0 .. Wrap - 1,
                held : {"none", "log", "error"}, whole : BOOLEAN]
    /\ talk \in [loading : BOOLEAN, again : BOOLEAN, generation : 0 .. Wrap - 1,
                 shows : Version \cup {Nothing}]
    /\ review \in [loading : BOOLEAN, mutating : BOOLEAN, generation : 0 .. Wrap - 1,
                   shows : Version \cup {Nothing}, said : Nat]

Owed(kinds, generation) ==
    \E c \in OnItsWay : c.kind \in kinds /\ c.generation = generation

(* Whatever says that it is loading is owed the answer that its handler will  *)
(* take, however the polls, the user and the answers interleave; and a        *)
(* refresh of the conversation is put off only while a read of it runs.       *)
LoadingIsOwed ==
    /\ lookup.loading => Owed({KindOf.lookup}, lookup.generation)
    /\ checks.loading => Owed({KindOf.checks}, checks.generation)
    /\ log.loading => Owed({KindOf.log}, log.generation)
    /\ talk.again => talk.loading
    /\ talk.loading => Owed({KindOf.talk}, talk.generation)
    /\ review.loading => Owed({IF review.mutating THEN KindOf.operation ELSE KindOf.review},
                              review.generation)

(* What is shown is shown of the pull request, or the commit of it, that is   *)
(* selected, and the log is that of the check under the cursor.               *)
ShownIsOfTheSelected ==
    /\ checks.list # <<>> => checks.of = [number |-> pull.number, commit |-> page.commit]
    /\ log.target # NoJob => log.target = Selected(checks).job
    /\ talk.shows.of \in {Nobody, pull.number}
    /\ review.shows.of \in {Nobody, pull.number}

(* The log of a check that is shown as finished was read after it finished,   *)
(* or is being read: checks and logs are answered in the order they were      *)
(* read in.                                                                   *)
FinishedLogsAreWhole ==
    Selected(checks).ended /\ log.held = "log" => log.whole \/ log.loading

(* A poll or a delivery is never absorbed by a read that began before it: a    *)
(* conversation at rest is at least as new as when it was asked for last.     *)
QuietTalkIsFresh ==
    Followed("talk") /\ ~ talk.loading /\ used.failures = 0 /\ used.asked.of = pull.number
    => talk.shows.at >= used.asked.at

(* Threads that are said to be updated are shown with the update. *)
UpdatedReviewsAreShown == review.said <= review.shows.at
=============================================================================
