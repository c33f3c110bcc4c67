---------------------------- MODULE CommandVerbs ----------------------------
(***************************************************************************)
(* One invocation of a command-line verb (cli/): the verb's plan of steps, *)
(* run in order by one process.  A step reads, resolves a name, asks for   *)
(* --yes, changes something or prints; it may end the invocation with an   *)
(* exit code, and with a hint when the code names something not found.     *)
(*                                                                         *)
(* Each plan is the body of the verb's function.  What a step reads is     *)
(* chosen when it runs, so nothing is assumed about two reads of one run.  *)
(* Texts, colours and layouts are left out; a document is counted.         *)
(***************************************************************************)
EXTENDS Naturals, Sequences, FiniteSets

CONSTANTS
  Listings,   \* the lists of GitHub repositories the remotes may resolve to
  Tails,      \* of a repository: the names its URL ends with
  Names,      \* what --repo may be given
  MaxFrames   \* bound: frames a watch prints
None == "none"

VARIABLES
  call,       \* the parsed command line
  at,         \* the step of the plan that is next
  spinner,    \* the progress bar on stderr is drawn
  printed,    \* documents written to stdout
  target,     \* the repository of the pull request that was looked up
  listing,    \* the states of the checks that were read
  changed,    \* what was changed, and where
  ended       \* how the process ended

vars == <<call, at, spinner, printed, target, listing, changed, ended>>

-----------------------------------------------------------------------------
(* The verbs and what they accept.                                         *)

PlainReads == {"log", "show", "repos", "diff", "worktree list", "account list"}
SearchVerbs == {"search changes", "search history", "search pull request"}
BranchVerbs == {"branch list", "branch switch", "branch create", "branch create from",
                "branch rename", "branch delete", "branch compare"}
StashVerbs == {"stash list", "stash push", "stash apply", "stash pop", "stash drop",
               "stash clear", "stash show"}
Changes == {"stage", "unstage", "discard", "remove", "remove all", "commit", "fetch", "pull",
            "push", "sync", "cherry-pick", "revert", "resolve", "account switch"}
PullRequestReads == {"pr view", "pr files", "pr commits", "pr diff", "pr conversation",
                     "pr checks", "pr logs", "pr open", "pr open check"}
PullRequestChanges ==
  {"pr merge", "pr admin-merge", "pr auto-merge", "pr disable-auto-merge", "pr dequeue",
   "pr ready", "pr draft", "pr review", "pr comment", "pr edit-last-comment",
   "pr delete-last-comment", "pr edit", "pr update-branch", "pr lock", "pr unlock",
   "pr subscribe", "pr unsubscribe", "pr allow-maintainer-edits",
   "pr disallow-maintainer-edits", "pr revert", "pr close", "pr reopen"}
ReviewVerbs == {"reviews show", "reviews comment", "reviews reply", "reviews edit",
                "reviews delete", "reviews submit", "reviews discard", "reviews resolve",
                "reviews unresolve"}
StackReads == {"stack view", "stack files", "stack diff"}
StackChanges == {"stack init", "stack add", "stack checkout", "stack modify", "stack unstack",
                 "stack link", "stack merge", "stack push", "stack rebase", "stack submit",
                 "stack sync", "stack bottom", "stack down", "stack top", "stack trunk",
                 "stack up"}
Verbs == {"status"} \cup PlainReads \cup SearchVerbs \cup BranchVerbs \cup StashVerbs \cup Changes
           \cup PullRequestReads \cup PullRequestChanges \cup ReviewVerbs \cup StackReads
           \cup StackChanges

(* The verbs that have a --yes. *)
AsksFirst == {"discard", "remove", "remove all", "branch delete", "stash drop", "stash clear",
              "cherry-pick", "revert", "reviews delete", "reviews discard"}
                \cup PullRequestChanges \cup StackChanges

Watchable == {"status", "pr view", "pr conversation", "pr checks", "pr logs"}
TakesCommit == {"pr files", "pr diff", "pr checks", "pr logs"}
TakesPath == {"pr diff", "stack diff"}
TakesText == {"reviews comment", "reviews reply", "reviews edit", "reviews submit", "pr edit"}

(* What clap lets through: a flag only where the verb has it, and never    *)
(* --exit-code with --watch.                                               *)
Calls ==
  {c \in [verb : Verbs, yes : BOOLEAN, watch : BOOLEAN, exitCode : BOOLEAN, commit : BOOLEAN,
          path : BOOLEAN, repo : Names \cup {None}, refresh : BOOLEAN] :
     /\ c.yes => c.verb \in AsksFirst
     /\ c.watch => c.verb \in Watchable
     /\ c.exitCode => c.verb = "pr checks" /\ ~c.watch
     /\ c.commit => c.verb \in TakesCommit
     /\ c.path => c.verb \in TakesPath
     /\ (c.repo # None \/ c.refresh) =>
          c.verb \in PullRequestReads \cup PullRequestChanges \cup ReviewVerbs \cup StackReads}

-----------------------------------------------------------------------------
(* The plans.                                                              *)

If(condition, steps) == IF condition THEN steps ELSE <<>>

SelectionPlan(c) ==
  CASE c.verb = "discard" -> <<"changes", "confirm", "operate">>
    [] c.verb = "remove" -> <<"confirm", "operate">>
    [] c.verb = "remove all" -> <<"changes", "confirm", "operate">>
    [] c.verb = "diff" -> <<"changes", "read", "emit">>
    [] c.verb \in {"cherry-pick", "revert"} -> <<"resolve", "confirm", "operate">>
    [] OTHER -> <<"operate">>

ReadingPlan(c) ==
  CASE c.verb = "log" -> <<"resolve", "read", "emit">>
    [] c.verb = "show" -> <<"resolve", "read", "find commit", "read", "emit">>
    [] OTHER -> <<"read", "emit">>

SearchPlan(c) ==
  CASE c.verb = "search changes" -> <<"read", "read", "emit">>
    [] c.verb = "search history" -> <<"resolve", "read", "emit">>
    [] OTHER -> <<"text", "lookup", "read", "read", "emit">>

BranchPlan(c) ==
  CASE c.verb = "branch list" -> <<"read", "emit">>
    [] c.verb = "branch create from" -> <<"resolve", "operate">>
    [] c.verb = "branch delete" -> <<"confirm", "operate">>
    [] c.verb = "branch compare" -> <<"read", "find", "read", "read", "emit">>
    [] OTHER -> <<"operate">>

StashPlan(c) ==
  CASE c.verb = "stash list" -> <<"read", "emit">>
    [] c.verb = "stash drop" -> <<"confirm", "operate">>
    [] c.verb = "stash clear" -> If(~c.yes, <<"read">>) \o <<"confirm", "operate">>
    [] c.verb = "stash show" -> <<"read", "find", "read", "emit">>
    [] OTHER -> <<"operate">>

PullRequestPlan(c) ==
  LET commit == If(c.commit, <<"select commit">>)
  IN  CASE c.verb \in {"pr view"} -> <<"lookup", "emit">>
        [] c.verb = "pr files" -> <<"lookup">> \o commit \o <<"read", "emit">>
        [] c.verb = "pr commits" -> <<"lookup", "read", "emit">>
        [] c.verb = "pr diff" ->
             <<"lookup">> \o commit \o <<"read">> \o If(c.path, <<"find">>) \o <<"read", "emit">>
        [] c.verb = "pr conversation" -> <<"lookup", "read", "emit">>
        [] c.verb = "pr checks" -> <<"lookup">> \o commit \o <<"list checks", "emit">>
        [] c.verb = "pr logs" ->
             <<"lookup">> \o commit \o <<"list checks", "select check">>
               \o If(c.watch, <<"list checks", "select check">>) \o <<"read log", "emit">>
        [] c.verb = "pr open" -> <<"lookup", "open", "emit">>
        [] OTHER -> <<"lookup", "list checks", "select check", "has link", "open", "emit">>

MutatePlan(c) == If(c.verb = "pr edit", <<"text">>) \o <<"lookup", "confirm", "operate">>

ReviewPlan(c) ==
  CASE c.verb = "reviews show" -> <<"lookup", "read", "emit">>
    [] c.verb \in {"reviews delete", "reviews discard"} -> <<"confirm", "lookup", "operate">>
    [] c.verb \in TakesText -> <<"text", "lookup", "operate">>
    [] OTHER -> <<"lookup", "operate">>

StackPlan(c) ==
  CASE c.verb = "stack view" -> <<"lookup", "read", "emit">>
    [] c.verb = "stack files" -> <<"lookup", "read", "find stack", "read", "emit">>
    [] c.verb = "stack diff" ->
         <<"lookup", "read", "find stack", "read">> \o If(c.path, <<"find">>) \o <<"read", "emit">>
    [] OTHER -> <<"confirm", "operate">>

Plan(c) ==
  CASE c.verb = "status" -> <<"read", "emit">>
    [] c.verb \in Changes \cup {"diff"} -> SelectionPlan(c)
    [] c.verb \in SearchVerbs -> SearchPlan(c)
    [] c.verb \in BranchVerbs -> BranchPlan(c)
    [] c.verb \in StashVerbs -> StashPlan(c)
    [] c.verb \in PullRequestReads -> PullRequestPlan(c)
    [] c.verb \in PullRequestChanges -> MutatePlan(c)
    [] c.verb \in ReviewVerbs -> ReviewPlan(c)
    [] c.verb \in StackReads \cup StackChanges -> StackPlan(c)
    [] OTHER -> ReadingPlan(c)

(* Where a watch begins its next frame: each reading of checks and logs    *)
(* keeps the pull request and the check that were found at the start.      *)
FrameStart(c) ==
  IF c.verb = "pr checks" THEN Len(Plan(c)) - 1
  ELSE IF c.verb = "pr logs" THEN Len(Plan(c)) - 3 ELSE 1

(* Verb::progress_label: on a terminal, every verb but a watch waits under *)
(* a spinner.                                                              *)
Progresses(c) == ~c.watch

-----------------------------------------------------------------------------
Running == ~ended.over
Ended(code, hint, verdict) == [over |-> TRUE, code |-> code, hint |-> hint, verdict |-> verdict]

Init ==
  /\ call \in Calls
  /\ at = 1
  /\ spinner = Progresses(call)
  /\ printed = 0 /\ target = None /\ listing = {} /\ changed = {}
  /\ ended = [over |-> FALSE, code |-> 0, hint |-> FALSE, verdict |-> FALSE]

Step(name) == Running /\ Plan(call)[at] = name
Go(n) == at' = n /\ ended' = ended /\ spinner' = spinner
Advance == Go(at + 1)

(* dispatch clears the spinner before report writes the error.             *)
Exit(code, hint) ==
  /\ ended' = Ended(code, hint, FALSE)
  /\ spinner' = FALSE
  /\ at' = at
Fail(code, hint) == Exit(code, hint) /\ UNCHANGED <<call, printed, target, listing, changed>>

(* A message answers instead of the rest of the plan; a reader that went   *)
(* away is no failure.                                                     *)
Say ==
  \E heard \in {0, 1} :
    /\ printed' = printed + heard
    /\ Exit(0, FALSE)
    /\ UNCHANGED <<call, target, listing, changed>>

Read ==
  /\ Step("read")
  /\ \/ Advance /\ UNCHANGED <<call, printed, target, listing, changed>>
     \/ Fail(1, FALSE)

(* review_body, PrEditArgs::edit and --pr of a search. *)
Text ==
  /\ Step("text")
  /\ \/ Advance /\ UNCHANGED <<call, printed, target, listing, changed>>
     \/ Fail(1, FALSE)

Resolve ==
  /\ Step("resolve")
  /\ \/ Advance /\ UNCHANGED <<call, printed, target, listing, changed>>
     \/ Fail(3, TRUE)

(* A branch, a stash or a path among what was read.                        *)
Find ==
  /\ Step("find")
  /\ \/ Advance /\ UNCHANGED <<call, printed, target, listing, changed>>
     \/ Fail(3, TRUE)

FindCommit ==
  /\ Step("find commit")
  /\ \/ Advance /\ UNCHANGED <<call, printed, target, listing, changed>>
     \/ Fail(3, FALSE)

(* The stack of the pull request, then the range within it.                *)
FindStack ==
  /\ Step("find stack")
  /\ \/ Advance /\ UNCHANGED <<call, printed, target, listing, changed>>
     \/ Fail(3, FALSE)
     \/ Fail(1, FALSE)

(* The hash has seven hexadecimal characters or more and begins exactly    *)
(* one commit.                                                             *)
SelectCommit ==
  /\ Step("select commit")
  /\ \/ Advance /\ UNCHANGED <<call, printed, target, listing, changed>>
     \/ Fail(1, FALSE)

SelectedChanges ==
  /\ Step("changes")
  /\ \/ Advance /\ UNCHANGED <<call, printed, target, listing, changed>>
     \/ Say
     \/ Fail(1, FALSE)

(* Mutant: nothing is asked. *)
ConfirmNothing ==
  Step("confirm") /\ Advance /\ UNCHANGED <<call, printed, target, listing, changed>>

Confirm ==
  /\ Step("confirm")
  /\ IF call.yes THEN Advance /\ UNCHANGED <<call, printed, target, listing, changed>>
                 ELSE Say

(* lookup_snapshot: with --repo the remotes are read from the cache and    *)
(* the first that matches is selected; pull_request_lookup reads them      *)
(* again for --refresh, and falls back to the first of them.               *)
Matches(repository, name) == repository = name \/ name \in Tails[repository]
FirstMatch(known, name) ==
  LET those == {i \in DOMAIN known : Matches(known[i], name)}
  IN  IF those = {} THEN None ELSE known[CHOOSE i \in those : \A j \in those : i <= j]
Selected(repositories, wanted) ==
  IF \E i \in DOMAIN repositories : repositories[i] = wanted THEN wanted ELSE repositories[1]
LookUp ==
  /\ Step("lookup")
  /\ \/ Fail(1, FALSE)
     \/ \E known \in IF call.repo = None THEN {<<>>} ELSE Listings :
          LET wanted == IF call.repo = None THEN None ELSE FirstMatch(known, call.repo)
              refresh == call.refresh \/ (call.watch /\ FrameStart(call) = 1)
          IN  IF call.repo # None /\ wanted = None
              THEN Fail(3, TRUE)
              ELSE \E now \in IF known = <<>> \/ refresh THEN Listings ELSE {known} :
                     IF now = <<>> THEN Fail(1, FALSE)
                     ELSE /\ target' = Selected(now, wanted)
                          /\ Advance
                          /\ UNCHANGED <<call, printed, listing, changed>>

ListChecks ==
  /\ Step("list checks")
  /\ \/ \E read \in SUBSET {"passed", "pending", "failed"} :
          /\ listing' = read
          /\ Advance
          /\ UNCHANGED <<call, printed, target, changed>>
     \/ Fail(1, FALSE)

(* select_check: the exact name, else the only name that contains it; from *)
(* here on listing is the state of that check.                             *)
SelectCheck ==
  /\ Step("select check")
  /\ \/ \E one \in listing :
          /\ listing' = {one}
          /\ Advance
          /\ UNCHANGED <<call, printed, target, changed>>
     \/ Fail(3, TRUE)

(* CheckRunLog and ensure_log_available. *)
ReadLog ==
  /\ Step("read log")
  /\ \/ Advance /\ UNCHANGED <<call, printed, target, listing, changed>>
     \/ Fail(1, FALSE)
     \/ Fail(4, FALSE)

HasLink ==
  /\ Step("has link")
  /\ \/ Advance /\ UNCHANGED <<call, printed, target, listing, changed>>
     \/ Fail(4, FALSE)

(* Over SSH the address is only printed. *)
Open ==
  /\ Step("open")
  /\ \/ Advance /\ UNCHANGED <<call, printed, target, listing, changed>>
     \/ Fail(1, FALSE)

(* The repository's operation, then its message.  One that fails may have  *)
(* done a part of its work.                                                *)
Operate ==
  /\ Step("operate")
  /\ \/ \E heard \in {0, 1} :
          /\ changed' = {[verb |-> call.verb, repository |-> target]}
          /\ printed' = printed + heard
          /\ Exit(0, FALSE)
          /\ UNCHANGED <<call, target, listing>>
     \/ \E part \in {{}, {[verb |-> call.verb, repository |-> target]}} :
          /\ changed' = part
          /\ Exit(1, FALSE)
          /\ UNCHANGED <<call, printed, target, listing>>

(* exit_for. *)
ExitFor(read) == IF read \cap {"failed", "pending"} = {} THEN 0 ELSE 1

Emit ==
  /\ Step("emit") /\ ~call.watch
  /\ \/ /\ printed' = printed + 1
        /\ ended' = Ended(IF call.exitCode THEN ExitFor(listing) ELSE 0, FALSE, call.exitCode)
     \/ /\ printed' = printed
        /\ ended' = Ended(0, FALSE, FALSE)
  /\ spinner' = FALSE
  /\ UNCHANGED <<call, at, target, listing, changed>>

(* watch::run: a frame ends the watch when the verb says so, with the      *)
(* verb's code; otherwise the next frame is read after the interval.       *)
Finished ==
  \/ call.verb = "pr checks" /\ listing # {} /\ "pending" \notin listing
  \/ call.verb = "pr logs" /\ listing # {"pending"}
FrameCode == IF call.verb = "pr logs" THEN IF listing = {"failed"} THEN 1 ELSE 0
                                      ELSE ExitFor(listing)
Frame ==
  /\ Step("emit") /\ call.watch
  /\ \/ /\ printed' = printed + 1
        /\ IF Finished
           THEN /\ ended' = Ended(FrameCode, FALSE, TRUE)
                /\ UNCHANGED <<at, listing>>
           ELSE /\ printed < MaxFrames
                /\ at' = FrameStart(call) /\ listing' = {} /\ ended' = ended
     \/ /\ ended' = Ended(0, FALSE, FALSE)
        /\ UNCHANGED <<printed, at, listing>>
  /\ UNCHANGED <<call, spinner, target, changed>>

Next ==
  \/ Read \/ Text \/ Resolve \/ Find \/ FindCommit \/ FindStack \/ SelectCommit
  \/ SelectedChanges \/ Confirm \/ LookUp \/ ListChecks \/ SelectCheck \/ ReadLog \/ HasLink
  \/ Open \/ Operate \/ Emit \/ Frame

Spec == Init /\ [][Next]_vars

-----------------------------------------------------------------------------
TypeOK ==
  /\ call \in Calls
  /\ at \in 1..Len(Plan(call))
  /\ spinner \in BOOLEAN /\ printed \in 0..(MaxFrames + 1)
  /\ listing \subseteq {"passed", "pending", "failed"}
  /\ Cardinality(changed) <= 1
  /\ ended \in [over : BOOLEAN, code : {0, 1, 3, 4}, hint : BOOLEAN, verdict : BOOLEAN]

(* A verb that has a --yes changes nothing without it (docs/cli/           *)
(* conventions.md:193-196 and docs/cli/stack/README.md).                   *)
UnconfirmedChangesNothing == call.verb \in AsksFirst /\ ~call.yes => changed = {}

(* stdout of a verb that is not watched holds one document or nothing, and *)
(* nothing when it failed, unless the code is the verdict of --exit-code   *)
(* (docs/cli/conventions.md:103-107); a reader that went away is the only  *)
(* reason to succeed without a document.                                   *)
FailuresAreSilent ==
  ~call.watch =>
    /\ printed <= 1
    /\ ~Running /\ ended.code # 0 /\ ~ended.verdict => printed = 0
    /\ printed = 1 => ~Running

(* A watch of checks or of a log ends by itself only on a frame that is    *)
(* settled and printed, with its verdict (docs/cli/pull-request/           *)
(* checks.md:84-96, logs.md:149-153).                                      *)
WatchesEndOnAVerdict ==
  call.watch /\ ended.verdict =>
    /\ printed >= 1 /\ listing # {} /\ "pending" \notin listing
    /\ ended.code = (IF "failed" \in listing THEN 1 ELSE 0)

(* The spinner is gone before the first document, and the frames of a     *)
(* watch are never drawn under one (docs/cli/conventions.md:96-101).       *)
NothingIsPrintedUnderASpinner == printed > 0 => ~spinner

(* With --repo the pull request that is shown or changed belongs to the    *)
(* repository of that name (docs/cli/pull-request/README.md:177).          *)
NamedRepositoryIsUsed == target # None /\ call.repo # None => target = call.repo

(* A not-found code always carries a hint (docs/cli/conventions.md:134).   *)
NotFoundCarriesAHint == ended.code = 3 => ended.hint
=============================================================================
