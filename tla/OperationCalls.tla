---------------------------- MODULE OperationCalls ----------------------------
(***************************************************************************)
(* The operations on a pull request and on a stack, as calls of gh: the    *)
(* pull request is looked up, the operation confirmed, and its words are   *)
(* put together for gh, which has no way to ask.  What a user typed        *)
(* becomes a word among the options: gh reads a word that follows an       *)
(* option which takes a value as that value, whatever it looks like, and   *)
(* after `--` there are no options.                                        *)
(*                                                                         *)
(* What a call does is a set of facts; GitHub's own rules on who may do    *)
(* what are one refusal.  Members of lists, as labels, are one value.      *)
(***************************************************************************)
EXTENDS Naturals, Sequences, SequencesExt

CONSTANTS
    Texts,         \* what the user may type for a title, a branch, a comment
    MaxPushes,     \* bound: pushes to the pull request
    MaxCalls       \* bound: operations

VARIABLES
    request,       \* the pull request at GitHub: its head, and what was done to it
    call,          \* the operation that was asked for, and how far it is
    made           \* how many operations and pushes there were

operationVars == <<request, call, made>>

None == "none"
No   == ""

Methods  == {"Merge", "Squash", "Rebase"}
Reviews  == {"Approve", "Comment", "RequestChanges"}
Fields   == {"Title", "Body", "Base", "AddAssignee", "RemoveAssignee", "AddLabel", "RemoveLabel",
             "AddProject", "RemoveProject", "AddReviewer", "RemoveReviewer", "SetMilestone"}
Reasons  == {"OffTopic", "Resolved", "Spam", "TooHeated"}
Switches == {"SetDraft", "Subscribe", "SetMaintainerEdits"}
Plain    == {"DisableAutoMerge", "Dequeue", "Unlock", "Close", "Reopen"}

Op(kinds, choices, modes, ons, titles, texts) ==
    [kind : kinds, choice : choices, mode : modes, on : ons, title : titles, text : texts]

PullOperations ==
    Op({"Merge"}, Methods, {"Direct", "Auto", "Admin"}, BOOLEAN, {No}, {No})
    \cup Op(Switches, {None}, {None}, BOOLEAN, {No}, {No})
    \cup Op({"Review"}, Reviews, {None}, {FALSE}, {No}, Texts \cup {No})
    \cup Op({"Comment"}, {"Create", "EditLast"}, {None}, {FALSE}, {No}, Texts)
    \cup Op({"Comment"}, {"DeleteLast"}, {None}, {FALSE}, {No}, {No})
    \cup Op({"Edit"}, Fields, {None}, {FALSE}, {No}, Texts)
    \cup Op({"Edit"}, {"RemoveMilestone"}, {None}, {FALSE}, {No}, {No})
    \cup Op({"UpdateBranch"}, {"Merge", "Rebase"}, {None}, {FALSE}, {No}, {No})
    \cup Op({"Lock"}, Reasons \cup {None}, {None}, {FALSE}, {No}, {No})
    \cup Op({"Revert"}, {None}, {None}, BOOLEAN, Texts \cup {No}, Texts \cup {No})
    \cup Op(Plain, {None}, {None}, {FALSE}, {No}, {No})

(* A stack operation: flags and options in the order in which they are given, *)
(* the options as pairs of a name and a value, and positional words.          *)
StackOp(verb, flags, options, places) ==
    {[kind |-> "Stack", verb |-> verb, flags |-> f, options |-> o, places |-> p] :
        f \in flags, o \in options, p \in places}

AnyOf(words) == {SelectSeq(words, LAMBDA w : w \in s) : s \in SUBSET ToSet(words)}
Maybe(name)  == {<<>>} \cup {<<<<name, v>>>> : v \in Texts}
Word         == {<<v>> : v \in Texts}
AtMostOne    == {<<>>} \cup Word
Several      == {<<v, w>> : v, w \in Texts}

StackOperations ==
    StackOp("init", {<<>>}, Maybe("--base"), {<<>>} \cup Several)
    \cup StackOp("add", AnyOf(<<"--all", "--update">>), Maybe("--message"), Word)
    \cup StackOp("checkout", {<<>>}, {<<>>}, Word)
    \cup StackOp("modify", {<<"--abort">>, <<"--continue">>}, {<<>>}, {<<>>})
    \cup StackOp("unstack", AnyOf(<<"--local">>), {<<>>}, AtMostOne)
    \cup StackOp("link", AnyOf(<<"--open">>),
                 {b \o r : b \in Maybe("--base"), r \in Maybe("--remote")}, Several)
    \cup StackOp("merge", {<<m>> : m \in {"--merge", "--squash", "--rebase"}}, {<<>>}, AtMostOne)
    \cup StackOp("push", {<<>>}, Maybe("--remote"), {<<>>})
    \cup StackOp("rebase", AnyOf(<<"--downstack", "--upstack", "--no-trunk",
                                   "--committer-date-is-author-date">>), Maybe("--remote"), AtMostOne)
    \cup StackOp("rebase", {<<"--abort">>, <<"--continue">>}, {<<>>}, {<<>>})
    \cup StackOp("submit", AnyOf(<<"--open">>), Maybe("--remote"), {<<>>})
    \cup StackOp("sync", AnyOf(<<"--prune">>), Maybe("--remote"), {<<>>})
    \cup StackOp("bottom", {<<>>}, {<<>>}, {<<>>}) \cup StackOp("top", {<<>>}, {<<>>}, {<<>>})
    \cup StackOp("trunk", {<<>>}, {<<>>}, {<<>>})
    \cup StackOp("down", {<<>>}, {<<>>}, {<<"2">>}) \cup StackOp("up", {<<>>}, {<<>>}, {<<"2">>})
-----------------------------------------------------------------------------
(* arguments, push_option, push_positional, push_rebase_arguments *)

Unasked(verb) ==
    CASE verb = "merge" -> <<"--yes">> [] verb = "submit" -> <<"--auto">> [] OTHER -> <<>>

(* Mutant: the positional words follow without `--`. *)
PlacesAlone(op) == op.places

Places(op) ==
    IF op.places = <<>> \/ op.verb \in {"down", "up"} THEN op.places ELSE <<"--">> \o op.places

StackWords(op) ==
    <<"stack", op.verb>> \o op.flags \o Unasked(op.verb) \o FlattenSeq(op.options) \o Places(op)

(* pull_request_operation_args; append_args of an edit *)

MethodFlag == [Merge |-> "--merge", Squash |-> "--squash", Rebase |-> "--rebase"]
ModeFlags  == [Direct |-> <<>>, Auto |-> <<"--auto">>, Admin |-> <<"--admin">>]
ReviewFlag ==
    [Approve |-> "--approve", Comment |-> "--comment", RequestChanges |-> "--request-changes"]
ReasonName ==
    [OffTopic |-> "off_topic", Resolved |-> "resolved", Spam |-> "spam", TooHeated |-> "too_heated"]
EditFlag ==
    [Title |-> "--title", Body |-> "--body", Base |-> "--base", AddAssignee |-> "--add-assignee",
     RemoveAssignee |-> "--remove-assignee", AddLabel |-> "--add-label",
     RemoveLabel |-> "--remove-label", AddProject |-> "--add-project",
     RemoveProject |-> "--remove-project", AddReviewer |-> "--add-reviewer",
     RemoveReviewer |-> "--remove-reviewer", SetMilestone |-> "--milestone"]
Command ==
    [Merge |-> "merge", DisableAutoMerge |-> "merge", SetDraft |-> "ready", Review |-> "review",
     Comment |-> "comment", Edit |-> "edit", UpdateBranch |-> "update-branch", Lock |-> "lock",
     Unlock |-> "unlock", Revert |-> "revert", Close |-> "close", Reopen |-> "reopen"]

When(condition, words) == IF condition THEN words ELSE <<>>

(* pull_request_graphql_args: -f gives a text, -F a value that is typed. *)
GraphqlWords(mutation, more) ==
    <<"api", "graphql", "--hostname", "host", "-f", "id", "-f", mutation>> \o more

(* The head that was read is a set of at most one: a lookup may give none. *)
HeadOf(read) == CHOOSE h \in read : TRUE

Details(op, read) ==
    CASE op.kind = "Merge" ->
            <<MethodFlag[op.choice]>> \o ModeFlags[op.mode]
            \o When(read # {}, <<"--match-head-commit", ToString(HeadOf(read))>>)
            \o When(op.on, <<"--delete-branch">>)
      [] op.kind = "SetDraft" -> When(op.on, <<"--undo">>)
      [] op.kind = "Review" -> <<ReviewFlag[op.choice]>> \o When(op.text # No, <<"--body", op.text>>)
      [] op.kind = "Comment" /\ op.choice = "Create" -> <<"--body", op.text>>
      [] op.kind = "Comment" /\ op.choice = "EditLast" -> <<"--edit-last", "--body", op.text>>
      [] op.kind = "Comment" /\ op.choice = "DeleteLast" -> <<"--delete-last", "--yes">>
      [] op.kind = "Edit" /\ op.choice = "RemoveMilestone" -> <<"--remove-milestone">>
      [] op.kind = "Edit" /\ op.choice # "RemoveMilestone" -> <<EditFlag[op.choice], op.text>>
      [] op.kind = "UpdateBranch" -> When(op.choice = "Rebase", <<"--rebase">>)
      [] op.kind = "Lock" -> IF op.choice = None THEN <<>> ELSE <<"--reason", ReasonName[op.choice]>>
      [] op.kind = "Revert" ->
            When(op.on, <<"--draft">>) \o When(op.title # No, <<"--title", op.title>>)
            \o When(op.text # No, <<"--body", op.text>>)
      [] op.kind = "DisableAutoMerge" -> <<"--disable-auto">>
      [] OTHER -> <<>>

PullWords(op, read) ==
    CASE op.kind = "Dequeue"   -> GraphqlWords("dequeuePullRequest", <<>>)
      [] op.kind = "Subscribe" ->
            GraphqlWords("updateSubscription", <<"-f", IF op.on THEN "SUBSCRIBED" ELSE "UNSUBSCRIBED">>)
      [] op.kind = "SetMaintainerEdits" ->
            GraphqlWords("updatePullRequest", <<"-F", ToString(op.on)>>)
      [] OTHER -> <<"pr", Command[op.kind], "7", "--repo", "url">> \o Details(op, read)

Words(op, read) == IF op.kind = "Stack" THEN StackWords(op) ELSE PullWords(op, read)
-----------------------------------------------------------------------------
(* How gh and its extension read words. *)

TakesValue ==
    {"--repo", "--hostname", "--match-head-commit", "--body", "--title", "--base", "--reason",
     "--message", "--remote", "-f", "-F"} \cup {EditFlag[f] : f \in Fields}
IsOption(w) ==
    \/ w \in TakesValue \cup {"--", "--yes", "--auto", "--admin", "--delete-branch", "--undo",
                              "--edit-last", "--delete-last", "--remove-milestone", "--draft",
                              "--disable-auto", "--all", "--update", "--abort", "--continue",
                              "--local", "--open", "--downstack", "--upstack", "--no-trunk",
                              "--committer-date-is-author-date", "--prune"}
    \/ \E m \in Methods : w = MethodFlag[m]
    \/ \E r \in Reviews : w = ReviewFlag[r]

Nothing == [wants |-> None, plain |-> FALSE, flags |-> {}, options |-> <<>>, places |-> <<>>]
Understood(so, w) ==
    IF so.wants # None THEN [so EXCEPT !.options = Append(@, <<so.wants, w>>), !.wants = None]
    ELSE IF so.plain \/ ~ IsOption(w) THEN [so EXCEPT !.places = Append(@, w)]
    ELSE IF w = "--" THEN [so EXCEPT !.plain = TRUE]
    ELSE IF w \in TakesValue THEN [so EXCEPT !.wants = w]
    ELSE [so EXCEPT !.flags = @ \cup {w}]
Reading(words) == FoldLeft(Understood, Nothing, words)

Given(c, name) == {c.options[i][2] : i \in {j \in DOMAIN c.options : c.options[j][1] = name}}
OptionsBut(c, names) == SelectSeq(c.options, LAMBDA o : o[1] \notin names)
Choice(table, c) == {x \in DOMAIN table : table[x] \in c.flags}

(* What `gh pr` does. *)
PullFacts(c) ==
    LET verb == c.places[2]
        bodies == Given(c, "--body")
    IN
    CASE verb = "merge" /\ "--disable-auto" \in c.flags -> {<<"auto-merge", "off">>}
      [] verb = "merge" /\ "--disable-auto" \notin c.flags ->
            {<<"merge", m, IF "--admin" \in c.flags THEN "Admin"
                           ELSE IF "--auto" \in c.flags THEN "Auto" ELSE "Direct">> :
                m \in Choice(MethodFlag, c)}
            \cup (IF "--delete-branch" \in c.flags THEN {<<"branch", "deleted">>} ELSE {})
      [] verb = "ready"   -> {<<"draft", "--undo" \in c.flags>>}
      [] verb = "review"  -> {<<"review", r, bodies>> : r \in Choice(ReviewFlag, c)}
      [] verb = "comment" ->
            IF "--delete-last" \in c.flags THEN {<<"comment", "deleted", {}>>}
            ELSE {<<"comment", IF "--edit-last" \in c.flags THEN "edited" ELSE "new", bodies>>}
      [] verb = "edit" ->
            {<<"edit", o[1], o[2]>> : o \in ToSet(OptionsBut(c, {"--repo"}))}
            \cup (IF "--remove-milestone" \in c.flags THEN {<<"edit", "--milestone", No>>} ELSE {})
      [] verb = "update-branch" -> {<<"updated", IF "--rebase" \in c.flags THEN "Rebase" ELSE "Merge">>}
      [] verb = "lock"   -> {<<"locked", Given(c, "--reason")>>}
      [] verb = "revert" -> {<<"reverted", "--draft" \in c.flags, Given(c, "--title"), bodies>>}
      [] OTHER           -> {<<verb>>}

(* GitHub takes a Boolean only where a typed value was given. *)
GraphqlFacts(c) ==
    LET fields == OptionsBut(c, {"--hostname"}) IN
    CASE fields[2][2] = "dequeuePullRequest" -> {<<"dequeue">>}
      [] fields[2][2] = "updateSubscription" -> {<<"subscribed", fields[3][2] = "SUBSCRIBED">>}
      [] fields[2][2] = "updatePullRequest" /\ fields[3][1] = "-F" ->
            {<<"maintainer edits", fields[3][2] = "TRUE">>}
      [] OTHER -> {}

StackFacts(c) ==
    {<<"stack", c.places[2], SubSeq(c.places, 3, Len(c.places))>>}
    \cup {<<"flag", f>> : f \in c.flags}
    \cup {<<"option", o[1], o[2]>> : o \in ToSet(c.options)}

Facts(c) ==
    CASE c.places[1] = "stack" -> StackFacts(c)
      [] c.places[1] = "api"   -> GraphqlFacts(c)
      [] OTHER                 -> PullFacts(c)

Merges(facts) == \E f \in facts : f[1] = "merge"
-----------------------------------------------------------------------------
Resting == [at |-> "idle", op |-> None, read |-> {}, facts |-> {}, result |-> None]

Init ==
    /\ request = [head |-> 0, merged |-> {}, over |-> FALSE]
    /\ call = Resting
    /\ made = [calls |-> 0, pushes |-> 0]

(* The lookup may answer with what it found up to five minutes ago. *)
Ask ==
    /\ call.at = "idle"
    /\ made.calls < MaxCalls
    /\ \E op \in PullOperations \cup StackOperations,
          read \in {{}} \cup {{h} : h \in 0 .. request.head} :
          call' = [Resting EXCEPT !.at = "asked", !.op = op, !.read = read]
    /\ made' = [made EXCEPT !.calls = @ + 1]
    /\ UNCHANGED request

(* A preview, a confirmation that is not given, or an answer that was read. *)
Leave ==
    /\ call.at \in {"asked", "ended"}
    /\ call' = Resting
    /\ UNCHANGED <<request, made>>

(* A call that is refused has done nothing; one that fails may have. *)
Perform ==
    LET c == Reading(Words(call.op, call.read))
        pinned == Given(c, "--match-head-commit")
        facts  == Facts(c)
        allowed == Merges(facts) => ~ request.over /\ pinned \subseteq {ToString(request.head)}
    IN
    /\ call.at = "asked"
    /\ \/ /\ call' = [call EXCEPT !.at = "ended", !.result = "failed"]
          /\ UNCHANGED request
       \/ /\ allowed /\ facts # {}
          /\ \E result \in {"ok", "failed"} :
                call' = [call EXCEPT !.at = "ended", !.result = result, !.facts = facts]
          /\ request' = IF ~ Merges(facts) THEN request
                        ELSE [request EXCEPT !.over = TRUE,
                                             !.merged = {[head |-> request.head, read |-> call.read]}]
    /\ UNCHANGED made

Push ==
    /\ made.pushes < MaxPushes /\ ~ request.over
    /\ made' = [made EXCEPT !.pushes = @ + 1]
    /\ request' = [request EXCEPT !.head = @ + 1]
    /\ UNCHANGED call

Next == Ask \/ Leave \/ Perform \/ Push

Spec == Init /\ [][Next]_operationVars
-----------------------------------------------------------------------------
TypeOK ==
    /\ request.head \in 0 .. MaxPushes /\ request.over \in BOOLEAN
    /\ call.at \in {"idle", "asked", "ended"} /\ call.result \in {None, "ok", "failed"}
    /\ call.read \subseteq 0 .. request.head

(* What an operation means. *)
Text(t) == IF t = No THEN {} ELSE {t}
Meaning(op) ==
    CASE op.kind = "Merge" ->
            {<<"merge", op.choice, op.mode>>} \cup (IF op.on THEN {<<"branch", "deleted">>} ELSE {})
      [] op.kind = "DisableAutoMerge" -> {<<"auto-merge", "off">>}
      [] op.kind = "SetDraft"     -> {<<"draft", op.on>>}
      [] op.kind = "Subscribe"    -> {<<"subscribed", op.on>>}
      [] op.kind = "SetMaintainerEdits" -> {<<"maintainer edits", op.on>>}
      [] op.kind = "Review"       -> {<<"review", op.choice, Text(op.text)>>}
      [] op.kind = "Comment"      ->
            {<<"comment", [Create |-> "new", EditLast |-> "edited", DeleteLast |-> "deleted"][op.choice],
               Text(op.text)>>}
      [] op.kind = "Edit"         ->
            {<<"edit", IF op.choice = "RemoveMilestone" THEN "--milestone" ELSE EditFlag[op.choice],
               op.text>>}
      [] op.kind = "UpdateBranch" -> {<<"updated", op.choice>>}
      [] op.kind = "Lock"         ->
            {<<"locked", IF op.choice = None THEN {} ELSE {ReasonName[op.choice]}>>}
      [] op.kind = "Revert"       -> {<<"reverted", op.on, Text(op.title), Text(op.text)>>}
      [] op.kind = "Stack"        ->
            {<<"stack", op.verb, op.places>>}
            \cup {<<"flag", f>> : f \in ToSet(op.flags) \cup ToSet(Unasked(op.verb))}
            \cup {<<"option", o[1], o[2]>> : o \in ToSet(op.options)}
      [] OTHER -> {<<[Dequeue |-> "dequeue", Unlock |-> "unlock", Close |-> "close",
                      Reopen |-> "reopen"][op.kind]>>}

(* What gh does is what the user asked for, neither more nor less, whatever    *)
(* the texts look like; and what is reported as done was done.                 *)
CallsDoWhatWasAsked ==
    /\ call.facts # {} => call.facts = Meaning(call.op)
    /\ call.result = "ok" => call.facts # {}

(* docs/cli/pull-request/merge.md: a push that arrived after the lookup is not *)
(* merged unseen.  The code keeps that when the lookup gave a head.            *)
MergesAreOfTheReadHead == \A m \in request.merged : m.read \in {{}, {m.head}}
=============================================================================
