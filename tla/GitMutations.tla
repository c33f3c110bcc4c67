---------------------------- MODULE GitMutations ----------------------------
(***************************************************************************)
(* The local mutations: each is one call of Git or a few, one after        *)
(* another, on a HEAD, an index and a working tree that editors and other  *)
(* processes change as well.  A call does all that it is asked for or      *)
(* nothing, and may fail.  An operation ends at the first call that fails  *)
(* and leaves what was done before as it is.                               *)
(*                                                                         *)
(* A file is the version it has in each place.  Commits that are fetched   *)
(* touch other files; stashes, cherry-picks and reverts are single calls   *)
(* and left out, as are signatures, hooks and the stack's operations.      *)
(***************************************************************************)
EXTENDS Naturals

CONSTANTS
    Paths,          \* the files
    Names,          \* names of branches that are valid
    Starts          \* the files' versions at first, with a script: which operations there are,
                    \* whether there is a commit, and bounds on operations, on what others do
                    \* and on calls that fail

VARIABLES
    tree,           \* the version of each file in HEAD, in the index and in the working tree
    branch,         \* the branches, and how the current one stands to its remote
    run,            \* the operation, and how it ended
    spent           \* the script, and how much of each bound was used

gitVars == <<tree, branch, run, spent>>

Gone     == 0       \* there is no such file
Ours     == 1
Theirs   == 2
Edited   == 3
Unmerged == 4       \* the index has the sides of a conflict
Places   == {"head", "index", "work"}
Invalid  == "-"

Can(what)  == spent[what] < spent.script[what]
Used(what) == spent' = [spent EXCEPT ![what] = @ + 1]
Born == spent.script.born \/ branch.commits > 0

(* The rows of the status; a staged deletion whose file is staged under       *)
(* another name is part of the row of that name.                              *)
Row(p, area, untracked) == [path |-> p, area |-> area, untracked |-> untracked]
RenamedAway(p) ==
    /\ tree[p].index = Gone
    /\ \E q \in Paths : tree[q].head = Gone /\ tree[q].index = tree[p].head
Status ==
    {Row(p, "Conflict", FALSE) : p \in {q \in Paths : tree[q].index = Unmerged}}
    \cup {Row(p, "Staged", FALSE) :
            p \in {q \in Paths : tree[q].index \notin {Unmerged, tree[q].head} /\ ~ RenamedAway(q)}}
    \cup {Row(p, "Unstaged", FALSE) :
            p \in {q \in Paths : tree[q].index \notin {Gone, Unmerged, tree[q].work}}}
    \cup {Row(p, "Unstaged", TRUE) :
            p \in {q \in Paths : tree[q].index = Gone /\ tree[q].work # Gone}}

NoRun == [kind |-> "none", at |-> "idle", paths |-> {}, rows |-> {}, names |-> <<>>,
          knows |-> FALSE, result |-> "none", disturbed |-> FALSE, touched |-> {},
          misread |-> FALSE]

Init ==
    /\ \E start \in Starts :
          /\ spent = [script |-> start.script, operations |-> 0, others |-> 0, failures |-> 0]
          /\ tree = start.tree
    /\ \E upstream, origin \in BOOLEAN :
          /\ upstream => origin
          /\ branch = [all |-> {"main"}, current |-> "main", upstream |-> upstream,
                       origin |-> origin, behind |-> 0, ahead |-> 1, commits |-> 0]
    /\ run = NoRun
-----------------------------------------------------------------------------
(* The calls: the trees they may leave, none when Git refuses.                *)

(* The tree in which some files have become others. *)
With(files) == {[p \in Paths |-> IF p \in DOMAIN files THEN files[p] ELSE tree[p]]}
Unless(refused, results) == IF refused THEN {} ELSE results

Added(ps) ==
    Unless(\E p \in ps : tree[p].index = Gone /\ tree[p].work = Gone,
           With([p \in ps |-> [tree[p] EXCEPT !.index = tree[p].work]]))
RestoredIndex(ps) ==
    Unless(~ Born \/ \E p \in ps : tree[p].index = Gone /\ tree[p].head = Gone,
           With([p \in ps |-> [tree[p] EXCEPT !.index = tree[p].head]]))
RestoredWork(ps) ==
    Unless(\E p \in ps : tree[p].index \in {Gone, Unmerged},
           With([p \in ps |-> [tree[p] EXCEPT !.work = tree[p].index]]))
RestoredBoth(ps) ==
    Unless(~ Born \/ \E p \in ps : tree[p].index = Gone /\ tree[p].head = Gone,
           With([p \in ps |-> [tree[p] EXCEPT !.index = tree[p].head, !.work = tree[p].head]]))
Removed(ps) ==
    Unless(\E p \in ps : tree[p].index = Gone,
           With([p \in ps |-> [tree[p] EXCEPT !.index = Gone, !.work = Gone]]))
(* What is staged, and neither committed nor in the working tree, is not given up. *)
RemovedFromIndex(ps) ==
    Unless(\E p \in ps : tree[p].index \notin {Gone, Unmerged, tree[p].head, tree[p].work}
                         /\ tree[p].work # Gone,
           With([p \in ps |-> [tree[p] EXCEPT !.index = Gone]]))
WithSide(ps, side) ==
    Unless(\E p \in ps : tree[p].index = Gone,
           With([p \in ps |->
                   [tree[p] EXCEPT !.work = IF tree[p].index = Unmerged THEN side ELSE tree[p].index]]))
Deleted(ps) ==
    Unless(\E p \in ps : tree[p].work = Gone, With([p \in ps |-> [tree[p] EXCEPT !.work = Gone]]))
Committed ==
    Unless(\/ \E p \in Paths : tree[p].index = Unmerged
           \/ \A p \in Paths : tree[p].index = tree[p].head,
           With([p \in Paths |-> [tree[p] EXCEPT !.head = tree[p].index]]))

TouchedBy(t) ==
    {x \in Paths \X Places : t[x[1]][x[2]] # tree[x[1]][x[2]]}
-----------------------------------------------------------------------------
(* An operation is asked for; those with rows are of what status showed.      *)

Start(kind, paths, rows, names) ==
    /\ run.at = "idle"
    /\ kind \in spent.script.kinds
    /\ Can("operations") /\ Used("operations")
    /\ run' = [NoRun EXCEPT !.kind = kind, !.at = "begin", !.paths = paths, !.rows = rows,
                            !.names = names]
    /\ UNCHANGED <<tree, branch>>

StartOne ==
    \/ \E ps \in SUBSET Paths \ {{}}, k \in {"Stage", "Unstage", "Remove"} : Start(k, ps, {}, <<>>)
    \/ \E p \in Paths, k \in {"Ours", "Theirs"} : Start(k, {p}, {}, <<>>)
    \/ \E rows \in SUBSET {r \in Status : r.area # "Conflict"} \ {{}} :
          Start("Discard", {r.path : r \in rows}, rows, <<>>)
    \/ \E k \in {"StageAll", "UnstageAll", "Commit", "Push", "Sync"} : Start(k, Paths, {}, <<>>)
    \/ \E a \in Names, k \in {"Checkout", "DeleteBranch"} : Start(k, {}, {}, <<a>>)
    \/ \E a \in Names \cup {Invalid} : Start("CreateBranch", {}, {}, <<a>>)
    \/ \E a \in Names, b \in Names \cup {Invalid} : Start("RenameBranch", {}, {}, <<a, b>>)

Before(kind, at) == run.kind \in kind /\ run.at = at

(* The operation goes on, over the tree and the branches a call left.         *)
Goes(next, t, b) ==
    /\ tree' = t /\ branch' = b
    /\ run' = [next EXCEPT !.touched = @ \cup TouchedBy(t)]
Then(at) == IF at = "ok" THEN [run EXCEPT !.at = "ended", !.result = "ok"] ELSE [run EXCEPT !.at = at]
Failed == run' = [run EXCEPT !.at = "ended", !.result = "failed"] /\ UNCHANGED <<tree, branch>>

(* checked: a call that is refused or fails ends the operation. *)
Call(results, at) ==
    \/ \E t \in results : Goes(Then(at), t, branch) /\ UNCHANGED spent
    \/ results = {} /\ Failed                       /\ UNCHANGED spent
    \/ Can("failures") /\ Used("failures") /\ Failed

CallOnBranch(allowed, b, at) ==
    \/ allowed /\ Goes(Then(at), tree, b)  /\ UNCHANGED spent
    \/ ~ allowed /\ Failed                 /\ UNCHANGED spent
    \/ Can("failures") /\ Used("failures") /\ Failed

(* Something is read, to go on by; knows is what was read. *)
Ask(answer, at) ==
    \/ /\ run' = [run EXCEPT !.at = at, !.knows = answer]
       /\ UNCHANGED <<tree, branch, spent>>
    \/ Can("failures") /\ Used("failures") /\ Failed

(* with_paths runs nothing for no path. *)
CallFor(ps, results, at) ==
    IF ps = {} THEN Goes(Then(at), tree, branch) /\ UNCHANGED spent ELSE Call(results, at)
-----------------------------------------------------------------------------
StageSome == Before({"Stage", "StageAll"}, "begin")
             /\ Call(IF run.kind = "StageAll"
                     THEN With([p \in Paths |-> [tree[p] EXCEPT !.index = tree[p].work]])
                     ELSE Added(run.paths), "ok")

(* has_head: a call that fails counts as that there is none. *)
AskHead ==
    /\ Before({"Unstage", "UnstageAll"}, "begin")
    /\ \/ /\ run' = [run EXCEPT !.at = "unstage", !.knows = Born]
          /\ UNCHANGED spent
       \/ /\ Can("failures") /\ Used("failures")
          /\ run' = [run EXCEPT !.at = "unstage", !.knows = FALSE, !.misread = Born]
    /\ UNCHANGED <<tree, branch>>

(* UnstageAll without a HEAD: a failure is none when nothing was left to do. *)
UnstageSome ==
    /\ Before({"Unstage", "UnstageAll"}, "unstage")
    /\ CASE run.kind = "Unstage" /\ run.knows     -> Call(RestoredIndex(run.paths), "ok")
         [] run.kind = "Unstage" /\ ~ run.knows   -> Call(RemovedFromIndex(run.paths), "ok")
         [] run.kind = "UnstageAll" /\ run.knows  ->
               Call(With([p \in Paths |-> [tree[p] EXCEPT !.index = tree[p].head]]), "ok")
         [] OTHER -> \/ Call(RemovedFromIndex(Paths), "ok")
                     \/ /\ Status = {}
                        /\ Can("failures") /\ Used("failures")
                        /\ Goes(Then("ok"), tree, branch)

(* discard: the untracked one by one, then the working tree, then both. *)
Untracked == {r.path : r \in {x \in run.rows : x.untracked}}
OfArea(area) == {r.path : r \in {x \in run.rows : ~ x.untracked /\ x.area = area}}

DeleteUntracked ==
    /\ Before({"Discard"}, "begin")
    /\ \/ /\ Untracked = {}
          /\ Goes(Then("worktree"), tree, branch) /\ UNCHANGED spent
       \/ \E p \in Untracked :
             \/ /\ tree[p].work # Gone
                /\ \E t \in Deleted({p}) :
                      Goes([run EXCEPT !.rows = {r \in @ : r.path # p \/ ~ r.untracked}], t, branch)
                /\ UNCHANGED spent
             \/ tree[p].work = Gone /\ Failed /\ UNCHANGED spent
             \/ Can("failures") /\ Used("failures") /\ Failed

DiscardWorktree ==
    /\ Before({"Discard"}, "worktree")
    /\ CallFor(OfArea("Unstaged"), RestoredWork(OfArea("Unstaged")), "both")

DiscardStaged ==
    /\ Before({"Discard"}, "both")
    /\ CallFor(OfArea("Staged"), RestoredBoth(OfArea("Staged")), "ok")

(* remove: the tracked are read first, the others deleted, then the tracked. *)
AskTracked ==
    /\ Before({"Remove"}, "begin")
    /\ \/ /\ run' = [run EXCEPT !.at = "delete",
                                !.rows = {Row(p, "Unstaged", tree[p].index = Gone) : p \in run.paths}]
          /\ UNCHANGED <<tree, branch, spent>>
       \/ Can("failures") /\ Used("failures") /\ Failed

RemoveUntracked ==
    /\ Before({"Remove"}, "delete")
    /\ \/ /\ Untracked = {}
          /\ Goes(Then("rm"), tree, branch) /\ UNCHANGED spent
       \/ \E p \in Untracked :
             \/ /\ \E t \in Deleted({p}) :
                      Goes([run EXCEPT !.rows = {r \in @ : r.path # p}], t, branch)
                /\ UNCHANGED spent
             \/ tree[p].work = Gone /\ Failed /\ UNCHANGED spent

RemoveTracked ==
    /\ Before({"Remove"}, "rm")
    /\ CallFor(OfArea("Unstaged"), Removed(OfArea("Unstaged")), "ok")

TakeSide ==
    /\ Before({"Ours", "Theirs"}, "begin")
    /\ Call(WithSide(run.paths, IF run.kind = "Ours" THEN Ours ELSE Theirs), "add")
MarkResolved == Before({"Ours", "Theirs"}, "add") /\ Call(Added(run.paths), "ok")

(* The account was verified before. *)
CommitStaged ==
    /\ Before({"Commit"}, "begin")
    /\ \/ \E t \in Committed :
             Goes(Then("ok"), t, [branch EXCEPT !.commits = @ + 1, !.ahead = @ + 1]) /\ UNCHANGED spent
       \/ (Committed = {} /\ Failed /\ UNCHANGED spent)
       \/ Can("failures") /\ Used("failures") /\ Failed

Pull ==
    /\ Before({"Sync"}, "begin")
    /\ CallOnBranch(branch.upstream, [branch EXCEPT !.behind = 0], "status")
AskUpstream ==
    /\ Before({"Push"}, "begin") \/ Before({"Sync"}, "status")
    /\ Ask(branch.upstream, "push")
(* Without an upstream the branch is pushed to origin, if there is one. *)
PushBranch ==
    /\ Before({"Push", "Sync"}, "push")
    /\ CallOnBranch(branch.behind = 0 /\ (IF run.knows THEN branch.upstream ELSE branch.origin),
                    [branch EXCEPT !.ahead = 0, !.upstream = TRUE], "ok")

(* Names are validated before the call that uses them. *)
ChangeBranches ==
    LET a == run.names[1] IN
    \/ /\ Before({"Checkout"}, "begin")
       /\ CallOnBranch(a \in branch.all, [branch EXCEPT !.current = a], "ok")
    \/ /\ Before({"CreateBranch"}, "begin")
       /\ CallOnBranch(a \notin branch.all \cup {Invalid},
                       [branch EXCEPT !.all = @ \cup {a}, !.current = a, !.upstream = FALSE], "ok")
    \/ /\ Before({"RenameBranch"}, "begin")
       /\ LET b == run.names[2] IN
          CallOnBranch(a \in branch.all /\ b \notin branch.all \cup {Invalid},
                       [branch EXCEPT !.all = (@ \ {a}) \cup {b},
                                      !.current = IF @ = a THEN b ELSE @], "ok")
    \/ /\ Before({"DeleteBranch"}, "begin")
       /\ CallOnBranch(a \in branch.all \ {branch.current}, [branch EXCEPT !.all = @ \ {a}], "ok")

Report == run.at = "ended" /\ run' = NoRun /\ UNCHANGED <<tree, branch, spent>>
-----------------------------------------------------------------------------
(* Others: an editor writes or removes a file, another process stages one,    *)
(* someone pushes to the remote.                                              *)
Disturb ==
    /\ Can("others") /\ Used("others")
    /\ run' = [run EXCEPT !.disturbed = TRUE]
    /\ \/ \E p \in Paths, v \in {Gone, Edited} : tree' = [tree EXCEPT ![p].work = v] /\ UNCHANGED branch
       \/ \E p \in Paths : tree' = [tree EXCEPT ![p].index = tree[p].work] /\ UNCHANGED branch
       \/ branch.upstream /\ branch' = [branch EXCEPT !.behind = 1] /\ UNCHANGED tree

Next ==
    \/ StartOne \/ Report \/ Disturb
    \/ StageSome \/ AskHead \/ UnstageSome
    \/ DeleteUntracked \/ DiscardWorktree \/ DiscardStaged
    \/ AskTracked \/ RemoveUntracked \/ RemoveTracked
    \/ TakeSide \/ MarkResolved
    \/ CommitStaged \/ Pull \/ AskUpstream \/ PushBranch \/ ChangeBranches

Spec == Init /\ [][Next]_gitVars
-----------------------------------------------------------------------------
TypeOK ==
    /\ tree \in [Paths -> [head : Gone .. Edited, index : Gone .. Unmerged, work : Gone .. Edited]]
    /\ branch.all \subseteq Names /\ branch.current \in branch.all
    /\ branch.behind \in 0 .. 1
    /\ run.at \in {"idle", "begin", "unstage", "worktree", "both", "delete", "rm", "add", "status",
                   "push", "ended"}
    /\ run.result \in {"none", "ok", "failed"} /\ run.touched \subseteq Paths \X Places

(* What the operation is about, in each place. *)
Allowed ==
    CASE run.kind \in {"Stage", "StageAll", "Unstage", "UnstageAll"} -> run.paths \X {"index"}
      [] run.kind = "Discard" ->
            (run.paths \X {"work"})
            \cup ({r.path : r \in {x \in run.rows : x.area = "Staged"}} \X {"index"})
      [] run.kind \in {"Remove", "Ours", "Theirs"} -> run.paths \X {"index", "work"}
      [] run.kind = "Commit" -> Paths \X {"head"}
      [] OTHER -> {}

(* Whether it ends well or half-way, an operation changes what it was asked to *)
(* change and nothing else: no other file, no staged version when what is not  *)
(* staged is discarded, and no commit.                                         *)
OnlyTheChosenChanges == run.touched \subseteq Allowed

Done(f) ==
    CASE run.kind \in {"Stage", "StageAll"}     -> f.index = f.work
      [] run.kind \in {"Unstage", "UnstageAll"} -> f.index = f.head
      [] run.kind = "Discard"                   -> f.work \in {f.index, Gone}
      [] run.kind = "Remove"                    -> f.index = Gone /\ f.work = Gone
      [] run.kind = "Ours"                      -> f.index = f.work /\ f.index # Unmerged
      [] run.kind = "Theirs"                    -> f.index = f.work /\ f.index # Unmerged
      [] OTHER                                  -> TRUE

(* An operation that says it was done was done, to every file it was asked for, *)
(* unless others changed something meanwhile or has_head could not tell.        *)
ReportsAreTrue ==
    run.result = "ok" /\ ~ run.disturbed /\ ~ run.misread =>
        /\ \A p \in run.paths : Done(tree[p])
        /\ \A r \in run.rows : run.kind = "Discard" /\ r.area = "Staged" =>
              tree[r.path].index = tree[r.path].head /\ tree[r.path].work = tree[r.path].head
        /\ run.kind \in {"Push", "Sync"} => branch.upstream /\ branch.ahead = 0 /\ branch.behind = 0
=============================================================================
