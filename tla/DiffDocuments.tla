---------------------------- MODULE DiffDocuments ----------------------------
(***************************************************************************)
(* The diff of an opened pull request: a workspace is prepared for the     *)
(* comparison that is selected, its files are listed, and the patches are  *)
(* fetched one by one when a file is chosen or unfolded and in batches for *)
(* what the viewport shows.                                                *)
(*                                                                         *)
(* The comparison is that of the pull request or of one of its commits,    *)
(* and the head may be pushed to.  Every patch counts for one against the  *)
(* bound on what is kept, the batches' budget of bytes is any prefix, and  *)
(* of another view only the leaving and the return are modelled.           *)
(***************************************************************************)
EXTENDS ServedLanes, SequencesExt

CONSTANTS
    Paths,         \* the files of every comparison, in order; two at least
    MaxBatch,      \* the files of a batch
    Scripts,       \* how many patches may be kept in a behaviour, and bounds on its keys,
                   \* the lookups that answer and the reads that fail
    MaxPushes,     \* the largest bound on lookups
    Wrap           \* bound: how many generations there are

VARIABLES
    session,       \* the one workspace the thread of the lane keeps
    page,          \* what is selected and shown
    diff,          \* the workspace, as the interface knows it
    cache,         \* the patches that are kept, and the document on display
    asked,         \* the file and the batch that are on their way
    used           \* the script and the bounds so far

panes == <<page, diff, cache, asked>>
vars  == <<lane, session, panes, used>>

Lane0      == "PullRequestPreview"
Comparison == [commit : BOOLEAN, head : 0 .. MaxPushes]
NoSource   == {}
Unprepared == 0
NoPath     == "none"
(* The patch of a file, and the path it is kept under. *)
Document   == [of : Comparison, patch : ToSet(Paths), path : ToSet(Paths), good : BOOLEAN]

(* The document on display: one patch, the list of the files with the patches *)
(* that are unfolded in it, or a notice.                                      *)
Notice      == [kind |-> "notice", patches |-> {}]
List(docs)  == [kind |-> "list", patches |-> docs]
Single(doc) == [kind |-> "patch", patches |-> {doc}]

Command ==
    [kind : {"PreparePullRequest", "LoadPullRequestFile", "LoadPullRequestFileBatch"},
     generation : 0 .. Wrap - 1, workspace : 0 .. Wrap - 1, of : Comparison,
     paths : Seq(ToSet(Paths))]
Event == [command : Command, ok : BOOLEAN, docs : Seq(Document)]

Ask(kind, generation, workspace, of, paths) ==
    <<[kind |-> kind, generation |-> generation, workspace |-> workspace, of |-> of,
       paths |-> paths]>>

Now == [commit |-> page.commit, head |-> page.head]
Following(g) == (g + 1) % Wrap
May(what) == used[what] < used.script[what]
Count(what) == used' = [used EXCEPT ![what] = @ + 1]
InFiles(p) == p.section = "Files"
-----------------------------------------------------------------------------
(* The patches that are kept. *)

HeldOf(c)    == {d.path : d \in c.held}
DocOf(c, path) == CHOOSE d \in c.held : d.path = path

(* The oldest outside the viewport goes first; when all are in it, the oldest. *)
Pruned(c, viewport) ==
    IF Len(c.order) <= used.script.room \/ Len(c.order) <= 1 THEN c
    ELSE LET outside == SelectSeq(c.order, LAMBDA path : path \notin ToSet(viewport))
             victim  == IF outside = <<>> THEN c.order[1] ELSE outside[1]
         IN  [c EXCEPT !.held = {d \in @ : d.path # victim},
                       !.order = Remove(@, victim)]

Taken(c, path) ==
    [c EXCEPT !.held = {d \in @ : d.path # path}, !.order = Remove(@, path)]

Kept(c, doc, viewport) ==
    LET without == Taken(c, doc.path) IN
    Pruned([without EXCEPT !.held = @ \cup {doc}, !.order = Append(@, doc.path)], viewport)

KeptAll(c, docs, viewport) ==
    FoldSeq(LAMBDA d, kept : IF d.path \in HeldOf(kept) THEN kept ELSE Kept(kept, d, viewport),
            c, docs)

(* cache_current_pull_request_single_document *)
KeptSingle(c, viewport) ==
    LET bare == [c EXCEPT !.single = NoPath] IN
    IF c.single = NoPath \/ c.single \in HeldOf(c) THEN bare
    ELSE Kept(bare, CHOOSE d \in c.document.patches : TRUE, viewport)

(* rebuild_pull_request_all_files_document: folded files are left out. *)
Rebuilt(c, p) ==
    [c EXCEPT !.document = List({d \in c.held : d.path \notin p.folded})]

NoDocuments ==
    [held |-> {}, order |-> <<>>, single |-> NoPath, document |-> cache.document]
NothingAsked == [path |-> NoPath, prefetching |-> FALSE, retrying |-> FALSE, paths |-> <<>>]

(* reset_pull_request_diff_runtime *)
Forgotten(d) == [d EXCEPT !.source = NoSource, !.workspace = Unprepared]

(* invalidate_preview *)
Invalidated(d) == [d EXCEPT !.generation = Following(@), !.loading = FALSE]

(* show_pull_request_all_files *)
AllFiles(c, p) == Rebuilt(KeptSingle(c, p.viewport), p)
-----------------------------------------------------------------------------
(* request_preview, over the page and the state a handler left: it prepares  *)
(* what is not prepared, and else shows the files or asks for the one chosen. *)

Waiting0(d, p) == d.source = {p.commit} /\ d.loading /\ d.progress
Prepared(d, p) == d.source = {p.commit} /\ d.workspace # Unprepared

PrepareWorkspace(p, d, c) ==
    LET generation == Following(d.generation)
        moved == d.source # {p.commit}
    IN  /\ diff' = [d EXCEPT !.generation = generation, !.loading = TRUE, !.progress = TRUE,
                             !.source = {p.commit}, !.workspace = Unprepared,
                             !.indexed = ~ moved /\ @]
        /\ page' = [p EXCEPT !.due = FALSE, !.mode = IF moved THEN "All" ELSE @,
                             !.viewport = IF moved THEN <<>> ELSE @]
        /\ asked' = IF moved THEN NothingAsked ELSE asked
        /\ cache' = [(IF moved THEN NoDocuments ELSE c) EXCEPT
                        !.document = IF InFiles(p) THEN Notice ELSE @]
        /\ Handle(Ask("PreparePullRequest", generation, Unprepared,
                      [commit |-> p.commit, head |-> p.head], <<>>))

(* The file is shown from what is kept, or asked for.  Mutant: what is asked *)
(* for keeps the generation of the diff.                                     *)
RequestFileUnchanged(p, d, c, path, showLoading) ==
    /\ diff' = [d EXCEPT !.loading = showLoading, !.progress = FALSE]
    /\ asked' = [asked EXCEPT !.path = path]
    /\ cache' = c
    /\ Handle(Ask("LoadPullRequestFile", d.generation, d.workspace, Now, <<path>>))

RequestFile(p, d, c, path, showLoading) ==
    LET generation == Following(d.generation) IN
    /\ diff' = [d EXCEPT !.generation = generation, !.loading = showLoading, !.progress = FALSE]
    /\ asked' = [asked EXCEPT !.path = path]
    /\ cache' = c
    /\ Handle(Ask("LoadPullRequestFile", generation, d.workspace, Now, <<path>>))

(* request_pull_request_diff_file *)
ChooseFile(p, d, c, path, showLoading) ==
    LET kept == KeptSingle(c, p.viewport) IN
    IF p.mode = "Single" /\ path \in HeldOf(c)
    THEN \* the single document is kept, which may prune the one that was asked for
         IF path \in HeldOf(kept)
         THEN /\ cache' = [Taken(kept, path) EXCEPT
                              !.single = path, !.document = Single(DocOf(kept, path))]
              /\ diff' = [d EXCEPT !.loading = FALSE]
              /\ asked' = asked
              /\ Handle(<<>>)
         ELSE RequestFile(p, d, kept, path, showLoading)
    ELSE IF path \in HeldOf(c)
    THEN /\ cache' = Rebuilt(c, p)
         /\ diff' = [d EXCEPT !.loading = FALSE]
         /\ asked' = asked
         /\ Handle(<<>>)
    ELSE RequestFile(p, d, c, path, showLoading)

(* request_pull_request_prefetch: the files of the viewport that are unfolded *)
(* and whose patch is neither kept, nor asked for, nor on display.            *)
Wanted(p, d, c, a) ==
    IF a.prefetching \/ ~ p.shown \/ ~ InFiles(p) \/ p.mode # "All"
       \/ d.workspace = Unprepared \/ ~ d.indexed
    THEN <<>>
    ELSE SelectSeq(p.viewport, LAMBDA path :
             path \notin HeldOf(c) \cup {a.path, c.single} \cup p.folded)

(* The handler that leaves p, d, c and a goes on to prefetch. *)
Prefetch(p, d, c, a) ==
    LET wanted == Wanted(p, d, c, a) IN
    /\ page' = p /\ diff' = d /\ cache' = c
    /\ \/ /\ wanted = <<>>
          /\ asked' = a
          /\ outbox' = <<>>
       \/ \E n \in 1 .. Len(wanted) :
             LET batch == SubSeq(wanted, 1, n) IN
             /\ n <= MaxBatch
             /\ asked' = [a EXCEPT !.prefetching = TRUE, !.paths = batch]
             /\ outbox' = Ask("LoadPullRequestFileBatch", 0, d.workspace, Now, batch)

RequestPreview(p, d, c) ==
    \/ /\ p.section = "Commits"
       /\ page' = [p EXCEPT !.due = FALSE] /\ diff' = d /\ cache' = c /\ asked' = asked
       /\ Handle(<<>>)
    \/ /\ p.section # "Commits" /\ ~ Prepared(d, p) /\ ~ Waiting0(d, p)
       /\ PrepareWorkspace(p, d, c)
    \/ /\ p.section # "Commits" /\ ~ Prepared(d, p) /\ Waiting0(d, p)
       /\ page' = [p EXCEPT !.due = FALSE] /\ diff' = d /\ asked' = asked
       /\ cache' = IF InFiles(p) THEN [c EXCEPT !.document = Notice] ELSE c
       /\ Handle(<<>>)
    \/ /\ p.section = "Overview" /\ Prepared(d, p)
       /\ page' = [p EXCEPT !.due = FALSE] /\ diff' = d /\ cache' = c /\ asked' = asked
       /\ Handle(<<>>)
    \/ /\ InFiles(p) /\ Prepared(d, p) /\ p.mode = "All"
       /\ Prefetch([p EXCEPT !.due = FALSE], [d EXCEPT !.loading = FALSE], AllFiles(c, p),
                   [asked EXCEPT !.path = NoPath])
       /\ Free /\ UNCHANGED <<mailbox, executing, answers>>
    \/ /\ InFiles(p) /\ Prepared(d, p) /\ p.mode = "Single"
       /\ page' = [p EXCEPT !.due = FALSE]
       /\ ChooseFile(p, d, c, p.cursor, TRUE)
-----------------------------------------------------------------------------
(* A pull request was opened and its preview is due. *)

Init ==
    /\ InitLane(<<>>)
    /\ session = [generation |-> Unprepared, of |-> [commit |-> FALSE, head |-> 0]]
    /\ page = [shown |-> TRUE, section |-> "Files", mode |-> "All", cursor |-> Paths[1],
               commit |-> FALSE, head |-> 0, folded |-> ToSet(Paths), due |-> TRUE,
               viewport |-> <<>>]
    /\ diff = [source |-> NoSource, generation |-> 0, workspace |-> Unprepared, loading |-> FALSE,
               progress |-> FALSE, indexed |-> FALSE]
    /\ cache = [held |-> {}, order |-> <<>>, single |-> NoPath, document |-> Notice]
    /\ asked = NothingAsked
    /\ \E script \in Scripts : used = [script |-> script, keys |-> 0, pushes |-> 0, failures |-> 0]

Press == May("keys") /\ Count("keys") /\ session' = session

(* The debounced preview, and the prefetch of every tick. *)
PreviewDue ==
    /\ page.due /\ page.shown
    /\ RequestPreview(page, diff, cache)
    /\ UNCHANGED <<session, used>>

Tick ==
    /\ Wanted(page, diff, cache, asked) # <<>>
    /\ Prefetch(page, diff, cache, asked)
    /\ Free
    /\ UNCHANGED <<mailbox, executing, answers, session, used>>

(* A draw of the list finds the files in the viewport, and those below it. *)
Draw ==
    /\ page.shown /\ InFiles(page) /\ page.mode = "All" /\ cache.document.kind = "list"
    /\ \E first, last \in DOMAIN Paths :
          /\ first <= last
          /\ page' = [page EXCEPT !.viewport = SubSeq(Paths, first, last)]
    /\ page' # page
    /\ Handle(<<>>)
    /\ UNCHANGED <<diff, cache, asked, session, used>>

(* select_pull_request_tree_entry; the preview comes a while later. *)
SelectFile(path) ==
    /\ Press
    /\ page.shown /\ InFiles(page) /\ diff.indexed
    /\ page.cursor # path \/ page.mode = "All"
    /\ page' = [page EXCEPT !.cursor = path, !.mode = "Single", !.due = TRUE]
    /\ diff' = Invalidated(diff)
    /\ Handle(<<>>)
    /\ UNCHANGED <<cache, asked>>

(* toggle_preview_file: a file that is unfolded is asked for. *)
ToggleFile(path) ==
    LET p == [page EXCEPT !.folded = IF path \in @ THEN @ \ {path} ELSE @ \cup {path}]
        c == Rebuilt(cache, p)
    IN  /\ Press
        /\ page.shown /\ InFiles(page) /\ page.mode = "All" /\ diff.indexed
        /\ page' = p
        /\ IF path \in page.folded /\ (path \in HeldOf(c) \/ diff.workspace # Unprepared)
           THEN ChooseFile(p, diff, c, path, FALSE)
           ELSE /\ cache' = c
                /\ Handle(<<>>)
                /\ UNCHANGED <<diff, asked>>

(* toggle_all_preview_files *)
ToggleAll ==
    /\ Press
    /\ page.shown /\ InFiles(page) /\ page.mode = "All" /\ diff.indexed
    /\ page' = [page EXCEPT !.folded = IF @ = ToSet(Paths) THEN {} ELSE ToSet(Paths)]
    /\ cache' = Rebuilt(cache, page')
    /\ Handle(<<>>)
    /\ UNCHANGED <<diff, asked>>

(* select_pull_request_section *)
ShowSection(section) ==
    /\ Press
    /\ page.shown
    /\ page.section # section \/ (section = "Files" /\ page.mode = "Single")
    /\ LET p == [page EXCEPT !.section = section, !.due = FALSE]
           d == Invalidated(diff)
       IN  IF section = "Files"
           THEN RequestPreview([p EXCEPT !.mode = "All"], d, AllFiles(cache, p))
           ELSE /\ page' = p /\ diff' = d
                /\ Handle(<<>>)
                /\ UNCHANGED <<cache, asked>>

(* inspect_pr_commit *)
InspectCommit(commit) ==
    /\ Press
    /\ page.shown /\ page.section = "Commits"
    /\ PrepareWorkspace([page EXCEPT !.commit = commit, !.section = "Files", !.mode = "All",
                                     !.viewport = <<>>],
                        [Forgotten(Invalidated(diff)) EXCEPT !.indexed = FALSE], cache)

(* switch_view: to another view, whose previews have generations of their own *)
(* out of the same counter, and back.                                         *)
LeaveView ==
    /\ Press
    /\ page.shown
    /\ page' = [page EXCEPT !.shown = FALSE, !.due = FALSE]
    /\ diff' = Invalidated(diff)
    /\ asked' = IF diff.loading THEN [asked EXCEPT !.path = NoPath] ELSE asked
    /\ Handle(<<>>)
    /\ UNCHANGED cache

ReturnToView ==
    /\ ~ page.shown
    /\ page' = [page EXCEPT !.shown = TRUE, !.due = TRUE]
    /\ diff' = Invalidated(diff)
    /\ Handle(<<>>)
    /\ UNCHANGED <<cache, asked, session, used>>

(* The lookup of a poll answers: with the same head, or with one that was   *)
(* pushed.  What was prepared for the old one is forgotten.                 *)
HearHead ==
    /\ May("pushes") /\ Count("pushes") /\ session' = session
    /\ \/ /\ diff' = [diff EXCEPT !.progress = FALSE]
          /\ Handle(<<>>)
          /\ UNCHANGED <<page, cache, asked>>
       \/ LET p == [page EXCEPT !.head = @ + 1, !.commit = FALSE, !.due = FALSE, !.viewport = <<>>]
              d == [Forgotten(diff) EXCEPT !.progress = FALSE]
          IN  IF page.shown /\ page.section # "Commits" THEN PrepareWorkspace(p, d, NoDocuments)
              ELSE /\ page' = p /\ diff' = d /\ cache' = NoDocuments /\ asked' = NothingAsked
                   /\ Handle(<<>>)
-----------------------------------------------------------------------------
(* The thread: Session keeps the workspace that was prepared last. *)

PatchOf(of, path, good) == [of |-> of, patch |-> path, path |-> path, good |-> good]
Docs(c) == [i \in DOMAIN c.paths |-> PatchOf(session.of, c.paths[i], TRUE)]

AnswerCommand ==
    LET c == executing[Lane0]
        prepares == c.kind = "PreparePullRequest"
        may == prepares \/ c.workspace = session.generation
    IN  /\ c # NoCommand
        /\ \E ok \in BOOLEAN :
              /\ ok => may
              /\ ~ ok /\ may => May("failures")
              /\ used' = [used EXCEPT !.failures = @ + (IF ~ ok /\ may THEN 1 ELSE 0)]
              /\ session' = IF ok /\ prepares THEN [generation |-> c.generation, of |-> c.of]
                            ELSE session
              /\ Answer(Lane0, [command |-> c, ok |-> ok,
                                docs |-> IF ok /\ ~ prepares THEN Docs(c) ELSE <<>>])
        /\ UNCHANGED panes
-----------------------------------------------------------------------------
(* The interface hears the oldest answer. *)

Heard(kind) == answers # <<>> /\ answers[1].command.kind = kind
Late(e) == e.command.generation # diff.generation
Hears(effects) ==
    /\ Free /\ answers' = Tail(answers) /\ outbox' = effects
    /\ UNCHANGED <<mailbox, executing, session, used>>
Listens == Free /\ answers' = Tail(answers) /\ UNCHANGED <<mailbox, executing, session, used>>

(* apply_pull_request_index: everything is folded again. *)
HearIndex ==
    LET e == answers[1] IN
    /\ Heard("PreparePullRequest")
    /\ \/ Late(e) /\ Hears(<<>>) /\ UNCHANGED panes
       \/ /\ ~ Late(e) /\ e.ok
          /\ Listens
          /\ LET p == [page EXCEPT !.mode = "All", !.folded = ToSet(Paths), !.viewport = <<>>] IN
             Prefetch(p, [diff EXCEPT !.workspace = e.command.generation, !.indexed = TRUE,
                                      !.loading = FALSE, !.progress = FALSE],
                      Rebuilt(NoDocuments, p), NothingAsked)
       \/ /\ ~ Late(e) /\ ~ e.ok
          /\ Hears(<<>>)
          /\ diff' = [diff EXCEPT !.workspace = Unprepared, !.loading = FALSE, !.progress = FALSE]
          /\ cache' = [cache EXCEPT !.document = Notice]
          /\ UNCHANGED <<page, asked>>

(* The patch is kept under the path that was asked for last. *)
Filed(doc) == [doc EXCEPT !.path = IF asked.path = NoPath THEN @ ELSE asked.path]
HearFile ==
    LET e == answers[1]
        doc == Filed(e.docs[1])
        d == [diff EXCEPT !.loading = FALSE, !.progress = FALSE]
        a == [asked EXCEPT !.path = NoPath]
    IN  /\ Heard("LoadPullRequestFile")
        /\ \/ Late(e) /\ Hears(<<>>) /\ UNCHANGED panes
           \/ /\ ~ Late(e)
              /\ Listens
              /\ Prefetch(page, d,
                    IF ~ e.ok THEN cache
                    ELSE IF page.mode = "All"
                    THEN Rebuilt(Kept(cache, doc, page.viewport), page)
                    ELSE [KeptSingle(cache, page.viewport) EXCEPT
                             !.single = doc.path, !.document = Single(doc)], a)

(* A batch that fails is asked for once more; then its files say so. *)
HearBatch ==
    LET e == answers[1]
        a == [asked EXCEPT !.prefetching = FALSE, !.paths = <<>>, !.retrying = ~ e.ok /\ ~ @]
        docs == IF e.ok THEN e.docs
                ELSE [i \in DOMAIN asked.paths |-> PatchOf(Now, asked.paths[i], FALSE)]
        kept == KeptAll(cache, docs, page.viewport)
        c == IF page.shown /\ page.mode = "All" THEN Rebuilt(kept, page) ELSE kept
    IN  /\ Heard("LoadPullRequestFileBatch")
        /\ \/ e.command.workspace # diff.workspace /\ Hears(<<>>) /\ UNCHANGED panes
           \/ /\ e.command.workspace = diff.workspace /\ (e.ok \/ ~ asked.retrying)
              /\ Listens
              /\ Prefetch(page, diff, IF e.ok THEN c ELSE cache, a)
           \/ /\ e.command.workspace = diff.workspace /\ ~ e.ok /\ asked.retrying
              /\ Hears(<<>>)
              /\ page' = page /\ diff' = diff /\ cache' = c /\ asked' = a

Hear == HearIndex \/ HearFile \/ HearBatch
Key ==
    \/ \E i \in DOMAIN Paths : SelectFile(Paths[i]) \/ ToggleFile(Paths[i])
    \/ \E s \in {"Overview", "Files", "Commits"} : ShowSection(s)
    \/ \E commit \in BOOLEAN : InspectCommit(commit)
    \/ ToggleAll \/ LeaveView

Next ==
    \/ Serve /\ UNCHANGED <<session, panes, used>>
    \/ Key \/ PreviewDue \/ Tick \/ Draw \/ ReturnToView \/ HearHead
    \/ AnswerCommand \/ Hear

Spec == Init /\ [][Next]_vars
-----------------------------------------------------------------------------
TypeOK ==
    /\ LaneTypeOK(Command, Event)
    /\ session \in [generation : 0 .. Wrap - 1, of : Comparison]
    /\ page \in [shown : BOOLEAN, section : {"Overview", "Files", "Commits"},
                 mode : {"All", "Single"}, cursor : ToSet(Paths), commit : BOOLEAN,
                 head : 0 .. MaxPushes, folded : SUBSET ToSet(Paths), due : BOOLEAN,
                 viewport : Seq(ToSet(Paths))]
    /\ DOMAIN diff = {"source", "generation", "workspace", "loading", "progress", "indexed"}
    /\ cache.held \subseteq Document /\ cache.order \in Seq(ToSet(Paths))
    /\ cache.single \in ToSet(Paths) \cup {NoPath}
    /\ asked \in [path : ToSet(Paths) \cup {NoPath}, prefetching : BOOLEAN, retrying : BOOLEAN,
                  paths : Seq(ToSet(Paths))]
    /\ used.script \in Scripts /\ used.pushes <= MaxPushes

(* Every patch that is kept is the one of its path, and it, and once the preview *)
(* ran every patch that is shown, is of the comparison that is selected: nothing *)
(* survives a push, the choice of a commit or a workspace prepared meanwhile.    *)
DocumentsAreOfTheComparison ==
    /\ \A d \in cache.held : d.of = Now /\ d.patch = d.path
    /\ page.shown /\ InFiles(page) /\ ~ page.due =>
          \A d \in cache.document.patches : d.of = Now /\ d.patch = d.path

(* What is kept is accounted for: each patch once, at most as many as there is *)
(* room for, and the single document is the one on display.                    *)
CacheIsAccounted ==
    /\ ToSet(cache.order) = HeldOf(cache) /\ IsInjective(cache.order)
    /\ \A d, e \in cache.held : d.path = e.path => d = e
    /\ Len(cache.order) <= used.script.room \/ Len(cache.order) <= 1
    /\ cache.single # NoPath => {d.path : d \in cache.document.patches} = {cache.single}

(* A file or a batch that counts as on its way is: nothing the viewport shows is *)
(* left out of the prefetch for an answer that does not come.                    *)
FilesAreOwed ==
    /\ asked.path # NoPath /\ page.shown /\ InFiles(page) /\ page.mode = "All" /\ ~ page.due =>
          \E c \in OnItsWay : c.kind = "LoadPullRequestFile" /\ c.generation = diff.generation
    /\ asked.prefetching =>
          \E c \in OnItsWay : c.kind = "LoadPullRequestFileBatch" /\ c.workspace = diff.workspace
    /\ diff.loading =>
          \E c \in OnItsWay : c.kind # "LoadPullRequestFileBatch" /\ c.generation = diff.generation

(* The list shows every patch that is kept and unfolded, and no other. *)
ListShowsWhatIsKept ==
    page.shown /\ InFiles(page) /\ page.mode = "All" /\ ~ page.due
    /\ cache.document.kind = "list" =>
        cache.document.patches = {d \in cache.held : d.path \notin page.folded}
=============================================================================
