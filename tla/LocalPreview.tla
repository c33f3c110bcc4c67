----------------------------- MODULE LocalPreview -----------------------------
(***************************************************************************)
(* The preview of local diffs: the working tree and a comparison in the    *)
(* Changes view, commits in the History view.                              *)
(*                                                                         *)
(* A diff is prepared first: its answer is an index, the list of its       *)
(* files.  The files are then read one by one, from the workspace that the *)
(* session keeps of what it prepared.  When the working tree changes, the  *)
(* document stays on display until all files that it shows are read again. *)
(* A view that is left keeps its preview, and resumes it.                  *)
(*                                                                         *)
(* The text of a patch is what it is a patch of, and the version of the    *)
(* working tree at which it was read.  The pull-request view, stashes,     *)
(* filters, hunk positions and the switch that shows whole files are left  *)
(* out; HEAD does not move.                                                *)
(***************************************************************************)
EXTENDS ServedLanes, SequencesExt

CONSTANTS
    Files,         \* the paths
    NoFile,        \* no path
    Trees,         \* the lists of files that the working tree may have changed
    Commits,       \* the commits of the history
    FilesOf,       \* the files of each commit, and of the "comparison"
    Keys,          \* what the user may ask for
    MayFail,       \* the kinds of reads that may fail
    Period,        \* of the heartbeat: "never", "any", "long" (all reads end first)
    Wrap,          \* bound: how many generations there are
    MaxKeys,       \* bound: how many keys are pressed
    MaxChanges,    \* bound: how often the working tree changes
    MaxFailures,   \* bound: how often a read fails
    MaxEvents      \* bound: how many keys, changes and failures there are in all

VARIABLES
    tree,          \* the working tree: its version, what it has changed
    noticed,       \* the watcher has seen a change
    session,       \* the workspaces that the session of the lane has prepared
    due,           \* filesystem_refresh_due, preview_due
    status,        \* the changes on display
    refresh,       \* the reads of the status
    selection,     \* the section or the change selected, the commit selected
    version,       \* changes_diff_version
    view,          \* the view on display
    panes,         \* the preview of each view
    generation,    \* diff_generation
    folding,       \* files_collapsed, collapse_preference_set
    used           \* the keys and failures so far

outside == <<tree, noticed>>
preview == <<selection, view, panes, generation, folding>>
vars    == <<lane, outside, session, due, status, refresh, version, preview, used>>

Views == {"Changes", "History"}

NoRequest == [kind |-> "none", name |-> NoFile, files |-> <<>>, version |-> 0]
NoPatches == [f \in {} |-> 0]
Blank     == [headers |-> <<>>, open |-> {}, patches |-> NoPatches]

NewPane ==
    [request |-> NoRequest,        \* local_diff_request
     preserving |-> FALSE,         \* local_diff_preserving_document
     preserved |-> {},             \* local_diff_preserved_paths
     workspace |-> 0,              \* local_diff_workspace_generation
     indexed |-> FALSE,            \* local_diff_index, and its files
     index |-> <<>>,
     documents |-> NoPatches,      \* local_diff_documents
     loading |-> NoFile,           \* local_diff_loading_path
     pending |-> <<>>,             \* local_diff_pending_paths
     document_loading |-> FALSE,   \* of a view that was left: resume_preview
     document |-> Blank,           \* the file headers shown, those open, their patches
     collapsed |-> {},             \* collapsed_preview_files
     expanded |-> {},              \* expanded_preview_files
     selected |-> NoFile,          \* selected_preview_file
     comparing |-> FALSE,          \* auxiliary_preview
     cut |-> FALSE]                \* no variable of the code: see QuietPreviewIsFresh

LocalDiffRequest ==
    [kind : {"none", "commit", "comparison", "section", "change"},
     name : Files \cup Commits \cup {NoFile}, files : Seq(Files), version : Nat]

Patch ==
    [kind : {"none", "commit", "comparison", "section", "change"},
     name : Files \cup Commits \cup {NoFile}, at : Nat]

Generation == 1 .. Wrap - 1

Command ==
    [kind : {"Refresh", "PrepareLocalDiff", "LoadLocalDiffFile"}, generation : 0 .. Wrap - 1,
     request : LocalDiffRequest, workspace : 0 .. Wrap - 1, path : Files \cup {NoFile}]

Event ==
    [command : Command, ok : BOOLEAN, files : Trees \cup {<<>>}, patch : Patch]

ASSUME PreviewAssumption ==
    /\ NoFile \notin Files
    /\ Trees \subseteq Seq(Files) /\ Trees # {}
    /\ Commits # {} /\ "comparison" \notin Commits
    /\ FilesOf \in [Commits \cup {"comparison"} -> Seq(Files)]
    /\ Wrap \in Nat \ {0, 1} /\ Period \in {"any", "long", "never"}
    /\ {MaxKeys, MaxChanges, MaxFailures, MaxEvents} \subseteq Nat
    /\ {"Refresh", "PrepareLocalDiff", "LoadLocalDiffFile"} \subseteq Kinds \ Operations
    /\ NoCommand \notin Command

(* A path occurs once in a section of the status, whose records each add one  *)
(* change to an area, and once in a listing of names that git prints.         *)
ASSUME ListsAssumption ==
    \A files \in Trees \cup Range(FilesOf) : IsInjective(files)

(* What the tables of the worker say of these commands: each has its lane and *)
(* its slot, and the slot of the status is its own.                           *)
ASSUME TablesAssumption ==
    /\ LaneOf \in [Kinds -> Lanes]
    /\ SlotOf \in [Kinds \ Operations -> Slots]
    /\ SlotOf["Refresh"] \notin {SlotOf["PrepareLocalDiff"], SlotOf["LoadLocalDiffFile"]}

Following(g) == (g % (Wrap - 1)) + 1

pane == panes[view]

(* What a file of a document says of itself. *)
Failed == [kind |-> "none", name |-> NoFile, at |-> 0]
-----------------------------------------------------------------------------
(* Which files are folded. *)

Collapsible(p) ==
    Len(IF p.indexed /\ ~ p.preserving THEN p.index ELSE p.document.headers) > 1

Collapsed(p, fold, f) ==
    Collapsible(p) /\ IF fold.all THEN f \notin p.expanded ELSE f \in p.collapsed

(* refreshed_preview_file_collapsed: whether a file will be folded once the   *)
(* preserved document is replaced.                                            *)
WillBeCollapsed(p, fold, f) ==
    /\ Len(p.index) > 1
    /\ IF fold.all THEN f \notin p.expanded
       ELSE \/ f \in p.collapsed
            \/ ~ fold.preferred /\ (Cardinality(p.preserved) <= 1 \/ f \notin p.preserved)

Open(p, fold) ==
    IF Len(p.index) <= 1 THEN ToSet(p.index)
    ELSE IF fold.all THEN ToSet(p.index) \cap p.expanded
    ELSE ToSet(p.index) \ p.collapsed

(* rebuild_local_diff_document *)
Rebuilt(p, fold) ==
    [p EXCEPT !.document =
        [headers |-> p.index, open |-> Open(p, fold),
         patches |-> Restrict(p.documents, Open(p, fold) \cap DOMAIN p.documents)]]

(* rebuild_indexed_preview_document *)
Refolded(p, fold) == IF p.indexed /\ ~ p.preserving THEN Rebuilt(p, fold) ELSE p

(* finalize_refreshed_preview_state *)
Finalized(p, fold) ==
    LET files == ToSet(p.index)
        new   == IF fold.all \/ fold.preferred \/ Len(p.index) <= 1 THEN {}
                 ELSE IF Cardinality(p.preserved) <= 1 THEN files ELSE files \ p.preserved IN
    [p EXCEPT !.collapsed = (@ \cap files) \cup new,
              !.expanded = @ \cap files,
              !.selected = IF @ \in files THEN @ ELSE IF p.index = <<>> THEN NoFile ELSE p.index[1],
              !.preserving = FALSE, !.preserved = {}]
-----------------------------------------------------------------------------
(* Reading the files one by one. *)

(* request_local_diff_file *)
WithFile(p, f) ==
    IF \/ p.workspace = 0 \/ f \notin ToSet(p.index) \/ f \in DOMAIN p.documents
       \/ f = p.loading \/ f \in ToSet(p.pending)
    THEN p
    ELSE IF p.loading # NoFile
    THEN [p EXCEPT !.pending = Append(@, f)]
    ELSE [p EXCEPT !.loading = f]

(* The files of S, in the order in which a list names them. *)
WithFiles(p, files, S) ==
    LET upto[i \in 0 .. Len(files)] ==
            IF i = 0 THEN p
            ELSE IF files[i] \in S THEN WithFile(upto[i - 1], files[i]) ELSE upto[i - 1] IN
    upto[Len(files)]

(* request_next_local_diff_file *)
WithNextFile(p, fold) ==
    LET wanted(f) == ~ Collapsed(p, fold, f) /\ f \notin DOMAIN p.documents
        i == SelectInSeq(p.pending, wanted) IN
    IF i # 0
    THEN WithFile([p EXCEPT !.pending = SubSeq(@, i + 1, Len(@))], p.pending[i])
    ELSE LET q == [p EXCEPT !.pending = <<>>] IN
         IF q.document_loading /\ q.indexed
         THEN Rebuilt([(IF q.preserving THEN Finalized(q, fold) ELSE q)
                          EXCEPT !.document_loading = FALSE], fold)
         ELSE q

(* Mutant: the queue survives the workspace it was for. *)
MutantAborted(p) ==
    [p EXCEPT !.document_loading = FALSE, !.preserving = FALSE, !.workspace = 0,
              !.indexed = FALSE, !.index = <<>>, !.documents = NoPatches, !.loading = NoFile]

(* abort_preserved_local_diff_refresh *)
Aborted(p) ==
    [p EXCEPT !.document_loading = FALSE, !.preserving = FALSE, !.workspace = 0,
              !.indexed = FALSE, !.index = <<>>, !.documents = NoPatches, !.loading = NoFile,
              !.pending = <<>>]

(* reset_local_diff_runtime *)
Reset(p) ==
    [Aborted(p) EXCEPT !.request = NoRequest, !.preserved = {},
                       !.document_loading = p.document_loading]

(* Mutant: the document is rebuilt with each file of a refresh. *)
MutantStored(p, fold, f, patch) ==
    Rebuilt([p EXCEPT !.documents = [g \in DOMAIN @ \cup {f} |->
                                        IF g = f THEN patch ELSE @[g]]], fold)

(* store_local_diff_document *)
Stored(p, fold, f, patch) ==
    IF Len(p.index) = 1
    THEN [(IF p.preserving THEN Finalized(p, fold) ELSE p) EXCEPT
             !.document_loading = FALSE,
             !.document = IF patch = Failed THEN Blank
                          ELSE [headers |-> <<f>>, open |-> {f},
                                patches |-> [g \in {f} |-> patch]]]
    ELSE LET q == [p EXCEPT !.documents = [g \in DOMAIN @ \cup {f} |->
                                              IF g = f THEN patch ELSE @[g]]] IN
         IF q.document_loading \/ q.preserving THEN q ELSE Rebuilt(q, fold)
-----------------------------------------------------------------------------
(* Preparing a diff. *)

(* local_diff_request_for_view *)
Subject(v, p, st, sel, ver) ==
    CASE v = "History" ->
            [kind |-> "commit", name |-> sel.commit, files |-> FilesOf[sel.commit], version |-> 0]
      [] v = "Changes" /\ p.comparing ->
            [kind |-> "comparison", name |-> NoFile, files |-> FilesOf["comparison"], version |-> 0]
      [] v = "Changes" /\ ~ p.comparing /\ sel.section ->
            [kind |-> "section", name |-> NoFile, files |-> st, version |-> ver]
      [] OTHER ->
            [kind |-> "change",
             name |-> IF sel.cursor \in DOMAIN st THEN st[sel.cursor] ELSE NoFile,
             files |-> IF sel.cursor \in DOMAIN st THEN <<st[sel.cursor]>> ELSE <<>>,
             version |-> ver]

(* Mutant: any change is the same as another. *)
MutantSameChanges(r, s) == r.kind = s.kind

(* same_changes_preview *)
SameChanges(r, s) ==
    /\ r.kind = s.kind
    /\ \/ r.kind = "section"
       \/ r.kind = "change" /\ r.name = s.name /\ r.name # NoFile

Prepares(p, r) == p.request # r \/ (p.workspace = 0 /\ ~ p.document_loading)

(* prepare_local_diff *)
Prepared(p, r) ==
    IF ~ Prepares(p, r) THEN p
    ELSE LET preserve == SameChanges(p.request, r) /\ p.document.headers # <<>> IN
         [Reset(p) EXCEPT
            !.request = r,
            !.preserving = preserve,
            !.preserved = IF ~ preserve THEN {}
                          ELSE IF p.preserved = {} THEN ToSet(p.index) ELSE p.preserved,
            !.document_loading = TRUE,
            !.document = IF preserve THEN @ ELSE Blank,
            !.collapsed = IF preserve THEN @ ELSE {},
            !.expanded = IF preserve THEN @ ELSE {},
            !.selected = IF preserve THEN @ ELSE NoFile,
            !.cut = FALSE]
-----------------------------------------------------------------------------
(* The commands. *)

Asks(k, g, r, w, f) ==
    [kind |-> k, generation |-> g, request |-> r, workspace |-> w, path |-> f]

(* request_refresh.  The status is read one at a time, as RepositoryReads      *)
(* shows, so here its generation is left out.                                 *)
RequestRefresh(r) ==
    IF r.loading THEN [r EXCEPT !.again = TRUE] ELSE [r EXCEPT !.loading = TRUE]

RefreshEffects(before, after) ==
    IF before.loading = after.loading THEN <<>>
    ELSE <<Asks("Refresh", 0, NoRequest, 0, NoFile)>>

(* The file that a pane began to read. *)
FileEffects(before, after, g) ==
    IF after.loading \in {NoFile, before.loading} THEN <<>>
    ELSE <<Asks("LoadLocalDiffFile", g, NoRequest, after.workspace, after.loading)>>

(* request_preview with a status, a selection and a version. *)
Request(p, st, sel, ver) == Prepared(p, Subject(view, p, st, sel, ver))

RequestEffects(p, st, sel, ver, g) ==
    IF Prepares(p, Subject(view, p, st, sel, ver))
    THEN <<Asks("PrepareLocalDiff", Following(g), Subject(view, p, st, sel, ver), 0, NoFile)>>
    ELSE <<>>

GenerationAfter(effects, g) ==
    IF \E i \in DOMAIN effects : effects[i].kind = "PrepareLocalDiff" THEN Following(g) ELSE g

(* Mutant: the file that is being read is still awaited. *)
MutantInvalidated(p) == [p EXCEPT !.document_loading = FALSE, !.pending = <<>>]

(* invalidate_preview, when the settled working tree discards what is read of *)
(* the one before.                                                            *)
Invalidated(p) ==
    [p EXCEPT !.document_loading = FALSE, !.loading = NoFile, !.pending = <<>>]

ShowsTree == view = "Changes" /\ ~ pane.comparing

Show(p) == panes' = [panes EXCEPT ![view] = p]

Count(what) == used' = [used EXCEPT ![what] = @ + 1]
-----------------------------------------------------------------------------
(* A new interface reads the status, and has prepared nothing. *)

Init ==
    /\ tree \in [version : {1}, files : Trees]
    /\ noticed = FALSE
    /\ session = [v \in Views |-> [generation |-> 0, request |-> NoRequest]]
    /\ due = [refresh |-> FALSE, preview |-> FALSE]
    /\ status = <<>>
    /\ refresh = [loading |-> TRUE, again |-> FALSE, failed |-> FALSE]
    /\ selection = [section |-> TRUE, cursor |-> 1, commit |-> CHOOSE c \in Commits : TRUE]
    /\ version = 0
    /\ view = "Changes"
    /\ panes = [v \in Views |-> NewPane]
    /\ generation = 1
    /\ folding = [all |-> FALSE, preferred |-> FALSE]
    /\ used = [keys |-> 0, failures |-> 0]
    /\ InitLane(<<Asks("Refresh", 0, NoRequest, 0, NoFile)>>)

MayHappen == tree.version - 1 + used.keys + used.failures < MaxEvents

OutsideChange ==
    /\ tree.version <= MaxChanges /\ MayHappen
    /\ tree' \in [version : {tree.version + 1}, files : Trees]
    /\ noticed' = TRUE
    /\ UNCHANGED <<lane, session, due, status, refresh, version, preview, used>>
-----------------------------------------------------------------------------
(* The clock. *)

Notice ==
    /\ Free /\ noticed
    /\ noticed' = FALSE
    /\ due' = [due EXCEPT !.refresh = TRUE]
    /\ UNCHANGED <<lane, tree, session, status, refresh, version, preview, used>>

(* Mutant: the version of the working tree stays. *)
MutantRenew ==
    /\ UNCHANGED version
    /\ generation' = Following(generation)
    /\ Show(Invalidated(pane))
    /\ due' = [refresh |-> FALSE, preview |-> FALSE]

(* What a new version does to the preview. *)
Renew ==
    /\ version' = version + 1
    /\ generation' = Following(generation)
    /\ Show(Invalidated(pane))
    /\ due' = [refresh |-> FALSE, preview |-> FALSE]

Settle ==
    /\ due.refresh
    /\ IF ShowsTree THEN Renew
       ELSE /\ version' = version + 1
            /\ due' = [due EXCEPT !.refresh = FALSE]
            /\ UNCHANGED <<generation, panes>>
    /\ refresh' = RequestRefresh(refresh)
    /\ Handle(RefreshEffects(refresh, refresh'))
    /\ UNCHANGED <<outside, session, status, selection, view, folding, used>>

Heartbeat ==
    /\ Period = "any" \/ (Period = "long" /\ OnItsWay = {})
    /\ refresh' = RequestRefresh(refresh)
    /\ Handle(RefreshEffects(refresh, refresh'))
    /\ UNCHANGED <<outside, session, due, status, version, preview, used>>

Preview ==
    /\ due.preview
    /\ due' = [due EXCEPT !.preview = FALSE]
    /\ LET e == RequestEffects(pane, status, selection, version, generation) IN
          /\ Show(Request(pane, status, selection, version))
          /\ generation' = GenerationAfter(e, generation)
          /\ Handle(e)
    /\ UNCHANGED <<outside, session, status, refresh, selection, version, view, folding, used>>
-----------------------------------------------------------------------------
(* The user. *)

Press(key) ==
    /\ key \in Keys
    /\ used.keys < MaxKeys /\ MayHappen
    /\ Count("keys")
    /\ UNCHANGED <<outside, session, status>>

ActiveRefresh ==
    /\ Press("refresh")
    /\ IF ShowsTree THEN Renew
       ELSE /\ due' = [due EXCEPT !.refresh = FALSE]
            /\ panes' = [panes EXCEPT !["Changes"].cut =
                                   @ \/ (due.refresh /\ view # "Changes")]
            /\ UNCHANGED <<version, generation>>
    /\ refresh' = RequestRefresh(refresh)
    /\ Handle(RefreshEffects(refresh, refresh'))
    /\ UNCHANGED <<selection, view, folding>>

(* move_selection to another row; a comparison stays. *)
Select(sel) ==
    /\ Press("select")
    /\ sel # selection
    /\ selection' = sel
    /\ IF view = "Changes" /\ pane.comparing
       THEN UNCHANGED <<generation, panes, due>>
       ELSE /\ generation' = Following(generation)
            /\ Show([Reset(pane) EXCEPT !.document_loading = FALSE, !.document = Blank])
            /\ due' = [due EXCEPT !.preview = TRUE]
    /\ Handle(<<>>)
    /\ UNCHANGED <<refresh, version, view, folding>>

Rows ==
    IF view = "History" THEN {[selection EXCEPT !.commit = c] : c \in Commits}
    ELSE IF status = <<>> THEN {}
    ELSE {[selection EXCEPT !.section = TRUE]}
         \cup {[selection EXCEPT !.section = FALSE, !.cursor = i] : i \in DOMAIN status}

(* Choosing a branch to compare with, and Esc. *)
Compare ==
    /\ Press("compare") /\ view = "Changes"
    /\ LET p == [pane EXCEPT !.comparing = ~ @]
           e == RequestEffects(p, status, selection, version, generation) IN
          /\ Show(Request(p, status, selection, version))
          /\ generation' = GenerationAfter(e, generation)
          /\ Handle(e)
    /\ UNCHANGED <<due, refresh, selection, version, view, folding>>

(* switch_view: what is being read of the view that is left goes back to the  *)
(* front of the queue, and the preview of the view that is entered resumes if *)
(* its document was loading.                                                  *)
Left(p) ==
    [p EXCEPT !.pending = (IF p.loading = NoFile THEN <<>> ELSE <<p.loading>>) \o @,
              !.loading = NoFile,
              !.cut = @ \/ p.loading # NoFile \/ p.preserving]

Entered(p) == [p EXCEPT !.document_loading = FALSE]

Resumed(p) ==
    IF p.document_loading /\ p.indexed THEN WithNextFile(Entered(p), folding) ELSE Entered(p)

Switch(v) ==
    /\ Press("switch") /\ v # view
    /\ view' = v
    /\ generation' = Following(generation)
    /\ panes' = [panes EXCEPT ![view] = Left(@), ![v] = Resumed(@)]
    /\ due' = [due EXCEPT !.preview = TRUE]
    /\ Handle(FileEffects(panes[v], Resumed(panes[v]), generation'))
    /\ UNCHANGED <<refresh, selection, version, folding>>

(* toggle_preview_file *)
Toggled(p, f) ==
    LET q == Refolded([p EXCEPT
                 !.collapsed = IF folding.all THEN @
                               ELSE IF f \in @ THEN @ \ {f} ELSE @ \cup {f},
                 !.expanded = IF ~ folding.all THEN @
                              ELSE IF f \in @ THEN @ \ {f} ELSE @ \cup {f},
                 !.selected = f], folding) IN
    IF Collapsed(p, folding, f) /\ ~ Collapsed(q, folding, f) THEN WithFile(q, f) ELSE q

Toggle(f) ==
    /\ Press("toggle")
    /\ Collapsible(pane) /\ f \in ToSet(pane.document.headers)
    /\ Show(Toggled(pane, f))
    /\ Handle(FileEffects(pane, Toggled(pane, f), generation))
    /\ UNCHANGED <<due, refresh, selection, version, view, generation, folding>>

(* toggle_all_preview_files *)
AllToggled(p, fold) ==
    LET q == Refolded([p EXCEPT !.collapsed = {}, !.expanded = {}], fold) IN
    IF fold.all THEN [q EXCEPT !.pending = <<>>]
    ELSE LET files == IF q.preserving /\ q.indexed THEN q.index ELSE q.document.headers IN
         WithFiles(q, files, ToSet(files))

ToggleAll ==
    /\ Press("toggle_all")
    /\ Collapsible(pane)
    /\ folding' =
          [all |-> ~ (/\ Len(pane.document.headers) > 1
                      /\ \A f \in ToSet(pane.document.headers) : Collapsed(pane, folding, f)),
           preferred |-> TRUE]
    /\ Show(AllToggled(pane, folding'))
    /\ Handle(FileEffects(pane, AllToggled(pane, folding'), generation))
    /\ UNCHANGED <<due, refresh, selection, version, view, generation>>
-----------------------------------------------------------------------------
(* The worker threads. *)

MaySucceed(c) == c.kind = "LoadLocalDiffFile" =>
    \E v \in Views : session[v].generation = c.workspace

Outcomes(c) ==
    {ok \in BOOLEAN :
        /\ ok => MaySucceed(c)
        /\ ~ ok => \/ ~ MaySucceed(c)
                   \/ c.kind \in MayFail /\ used.failures < MaxFailures /\ MayHappen}

(* Mutant: all views share one workspace. *)
MutantSlotOfRequest(r) == "Changes"

SlotOfRequest(r) == IF r.kind = "commit" THEN "History" ELSE "Changes"

(* LocalDiffWorkspaces *)
Store(c) ==
    [session EXCEPT ![SlotOfRequest(c.request)] =
        [generation |-> c.generation, request |-> c.request]]

(* local_diff_file: a patch of the working tree is what it is now. *)
PatchOf(c) ==
    LET v == CHOOSE v \in Views : session[v].generation = c.workspace
        r == session[v].request IN
    [kind |-> r.kind, name |-> r.name,
     at |-> IF r.kind \in {"section", "change"} THEN tree.version ELSE 0]

Execute(l) ==
    /\ executing[l] # NoCommand
    /\ LET c == executing[l] IN
       \E ok \in Outcomes(c) :
          /\ Answer(l, [command |-> c, ok |-> ok,
                        files |-> IF c.kind = "Refresh" /\ ok THEN tree.files ELSE <<>>,
                        patch |-> IF c.kind = "LoadLocalDiffFile" /\ ok THEN PatchOf(c)
                                  ELSE Failed])
          /\ session' = IF c.kind = "PrepareLocalDiff" /\ ok THEN Store(c) ELSE session
          /\ used' = [used EXCEPT !.failures = @ + (IF ok \/ ~ MaySucceed(c) THEN 0 ELSE 1)]
    /\ UNCHANGED <<outside, due, status, refresh, version, preview>>
-----------------------------------------------------------------------------
(* The interface hears the oldest answer. *)

Hears(k, e) ==
    /\ answers # <<>> /\ e = Head(answers) /\ e.command.kind = k
    /\ UNCHANGED <<outside, session, view, folding, used>>

Current(e) ==
    /\ e.command.kind # "Refresh" => e.command.generation = generation
    /\ e.command.kind = "LoadLocalDiffFile" =>
          /\ e.command.workspace = pane.workspace
          /\ e.command.path = pane.loading
          /\ e.command.path \in ToSet(pane.index)

Ignore ==
    /\ answers # <<>>
    /\ ~ Current(Head(answers))
    /\ HandleAnswer(<<>>)
    /\ UNCHANGED <<outside, session, due, status, refresh, version, preview, used>>

(* restore_change_selection *)
RestoredSelection(st) ==
    LET now == IF ~ selection.section /\ selection.cursor \in DOMAIN status
               THEN status[selection.cursor] ELSE NoFile
        there == SelectInSeq(st, LAMBDA f : f = now)
        clamped(i) == IF i > Len(st) THEN IF st = <<>> THEN 1 ELSE Len(st) ELSE i IN
    IF there # 0 THEN [selection EXCEPT !.cursor = there]
    ELSE [selection EXCEPT
            !.section = @ \/ (selection.cursor \notin DOMAIN st /\ st # <<>>),
            !.cursor = clamped(@)]

HearStatus(e) ==
    /\ Hears("Refresh", e)
    /\ LET heard == [refresh EXCEPT !.loading = FALSE, !.again = FALSE, !.failed = ~ e.ok]
           r     == IF refresh.again THEN RequestRefresh(heard) ELSE heard
           st    == IF e.ok THEN e.files ELSE status
           sel   == IF e.ok THEN RestoredSelection(st) ELSE selection
           shows == e.ok /\ view = "Changes" /\ ~ refresh.again
           p     == IF ~ e.ok /\ pane.preserving /\ ~ pane.document_loading
                    THEN Aborted(pane) ELSE pane
           ask   == IF shows THEN RequestEffects(p, st, sel, version, generation) ELSE <<>> IN
          /\ refresh' = r
          /\ status' = st
          /\ selection' = sel
          /\ due' = [due EXCEPT !.preview = @ /\ ~ shows]
          /\ Show(IF shows THEN Request(p, st, sel, version) ELSE p)
          /\ generation' = GenerationAfter(ask, generation)
          /\ HandleAnswer(ask \o RefreshEffects(heard, r))
    /\ UNCHANGED version

(* What an index makes of a pane: the files that will be open are read, and   *)
(* the selected one, or the first, in any case.                               *)
Indexed(p, files, fold) ==
    LET keep  == p.selected \in ToSet(files)
        first == IF keep THEN p.selected ELSE IF files = <<>> THEN NoFile ELSE files[1]
        q == [p EXCEPT !.workspace = generation, !.indexed = TRUE, !.index = files,
                       !.documents = NoPatches, !.loading = NoFile]
        r == IF p.preserving THEN q
             ELSE Rebuilt([q EXCEPT
                     !.document_loading = FALSE,
                     !.selected = first,
                     !.expanded = {},
                     !.collapsed = IF Len(files) > 1 /\ ~ fold.all /\ ~ fold.preferred
                                   THEN ToSet(files) ELSE {}], fold)
        opens == {f \in ToSet(files) : IF p.preserving THEN ~ WillBeCollapsed(r, fold, f)
                                       ELSE ~ Collapsed(r, fold, f)}
        s == WithFiles(IF first \in opens \cup {NoFile} THEN r ELSE WithFile(r, first),
                       files, opens) IN
    IF s.loading = NoFile /\ s.pending = <<>> THEN WithNextFile(s, fold) ELSE s

HearIndex(e) ==
    /\ Hears("PrepareLocalDiff", e) /\ Current(e)
    /\ LET p == IF e.ok THEN Indexed(pane, e.command.request.files, folding)
                ELSE IF pane.preserving THEN Aborted(pane)
                ELSE [Reset(pane) EXCEPT !.document_loading = FALSE, !.document = Blank] IN
          Show(p) /\ HandleAnswer(FileEffects([pane EXCEPT !.loading = NoFile], p, generation))
    /\ UNCHANGED <<due, status, refresh, selection, version, generation>>

FileHeard(p, e) ==
    LET q == [p EXCEPT !.loading = NoFile] IN
    IF e.ok THEN Stored(q, folding, e.command.path, e.patch)
    ELSE IF q.preserving THEN Aborted(q)
    ELSE [Stored(q, folding, e.command.path, Failed) EXCEPT !.request = NoRequest]

HearFile(e) ==
    /\ Hears("LoadLocalDiffFile", e) /\ Current(e)
    /\ LET p == FileHeard(pane, e)
           q == WithNextFile(p, folding) IN
          Show(q) /\ HandleAnswer(FileEffects(p, q, generation))
    /\ UNCHANGED <<due, status, refresh, selection, version, generation>>
-----------------------------------------------------------------------------
Tick == Settle \/ Preview

Hear == Ignore \/ \E e \in ToSet(answers) : HearStatus(e) \/ HearIndex(e) \/ HearFile(e)

User ==
    \/ ActiveRefresh \/ Compare \/ ToggleAll
    \/ \E sel \in Rows : Select(sel)
    \/ \E v \in Views : Switch(v)
    \/ \E f \in Files : Toggle(f)

Serving == Serve /\ UNCHANGED <<outside, session, due, status, refresh, version, preview, used>>

Next ==
    \/ OutsideChange \/ Notice \/ Tick \/ Heartbeat \/ User \/ Serving \/ Hear
    \/ \E l \in Lanes : Execute(l)

Safe == Init /\ [][Next]_vars
-----------------------------------------------------------------------------
(* The types, and bounds on the counters. *)
TypeOK ==
    /\ LaneTypeOK(Command, Event)
    /\ due \in [refresh : BOOLEAN, preview : BOOLEAN]
    /\ status \in Trees \cup {<<>>}
    /\ refresh \in [loading : BOOLEAN, again : BOOLEAN, failed : BOOLEAN]
    /\ selection.cursor \in Nat \ {0} /\ selection.commit \in Commits
    /\ version \in 0 .. MaxChanges + MaxKeys
    /\ generation \in Generation
    /\ \A v \in Views :
          /\ panes[v].request \in LocalDiffRequest
          /\ Range(panes[v].documents) \cup Range(panes[v].document.patches) \subseteq Patch
          /\ DOMAIN panes[v].documents \subseteq ToSet(panes[v].index)
          /\ DOMAIN panes[v].document.patches \subseteq panes[v].document.open
          /\ panes[v].workspace \in Generation \cup {0}
          /\ ToSet(panes[v].pending) \cup (({panes[v].loading} \ {NoFile}))
                \subseteq ToSet(panes[v].index)
          /\ session[v].request \in LocalDiffRequest

(* The workspace of a preview, of the view on display or of one that was      *)
(* left, is still the one that the session keeps in the slot of that view:    *)
(* no read of a file is told that its workspace is no longer available.       *)
WorkspacesAreKept ==
    \A v \in Views : panes[v].workspace # 0 =>
        /\ session[v].generation = panes[v].workspace
        /\ panes[v].request \in {session[v].request, NoRequest}
        /\ panes[v].index = session[v].request.files

(* A preview that says that it is indexing waits for the index of the         *)
(* generation it asked with, one that preserves a document waits for a file,  *)
(* and a file that is being read is on its way: what displaces a command in   *)
(* the slot that they share also made it obsolete.                            *)
PreviewIsOwed ==
    /\ pane.document_loading =>
          IF pane.indexed THEN pane.loading # NoFile
          ELSE \E c \in OnItsWay : c.kind = "PrepareLocalDiff" /\ c.generation = generation
    /\ pane.loading # NoFile =>
          \E c \in OnItsWay :
             /\ c.kind = "LoadLocalDiffFile"
             /\ c.generation = generation
             /\ c.workspace = pane.workspace /\ c.path = pane.loading

(* A patch is never shown under the title of another diff: neither a patch    *)
(* kept for a workspace nor one on display is of another subject than the     *)
(* request, whatever was selected, left or refreshed meanwhile.               *)
PatchesAreOfTheSubject ==
    \A v \in Views : panes[v].request # NoRequest =>
        \A patches \in {panes[v].documents, panes[v].document.patches} :
           \A f \in DOMAIN patches :
              patches[f] # Failed => /\ patches[f].kind = panes[v].request.kind
                                     /\ patches[f].name = panes[v].request.name

(* A refresh replaces a document only when its patches are ready: no step     *)
(* other than a key or a failure takes away the patch of an unfolded file     *)
(* that is still part of the diff.  Files that were shown alone are folded    *)
(* when others join them.                                                     *)
ShownPatchesStay ==
    [][ /\ used.keys' = used.keys
        /\ answers # <<>> => Head(answers).ok
        /\ pane.request # NoRequest
        /\ SameChanges(pane.request, pane'.request)
        => \A f \in DOMAIN pane.document.patches :
              \/ f \notin ToSet(pane'.request.files)
              \/ Collapsed(pane, folding, f)
              \/ Len(pane.document.headers) = 1 /\ Len(pane'.request.files) > 1
              \/ f \in DOMAIN pane'.document.patches ]_vars

Quiet ==
    /\ OnItsWay = {} /\ ~ noticed
    /\ ~ due.refresh /\ ~ due.preview /\ ~ refresh.loading

Now(r) == IF r.kind \in {"section", "change"} THEN tree.version ELSE 0

(* When nothing is due or on its way, the preview is what it would be if it   *)
(* were read now: it is of what is selected, and each file that is unfolded   *)
(* shows a patch of the present working tree.  Excepted are reads that        *)
(* failed, of which the user was told, and a preview that was cut: its view   *)
(* was left while it was read, or a refresh asked for elsewhere took the      *)
(* place of the one that was due.                                             *)
QuietPreviewIsFresh ==
    Quiet /\ ~ refresh.failed /\ ~ pane.cut =>
        /\ used.failures = 0 => pane.workspace # 0
        /\ pane.workspace # 0 /\ pane.request # NoRequest =>
              /\ pane.request = Subject(view, pane, status, selection, version)
              /\ ~ pane.preserving
              /\ pane.document.headers = pane.request.files
              /\ \A f \in pane.document.open :
                    /\ f \in DOMAIN pane.document.patches
                    /\ pane.document.patches[f] \in
                          {Failed, [kind |-> pane.request.kind, name |-> pane.request.name,
                                    at |-> Now(pane.request)]}

(* A file that is unfolded is read: once nothing is due or on its way and      *)
(* nothing failed, no file says that its diff is loading.                     *)
OpenFilesAreLoaded ==
    Quiet /\ used.failures = 0 /\ pane.workspace # 0 =>
        pane.document.open \subseteq DOMAIN pane.document.patches
=============================================================================
