---------------------------- MODULE PreparedDiff ----------------------------
(***************************************************************************)
(* The comparison of a pull request: its merge base and its head are found *)
(* (in the cache of comparisons, in the opened repository, or by fetching  *)
(* into a disposable repository), the changed files are listed, and their  *)
(* patches are read, one by one or in batches (git/github/pull_request.rs, *)
(* temporary.rs, prepared.rs, comparison_cache.rs, change_index.rs).       *)
(*                                                                         *)
(* GitHub's refs move between any two steps.  A diff is what it compares:  *)
(* two commits and a path.  A commit is a name; a history is the sequence  *)
(* of its ancestors.  The cache keeps what it is given (DiskCache is about *)
(* the rest).                                                              *)
(***************************************************************************)
EXTENDS Naturals, Sequences, FiniteSets, SequencesExt

CONSTANTS
    Chain,      \* of a commit: itself and its ancestors, newest first
    Bases, Heads, \* what the two branches may point to
    Locals,     \* the commits the opened repository may have
    Paths,      \* the files every comparison changes, in the order Git lists them
    Rungs,      \* the depths of the ladder
    MaxPushes,  \* bound: how often GitHub's refs move
    MaxOpens,   \* bound: how many comparisons are opened
    MaxReads    \* bound: how many reads of patches

VARIABLES
    github,     \* the refs of the base branch and of the pull request
    local,      \* the commits of the opened repository
    known,      \* the metadata: the object ids of base and head
    cache,      \* comparisons, merge bases, lists of files and patches
    reader,     \* the step of the reading that runs, with its disposable repository
    prepared,   \* the comparison that is open
    answer,     \* what the last read returned
    counted

diffVars == <<github, local, known, cache, reader, prepared, answer, counted>>

Commits == DOMAIN Chain
None == "none"
HeadRef == "refs/quinjet/head"
BaseRef == "refs/quinjet/base"
(* The tree of no files, to which a first commit is compared.               *)
EmptyTree == "empty tree"
Names == Commits \cup {None, HeadRef, BaseRef, EmptyTree}

Deep(c, n) == ToSet(SubSeq(Chain[c], 1, IF n < Len(Chain[c]) THEN n ELSE Len(Chain[c])))
CommonIn(b, h) ==
    LET common == SelectSeq(h, LAMBDA c : c \in ToSet(b))
    IN  IF common = <<>> THEN None ELSE Head(common)
MergeBase(b, h) == CommonIn(Chain[b], Chain[h])

Request(b, h, exact) == [base |-> b, head |-> h, exact |-> exact]
NoRequest == Request(None, None, FALSE)
Diff(b, h, path, whole) == [base |-> b, head |-> h, path |-> path, whole |-> whole]

NoTemporary == [base |-> None, head |-> None, objects |-> {}, depth |-> 0]
Idle == [at |-> "idle", for |-> NoRequest, hint |-> None, rung |-> 0, temporary |-> NoTemporary,
         base |-> None, head |-> None, paths |-> <<>>]
NoComparison == [kind |-> "none", for |-> NoRequest, base |-> None, head |-> None, files |-> {},
                 temporary |-> NoTemporary]
NoAnswer == [kind |-> "none", docs |-> {}]

Init ==
    /\ github \in [base : Bases, head : Heads]
    /\ local \in Locals
    /\ known = github
    /\ cache = [comparisons |-> {}, mergeBases |-> {}, lists |-> {}, patches |-> {}]
    /\ reader = Idle /\ prepared = NoComparison /\ answer = NoAnswer
    /\ counted = [pushes |-> 0, opens |-> 0, reads |-> 0]

-----------------------------------------------------------------------------
(* The names Git resolves in a repository of these objects.                *)

Resolve(name, temporary) ==
    CASE name = HeadRef -> temporary.head
      [] name = BaseRef -> temporary.base
      [] OTHER -> name

PreferredFetchedCommit(oid, ref, temporary) == IF oid \in temporary.objects THEN oid ELSE ref

(* Entries of the cache are found by the names in their keys.              *)
ListKey(b, h) == [base |-> b, head |-> h]
ListOf(b, h) == {e \in cache.lists : e.key = ListKey(b, h)}
PatchKey(b, h, p) == [base |-> b, head |-> h, path |-> p]
PatchOf(b, h, p) == {e \in cache.patches : e.key = PatchKey(b, h, p)}
Write(entries, key, value) == {e \in entries : e.key # key} \cup {[key |-> key, value |-> value]}

Fails ==
    /\ reader' = Idle /\ answer' = [kind |-> "error", docs |-> {}]
    /\ UNCHANGED <<cache, prepared>>

-----------------------------------------------------------------------------
(* A comparison is opened.                                                 *)

(* Of the whole pull request, or of one commit and its parent.             *)
Requests ==
    {Request(known.base, known.head, FALSE)}
        \cup {Request(IF Len(Chain[c]) = 1 THEN None ELSE Chain[c][2], c, TRUE) : c \in ToSet(Chain[known.head])}

Found(request, b, h) == [reader EXCEPT !.at = "list", !.for = request, !.base = b, !.head = h]

Open(request) ==
    LET saved == {e \in cache.comparisons : e.key = request}
    IN  /\ reader.at = "idle" /\ counted.opens < MaxOpens
        /\ counted' = [counted EXCEPT !.opens = @ + 1, !.reads = 0]
        /\ answer' = NoAnswer
        /\ IF saved # {}
           THEN LET e == CHOOSE e \in saved : TRUE
                IN  /\ prepared' = [NoComparison EXCEPT !.kind = "deferred", !.for = request,
                                        !.base = e.value.base, !.head = request.head,
                                        !.files = e.value.files]
                    /\ UNCHANGED reader
           ELSE /\ prepared' = NoComparison
                /\ reader' = CASE request.base = None -> [Idle EXCEPT !.at = "root", !.for = request]
                               [] {request.base, request.head} \subseteq local ->
                                    Found(request, IF request.exact THEN request.base
                                                   ELSE MergeBase(request.base, request.head),
                                          request.head)
                               [] OTHER -> [Idle EXCEPT !.at = "hint", !.for = request]
        /\ UNCHANGED <<github, local, known, cache>>

(* The first commit of a history, in a disposable repository of its own.   *)
OpenRoot ==
    /\ reader.at = "root"
    /\ \/ /\ prepared' = [NoComparison EXCEPT !.kind = "temporary", !.for = reader.for,
                             !.base = EmptyTree, !.head = reader.for.head,
                             !.files = {Diff(EmptyTree, reader.for.head, p, TRUE) : p \in ToSet(Paths)},
                             !.temporary.objects = {reader.for.head}]
          /\ cache' = [cache EXCEPT !.lists =
                Write(@, ListKey(EmptyTree, reader.for.head), prepared'.files)]
          /\ reader' = Idle /\ answer' = NoAnswer
       \/ Fails
    /\ UNCHANGED <<github, local, known, counted>>

(* merge_base_from_api *)
Hint ==
    LET r == reader.for
        remembered == {e \in cache.mergeBases : e.key = ListKey(r.base, r.head)}
        go(hint) == reader' = [reader EXCEPT !.at = "head", !.hint = hint, !.temporary.objects = local]
    IN  /\ reader.at = "hint"
        /\ IF r.exact THEN go(r.base) /\ UNCHANGED cache
           ELSE IF remembered # {} THEN go((CHOOSE e \in remembered : TRUE).value) /\ UNCHANGED cache
           ELSE \/ LET m == MergeBase(r.base, r.head)
                   IN  /\ go(m)
                       /\ cache' = [cache EXCEPT !.mergeBases = Write(@, ListKey(r.base, r.head), m)]
                \/ go(None) /\ UNCHANGED cache
        /\ UNCHANGED <<github, local, known, prepared, answer, counted>>

-----------------------------------------------------------------------------
(* fetch_pull_request.                                                     *)

Fetched(temporary, b, h, depth) ==
    [base |-> b, head |-> h, depth |-> depth,
     objects |-> temporary.objects \cup (IF b = None THEN {} ELSE Deep(b, depth))
                                   \cup (IF h = None THEN {} ELSE Deep(h, depth))]

(* From the ref of the pull request, or else from the fork.                *)
FetchHead ==
    /\ reader.at = "head"
    /\ \/ /\ reader' = [reader EXCEPT !.at = IF reader.hint = None THEN "base" ELSE "merge base",
                          !.temporary = Fetched(@, None, github.head, Rungs[1])]
          /\ UNCHANGED <<cache, prepared, answer>>
       \/ Fails
    /\ UNCHANGED <<github, local, known, counted>>


(* What was found is compared with what was asked for.                     *)
Check(b, h) ==
    LET r == reader.for
    IN  IF reader.paths # <<>>
        THEN IF h = prepared.head /\ b = prepared.base
             THEN /\ prepared' = [prepared EXCEPT !.temporary = reader'.temporary]
                  /\ reader'.at = "patches" /\ UNCHANGED <<cache, answer>>
             ELSE reader'.at = "failed" /\ UNCHANGED <<cache, prepared, answer>>
        ELSE /\ reader'.at = IF r.exact /\ (b # r.base \/ h # r.head) THEN "failed" ELSE "list"
             /\ UNCHANGED <<cache, prepared, answer>>

FetchMergeBase ==
    LET t == [reader.temporary EXCEPT !.objects = @ \cup {reader.hint}]
        after(at, temporary) ==
            [reader EXCEPT !.at = at, !.temporary = temporary, !.base = reader.hint,
                           !.head = reader.for.head]
    IN  /\ reader.at = "merge base"
        /\ \/ /\ reader.for.head \in t.objects
              /\ \E at \in {"list", "patches", "failed"} : reader' = after(at, t)
              /\ Check(reader.hint, reader.for.head)
           \/ /\ reader.for.head \notin t.objects
              /\ \/ /\ \E at \in {"list", "patches", "failed"} :
                          reader' = after(at, [t EXCEPT !.objects = @ \cup {reader.for.head}])
                    /\ Check(reader.hint, reader.for.head)
                 \/ Fails
           \/ reader' = [reader EXCEPT !.at = "base"] /\ UNCHANGED <<cache, prepared, answer>>
        /\ UNCHANGED <<github, local, known, counted>>

FetchBase ==
    /\ reader.at = "base"
    /\ \/ /\ reader' = [reader EXCEPT !.at = "ladder", !.rung = 1,
                          !.temporary = Fetched(@, github.base, @.head, Rungs[1])]
          /\ UNCHANGED <<cache, prepared, answer>>
       \/ Fails
    /\ UNCHANGED <<github, local, known, counted>>

(* The history Git sees: as deep as it was fetched.                        *)
Walk(name, temporary) ==
    LET c == Resolve(name, temporary)
        n == Cardinality({i \in DOMAIN Chain[c] : \A j \in 1 .. i : Chain[c][j] \in temporary.objects})
    IN  SubSeq(Chain[c], 1, n)

Ladder ==
    LET t == reader.temporary
        b == PreferredFetchedCommit(reader.for.base, BaseRef, t)
        h == PreferredFetchedCommit(reader.for.head, HeadRef, t)
        m == CommonIn(Walk(b, t), Walk(h, t))
    IN  /\ reader.at = "ladder"
        /\ IF m # None
           THEN /\ \E at \in {"list", "patches", "failed"} :
                     reader' = [reader EXCEPT !.at = at, !.base = m, !.head = h]
                /\ Check(m, h)
           ELSE \/ /\ reader.rung < Len(Rungs)
                   /\ reader' = [reader EXCEPT !.rung = @ + 1,
                        !.temporary = Fetched(@, github.base, github.head, Rungs[reader.rung + 1])]
                   /\ UNCHANGED <<cache, prepared, answer>>
                \/ Fails
        /\ UNCHANGED <<github, local, known, counted>>

Failed == reader.at = "failed" /\ Fails /\ UNCHANGED <<github, local, known, counted>>

-----------------------------------------------------------------------------
(* changed_files_in_repository, and the comparison is ready.               *)

FilesOf(b, h, whole) == {Diff(b, h, p, TRUE) : p \in IF whole THEN ToSet(Paths) ELSE {Paths[1]}}

Listed(files) ==
    /\ prepared' = [kind |-> IF reader.temporary = NoTemporary THEN "opened" ELSE "temporary",
                    for |-> reader.for, base |-> reader.base, head |-> reader.head,
                    files |-> files, temporary |-> reader.temporary]
    /\ reader' = Idle /\ answer' = NoAnswer

Saved(c, files) ==
    IF reader.head = reader.for.head
    THEN [c EXCEPT !.comparisons = Write(@, reader.for, [base |-> reader.base, files |-> files])]
    ELSE c

ListFiles ==
    LET kept == ListOf(reader.base, reader.head)
        h == Resolve(reader.head, reader.temporary)
    IN  /\ reader.at = "list"
        /\ IF kept # {}
           THEN LET files == (CHOOSE e \in kept : TRUE).value
                IN  Listed(files) /\ cache' = Saved(cache, files)
           ELSE \/ \E whole \in BOOLEAN :
                     LET files == FilesOf(reader.base, h, whole)
                         with == IF whole THEN [cache EXCEPT !.lists =
                                        Write(@, ListKey(reader.base, reader.head), files)]
                                 ELSE cache
                     IN  Listed(files) /\ cache' = Saved(with, files)
                \/ Fails
        /\ UNCHANGED <<github, local, known, counted>>

-----------------------------------------------------------------------------
(* diff_file and diff_files.                                               *)

Cached(paths) ==
    {e.value : e \in UNION {PatchOf(prepared.base, prepared.head, p) : p \in ToSet(paths)}}
Uncached(paths) ==
    SelectSeq(paths, LAMBDA p : PatchOf(prepared.base, prepared.head, p) = {})

(* Of one git diff for some paths: the sections it wrote, of which the last *)
(* may have been cut.                                                      *)
Sections(paths, h, n, whole) ==
    {Diff(prepared.base, h, paths[i], whole \/ i < n) : i \in 1 .. n}
(* A section that was cut is withheld unless there is nothing else.        *)
Documents(cached, sections, paths) ==
    LET kept == cached \cup {d \in sections : d.whole \/ Len(paths) = 1}
    IN  IF kept = {} THEN sections ELSE kept

Ask(paths) ==
    /\ reader.at = "idle" /\ prepared.kind # "none" /\ counted.reads < MaxReads
    /\ counted' = [counted EXCEPT !.reads = @ + 1]
    /\ IF Uncached(paths) = <<>>
       THEN answer' = [kind |-> "patches", docs |-> Cached(paths)] /\ UNCHANGED reader
       ELSE /\ answer' = NoAnswer
            /\ reader' = [Idle EXCEPT !.for = prepared.for, !.paths = paths,
                 !.at = IF \/ prepared.kind # "deferred" \/ prepared.temporary # NoTemporary
                           \/ {prepared.base, prepared.head} \subseteq local
                        THEN "patches" ELSE "head",
                 !.hint = prepared.base, !.temporary.objects = local]
    /\ UNCHANGED <<github, local, known, cache, prepared>>

ReadPatches ==
    LET wanted == Uncached(reader.paths)
        h == Resolve(prepared.head, prepared.temporary)
        store(sections) ==
            {[key |-> PatchKey(prepared.base, prepared.head, d.path), value |-> d] :
                d \in {x \in sections : x.whole}}
    IN  /\ reader.at = "patches"
        /\ \/ \E n \in 1 .. Len(wanted), whole \in BOOLEAN :
                 LET sections == Sections(wanted, h, n, whole)
                 IN  /\ whole => n = Len(wanted)
                     /\ answer' = [kind |-> "patches",
                                   docs |-> Documents(Cached(reader.paths), sections, wanted)]
                     /\ cache' = [cache EXCEPT !.patches = @ \cup store(sections)]
                     /\ reader' = Idle /\ UNCHANGED prepared
           \/ Fails
        /\ UNCHANGED <<github, local, known, counted>>

-----------------------------------------------------------------------------
Push ==
    /\ counted.pushes < MaxPushes
    /\ counted' = [counted EXCEPT !.pushes = @ + 1]
    /\ github' \in [base : Bases, head : Heads] \ {github}
    /\ UNCHANGED <<local, known, cache, reader, prepared, answer>>

(* pull_request_metadata: from GitHub.  Until it expires the cache answers. *)
ReadMetadata ==
    /\ reader.at = "idle" /\ known # github
    /\ known' = github
    /\ UNCHANGED <<github, local, cache, reader, prepared, answer, counted>>

Next ==
    \/ Push \/ ReadMetadata
    \/ \E r \in Requests : Open(r)
    \/ OpenRoot \/ Hint \/ FetchHead \/ FetchMergeBase \/ FetchBase \/ Ladder \/ Failed
    \/ ListFiles
    \/ \E paths \in {<<p>> : p \in ToSet(Paths)} \cup {Paths} : Ask(paths)
    \/ ReadPatches

Spec == Init /\ [][Next]_diffVars

-----------------------------------------------------------------------------
(* Every variable has its type. *)
TypeOK ==
    /\ github \in [base : Bases, head : Heads] /\ known \in [base : Bases, head : Heads]
    /\ reader.at \in {"idle", "root", "hint", "head", "merge base", "base", "ladder", "failed",
                      "list", "patches"}
    /\ {reader.base, reader.head, reader.hint, prepared.base, prepared.head} \subseteq Names
    /\ prepared.kind \in {"none", "opened", "temporary", "deferred"}

(* What is answered for a comparison of two given commits (a commit of the *)
(* pull request, a range of a stack) is the difference of exactly these,   *)
(* whatever moved meanwhile and whatever was cached before.                *)
ExactComparisonsAreExact ==
    prepared.for.exact /\ prepared.kind # "none" =>
        LET b == IF prepared.for.base = None THEN EmptyTree ELSE prepared.for.base
        IN  \A d \in prepared.files \cup answer.docs : d.base = b /\ d.head = prepared.for.head

(* diff_files: of what is shown together at most one patch was cut, a cut   *)
(* patch is never kept, and a read that succeeds returns something.        *)
CutPatchesAreNotKept ==
    /\ answer.kind = "patches" => answer.docs # {}
    /\ Cardinality({d \in answer.docs : ~d.whole}) <= 1
    /\ \A e \in cache.patches : e.value.whole

(* The patches and the list of files of one open comparison are of the     *)
(* same commits, the ones its repository holds.  ARCHITECTURE.md:88        *)
(* promises it of all that is kept by the names of its commits.            *)
PatchesAreOfTheComparison ==
    prepared.kind \in {"opened", "temporary"} =>
        \A d \in prepared.files \cup answer.docs :
            d.base = prepared.base /\ d.head = Resolve(prepared.head, prepared.temporary)
=============================================================================
