---------------------------- MODULE CommitReads -----------------------------
(***************************************************************************)
(* The commits of a pull request (git/github/commits.rs, commits/): those  *)
(* it introduces, or the whole history of its head.  They are read from    *)
(* the opened repository when that has them, else from the cache, else     *)
(* from GitHub page by page, or from a disposable repository.              *)
(*                                                                         *)
(* GitHub's refs move between two pages, and the user's Git may deepen or  *)
(* cut the history of the opened repository between two reads of it.       *)
(* Histories are linear; a commit is a name.                               *)
(***************************************************************************)
EXTENDS Naturals, Sequences, FiniteSets, SequencesExt

CONSTANTS
    Chain,          \* of a commit: itself and its ancestors, newest first
    Bases, Heads,   \* what the two refs may point to
    Clones,         \* what the opened repository may have, and where its history is cut
    PageSize,       \* MAX_COMMITS_PER_PAGE
    MaxPushes, MaxDeepenings, MaxAsks   \* bounds

VARIABLES
    github,     \* the refs of base and head
    clone,      \* objects, and the commits whose parents were cut
    known,      \* the metadata: the object ids of base and head
    lists,      \* the cached lists
    reader,     \* the step of the reading that runs
    answer,
    counted

commitVars == <<github, clone, known, lists, reader, answer, counted>>

Kinds == {"introduced", "history"}
(* Oldest first.                                                           *)
Introduced(b, h) == Reverse(SelectSeq(Chain[h], LAMBDA c : c \notin ToSet(Chain[b])))
Wanted(kind, refs) ==
    IF kind = "introduced" THEN Introduced(refs.base, refs.head) ELSE Reverse(Chain[refs.head])

Idle == [at |-> "idle", kind |-> "history", for |-> [base |-> "none", head |-> "none"],
         disposable |-> FALSE, total |-> 0, pages |-> <<>>, before |-> 0]
NoAnswer == [ok |-> FALSE, kind |-> "history", for |-> Idle.for, list |-> <<>>, past |-> FALSE]

Init ==
    /\ github \in [base : Bases, head : Heads]
    /\ known = github
    /\ clone \in Clones
    /\ lists = {} /\ reader = Idle /\ answer = NoAnswer
    /\ counted = [pushes |-> 0, deepenings |-> 0, asks |-> 0]

(* Three keys: of a list read locally, of a history, and of pages.         *)
Key(source, refs) == [source |-> source, for |-> refs]
Kept(key) == {e \in lists : e.key = key}
LocalKey == Key(IF reader.kind = "history" THEN "history" ELSE "local", reader.for)

(* With a list goes whether the base's own history was cut where it was    *)
(* read, which no code looks at.                                           *)
Answers(list, past) ==
    /\ answer' = [ok |-> TRUE, kind |-> reader.kind, for |-> reader.for, list |-> list,
                  past |-> past]
    /\ reader' = Idle
AnswersKept(e) == Answers(e.list, e.past)
Remembers(key, list, past) ==
    lists' = {e \in lists : e.key # key} \cup {[key |-> key, list |-> list, past |-> past]}
Fails == answer' = NoAnswer /\ reader' = Idle /\ UNCHANGED lists

Ask(kind) ==
    LET kept == Kept(Key("history", known))
    IN  /\ reader.at = "idle" /\ counted.asks < MaxAsks
        /\ counted' = [counted EXCEPT !.asks = @ + 1]
        /\ IF kind = "history" /\ kept # {}
           THEN /\ answer' = [ok |-> TRUE, kind |-> kind, for |-> known,
                              list |-> (CHOOSE e \in kept : TRUE).list, past |-> FALSE]
                /\ UNCHANGED reader
           ELSE /\ reader' = [Idle EXCEPT !.at = "count", !.kind = kind, !.for = known]
                /\ answer' = NoAnswer
        /\ UNCHANGED <<github, clone, known, lists>>

-----------------------------------------------------------------------------
(* local_commit_snapshot: Git is asked for the range twice, the first time *)
(* to see whether it reaches a commit whose parents were cut (the list of   *)
(* these is read just before, in the same step).                           *)

Repository ==
    IF reader.disposable THEN [objects |-> ToSet(Chain[reader.for.head]), cut |-> {}] ELSE clone

(* What Git walks from a commit: to the root, or to where it was cut.      *)
Walk(c, repository) ==
    LET ends == {i \in DOMAIN Chain[c] : Chain[c][i] \in repository.cut \/ i = Len(Chain[c])}
    IN  SubSeq(Chain[c], 1, CHOOSE i \in ends : \A j \in ends : i <= j)
RangeOf(repository) ==
    LET hidden == IF reader.kind = "history" THEN <<>> ELSE Walk(reader.for.base, repository)
        walked == Walk(reader.for.head, repository)
        listed == SelectSeq(walked, LAMBDA c : c \notin ToSet(hidden))
        bound == SelectSeq(walked, LAMBDA c : c \in ToSet(hidden))
    IN  [list |-> listed,
         seen |-> ToSet(listed) \cup (IF bound = <<>> \/ listed = <<>> THEN {} ELSE {Head(bound)}),
         complete |-> ToSet(walked) \cup ToSet(hidden) \subseteq repository.objects]

(* The next source: the pages, from the cache or from GitHub; or, for a    *)
(* history, a disposable repository.                                       *)
NotLocal ==
    IF reader.kind = "history"
    THEN IF reader.disposable THEN Fails
         ELSE reader' = [reader EXCEPT !.at = "fetch"] /\ UNCHANGED <<lists, answer>>
    ELSE LET kept == Kept(Key("pages", reader.for))
         IN  IF kept # {} THEN AnswersKept(CHOOSE e \in kept : TRUE) /\ UNCHANGED lists
             ELSE reader' = [reader EXCEPT !.at = "page"] /\ UNCHANGED <<lists, answer>>

(* Mutant: a cut is no reason to distrust a list. *)
TrustedWhenComplete(range, cut) == range.complete

(* A commit of the base's side that was cut is not among those that are seen: *)
(* Git walks the base no further, and lists what the base has with the head's. *)
Trusted(range, cut) == range.complete /\ range.seen \cap cut = {}
OwnOfBase(refs) == ToSet(Chain[refs.base]) \ ToSet(Chain[refs.head])
CutAtTheBase ==
    reader.kind = "introduced" /\ Repository.cut \cap OwnOfBase(reader.for) # {}

Count ==
    LET range == RangeOf(Repository)
        kept == Kept(LocalKey)
    IN  /\ reader.at = "count"
        /\ IF ~Trusted(range, Repository.cut) THEN NotLocal
           ELSE IF kept # {} THEN AnswersKept(CHOOSE e \in kept : TRUE) /\ UNCHANGED lists
           ELSE /\ reader' = [reader EXCEPT !.at = "log", !.total = Len(range.list)]
                /\ UNCHANGED <<lists, answer>>
        /\ UNCHANGED <<github, clone, known, counted>>

Log ==
    LET range == RangeOf(Repository)
        list == Reverse(range.list)
    IN  /\ reader.at = "log"
        /\ IF ~range.complete \/ Len(list) # reader.total THEN NotLocal
           ELSE IF list # <<>> /\ Last(list) # reader.for.head THEN Fails
           ELSE Answers(list, CutAtTheBase) /\ Remembers(LocalKey, list, CutAtTheBase)
        /\ UNCHANGED <<github, clone, known, counted>>

FetchHistory ==
    /\ reader.at = "fetch"
    /\ \/ /\ reader' = [reader EXCEPT !.at = "count", !.disposable = TRUE]
          /\ UNCHANGED <<lists, answer>>
       \/ Fails
    /\ UNCHANGED <<github, clone, known, counted>>

-----------------------------------------------------------------------------
(* pull_request_commit_pages and finish_commit_pages.                      *)

Page(end) ==
    LET all == Introduced(github.base, github.head)
        last == IF end = 0 THEN Len(all) ELSE end - 1
        first == IF last > PageSize THEN last - PageSize + 1 ELSE 1
    IN  [base |-> github.base, head |-> github.head, total |-> Len(all),
         commits |-> SubSeq(all, first, last), more |-> first > 1, start |-> first]

Agrees(page, total) ==
    page.base = reader.for.base /\ page.head = reader.for.head /\ page.total = total
PagesAreSound(pages) ==
    LET first == pages[1]
        fetched == FlattenSeq([i \in DOMAIN pages |-> pages[i].commits])
    IN  /\ first.total > 0 => first.commits # <<>> /\ Last(first.commits) = reader.for.head
        /\ \A i \in DOMAIN pages : Agrees(pages[i], first.total) /\ Len(pages[i].commits) <= PageSize
        /\ ~Last(pages).more /\ Len(fetched) = first.total
(* validate_pull_request_commits                                           *)
ListIsSound(list) == IsInjective(list) /\ (list # <<>> => Last(list) = reader.for.head)

ReadPage ==
    LET page == Page(reader.before)
        pages == Append(reader.pages, page)
        list == FlattenSeq(Reverse([i \in DOMAIN pages |-> pages[i].commits]))
    IN  /\ reader.at = "page"
        /\ \/ /\ page.more
              /\ reader' = [reader EXCEPT !.pages = pages, !.before = page.start]
              /\ UNCHANGED <<lists, answer>>
           \/ /\ ~page.more /\ PagesAreSound(pages) /\ ListIsSound(list)
              /\ Answers(list, FALSE) /\ Remembers(Key("pages", reader.for), list, FALSE)
           \/ /\ ~page.more /\ ~(PagesAreSound(pages) /\ ListIsSound(list)) /\ Fails
           \/ Fails
        /\ UNCHANGED <<github, clone, known, counted>>

-----------------------------------------------------------------------------
Push ==
    /\ counted.pushes < MaxPushes
    /\ counted' = [counted EXCEPT !.pushes = @ + 1]
    /\ github' \in [base : Bases, head : Heads] \ {github}
    /\ UNCHANGED <<clone, known, lists, reader, answer>>

Deepen ==
    /\ counted.deepenings < MaxDeepenings
    /\ counted' = [counted EXCEPT !.deepenings = @ + 1]
    /\ clone' \in Clones \ {clone}
    /\ UNCHANGED <<github, known, lists, reader, answer>>

ReadMetadata ==
    /\ reader.at = "idle" /\ known # github
    /\ known' = github
    /\ UNCHANGED <<github, clone, lists, reader, answer, counted>>

Next ==
    \/ Push \/ Deepen \/ ReadMetadata
    \/ \E kind \in Kinds : Ask(kind)
    \/ Count \/ Log \/ FetchHistory \/ ReadPage

Spec == Init /\ [][Next]_commitVars

-----------------------------------------------------------------------------
(* Every variable has its type. *)
TypeOK ==
    /\ github \in [base : Bases, head : Heads] /\ known \in [base : Bases, head : Heads]
    /\ clone \in Clones
    /\ reader.at \in {"idle", "count", "log", "fetch", "page"} /\ reader.kind \in Kinds
    /\ reader.total \in Nat /\ reader.before \in Nat
    /\ \A e \in lists : e.key.source \in {"local", "history", "pages"}

(* Whatever moved while it was read, a list of commits that is answered or *)
(* kept has all the commits of its two object ids and no other, in order;  *)
(* but one that was read from the opened repository while the base's own   *)
(* history was cut there has the whole history of the head.  A history     *)
(* never has less or more.                                                 *)
IsTrue(list, kind, refs, past) ==
    list = Wanted(IF past THEN "history" ELSE kind, refs)
CommitListsAreWhole ==
    /\ answer.ok => IsTrue(answer.list, answer.kind, answer.for, answer.past)
    /\ \A e \in lists :
          /\ IsTrue(e.list, IF e.key.source = "history" THEN "history" ELSE "introduced",
                    e.key.for, e.past)
          /\ e.past => e.key.source = "local"

(* ARCHITECTURE.md:82 of the opened repository, whose shallow boundaries are *)
(* validated "before trusting the local result": "Stack member lists keep    *)
(* the narrower base/head range".                                            *)
ListsKeepTheRange ==
    answer.ok /\ answer.kind = "introduced" => answer.list = Introduced(answer.for.base, answer.for.head)
=============================================================================
