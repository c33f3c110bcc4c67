----------------------------- MODULE DiffParsing -----------------------------
(***************************************************************************)
(* What is read from git's output: a patch into the lines of a document,   *)
(* with their numbers; a patch of many files into one section per file;    *)
(* and the listing of changed files with their totals.  Output that grows  *)
(* beyond its bound is cut.                                                *)
(*                                                                         *)
(* A path is a number, in the order of the paths' text.  A line of git's   *)
(* output is what its first characters say it is, which of a changed line  *)
(* the text decides as well: a removed "-- x" reads "--- x".  The combined *)
(* diff of a conflict, quoted paths and colours are left out.              *)
(***************************************************************************)
EXTENDS Naturals, Sequences, SequencesExt, FiniteSets, FiniteSetsExt, Functions, TLC

CONSTANTS
    Patches,       \* the changes of some files each, in git's order
    Listings,      \* listings of changed files
    MaxFiles,      \* the files of an index
    MaxCut         \* bound on where output is cut

VARIABLES
    task,          \* what is to be read, and where its output is cut
    result         \* what was read

vars == <<task, result>>

NoPath   == 0
TextPath == 99     \* what a line that only reads like a path leaves
Nothing  == [lines |-> <<>>]
-----------------------------------------------------------------------------
(* What git writes: its headers, and of each hunk the starts and the lines. *)

Raw(first, a, b) == [first |-> first, a |-> a, b |-> b]

RawLine(l) ==
    IF l.looks THEN Raw(IF l.op = "-" THEN "---" ELSE "+++", TextPath, NoPath)
    ELSE Raw(l.op, NoPath, NoPath)

RawHunk(h) == <<Raw("@@", h.old, h.new)>> \o [i \in DOMAIN h.lines |-> RawLine(h.lines[i])]

RawFile(f) ==
    LET name == IF f.new = NoPath THEN f.old ELSE f.new
        from == IF f.old = NoPath THEN f.new ELSE f.old
    IN  <<Raw("diff", from, name)>>
        \o (IF f.mode THEN <<Raw("old mode", NoPath, NoPath), Raw("new mode", NoPath, NoPath)>>
            ELSE <<>>)
        \o (IF f.old = NoPath THEN <<Raw("new file", NoPath, NoPath)>> ELSE <<>>)
        \o (IF f.new = NoPath THEN <<Raw("deleted file", NoPath, NoPath)>> ELSE <<>>)
        \o (IF f.old # f.new /\ NoPath \notin {f.old, f.new}
            THEN <<Raw("rename from", f.old, NoPath), Raw("rename to", f.new, NoPath)>> ELSE <<>>)
        \o <<Raw("index", NoPath, NoPath)>>
        \o (IF f.binary THEN <<Raw("Binary", NoPath, NoPath)>> ELSE <<>>)
        \o (IF f.hunks # <<>> THEN <<Raw("---", f.old, NoPath), Raw("+++", f.new, NoPath)>> ELSE <<>>)
        \o FlattenSeq([i \in DOMAIN f.hunks |-> RawHunk(f.hunks[i])])

RawPatch(files) == FlattenSeq([i \in DOMAIN files |-> RawFile(files[i])])
-----------------------------------------------------------------------------
(* parse_diff_with_highlighting, line by line. *)

Line(kind, old, new) == [kind |-> kind, old |-> old, new |-> new]
Meta == Line("Meta", 0, 0)
NoFile == [old |-> NoPath, new |-> NoPath, status |-> "", lines |-> <<>>, additions |-> 0,
           deletions |-> 0, binary |-> FALSE]
Start == [file |-> <<>>, files |-> <<>>, old |-> 0, new |-> 0]

Next0(n) == IF n = 0 THEN 0 ELSE n + 1
Into(s, file) == [s EXCEPT !.file = <<file>>]
Push(s, l) == [s EXCEPT !.file[1].lines = Append(@, l)]

(* FileBuilder::new, and the file before it is done. *)
OpenFile(s, old, new) ==
    [Start EXCEPT !.files = s.files \o s.file,
                  !.file = <<[NoFile EXCEPT !.old = old, !.new = new]>>]

AddedLine(s) ==
    [Push(s, Line("Added", 0, s.new)) EXCEPT !.new = Next0(@), !.file[1].additions = @ + 1]
RemovedLine(s) ==
    [Push(s, Line("Removed", s.old, 0)) EXCEPT !.old = Next0(@), !.file[1].deletions = @ + 1]
ContextLine(s) ==
    [Push(s, Line("Context", s.old, s.new)) EXCEPT !.old = Next0(@), !.new = Next0(@)]
(* Mutant: the lines of context do not count on the old side. *)
ContextLineNewOnly(s) ==
    [Push(s, Line("Context", s.old, s.new)) EXCEPT !.new = Next0(@)]

Hunk(s, r) == [Push(s, Line("HunkHeader", 0, 0)) EXCEPT !.old = r.a, !.new = r.b]

ReadLine(s, r) ==
    CASE r.first = "diff" -> OpenFile(s, r.a, r.b)
      [] s.file = <<>> \/ r.first = "index" -> s
      [] r.first = "new file" -> [s EXCEPT !.file[1].status = "added"]
      [] r.first = "deleted file" -> [s EXCEPT !.file[1].status = "deleted"]
      [] r.first = "rename from" ->
            [s EXCEPT !.file[1].old = r.a, !.file[1].status = "renamed"]
      [] r.first = "rename to" ->
            [s EXCEPT !.file[1].new = r.a, !.file[1].status = "renamed"]
      [] r.first = "---" -> [s EXCEPT !.file[1].old = r.a]
      [] r.first = "+++" -> [s EXCEPT !.file[1].new = r.a]
      [] r.first = "Binary" -> [Push(s, Meta) EXCEPT !.file[1].binary = TRUE]
      [] OTHER ->
            IF s.file[1].binary THEN Push(s, Meta)
            ELSE CASE r.first = "@@" -> Hunk(s, r)
                   [] r.first = "+" -> AddedLine(s)
                   [] r.first = "-" -> RemovedLine(s)
                   [] r.first = " " -> ContextLine(s)
                   [] OTHER -> Push(s, Meta)

(* sort_path: the new path, or the old one of a deleted file. *)
SortPath(f) == IF f.new # NoPath THEN f.new ELSE f.old

(* flush_file: a header with the totals, the lines or a notice, and a footer. *)
Flushed(f) ==
    <<[kind |-> "FileHeader", old |-> f.old, new |-> f.new, status |-> f.status,
       additions |-> f.additions, deletions |-> f.deletions]>>
    \o (IF f.lines = <<>> THEN <<Meta>> ELSE f.lines) \o <<Line("FileFooter", 0, 0)>>

Parse(raw, truncated) ==
    LET read   == FoldLeft(ReadLine, Start, raw)
        sorted == SortSeq(read.files \o read.file, LAMBDA f, g : SortPath(f) < SortPath(g))
        lines  == FlattenSeq([i \in DOMAIN sorted |-> Flushed(sorted[i])])
    IN  IF lines = <<>> THEN <<Meta>>
        ELSE lines \o IF truncated THEN <<Meta>> ELSE <<>>

(* split_patch_by_file, and matches. *)
Split(raw) ==
    LET starts == SetToSortSeq({i \in DOMAIN raw : raw[i].first = "diff"}, <)
        End(k) == IF k = Len(starts) THEN Len(raw) ELSE starts[k + 1] - 1
    IN  [k \in DOMAIN starts |->
            [old |-> raw[starts[k]].a, new |-> raw[starts[k]].b,
             body |-> SubSeq(raw, starts[k], End(k))]]
MatchesPath(section, path) == path \in {section.old, section.new}
-----------------------------------------------------------------------------
(* The listing of the changed files, and their totals. *)

Path(path) == [record |-> "path", path |-> path]

(* git diff --name-status -z, and --numstat -z. *)
StatusRecords(e) ==
    <<[record |-> "status", renamed |-> e.old # NoPath]>>
    \o (IF e.old = NoPath THEN <<>> ELSE <<Path(e.old)>>) \o <<Path(e.path)>>
CountRecords(e) ==
    IF e.old = NoPath THEN <<[record |-> "counts", counts |-> e.counts, path |-> e.path]>>
    ELSE <<[record |-> "counts", counts |-> e.counts, path |-> NoPath], Path(e.old), Path(e.path)>>
NameStatus(listing) == FlattenSeq([i \in DOMAIN listing |-> StatusRecords(listing[i])])
NumstatOf(listing) == FlattenSeq([i \in DOMAIN listing |-> CountRecords(listing[i])])
PathsOf(listing) == {listing[i].path : i \in DOMAIN listing}

(* parse_numstat; a record that is no total by itself is passed over. *)
Numstat(records) ==
    LET f[i \in 1 .. Len(records) + 2] ==
            IF i > Len(records) THEN <<>>
            ELSE LET r == records[i] IN
                 IF r.record # "counts" THEN f[i + 1]
                 ELSE IF r.path # NoPath THEN f[i + 1] @@ (r.path :> r.counts)
                 ELSE IF i + 2 > Len(records) THEN <<>>
                 ELSE f[i + 2] @@ (records[i + 2].path :> r.counts)
    IN  f[1]

(* diff_index_files, of the records that were read. *)
Entry(records, i, counts) ==
    LET renamed == records[i].renamed
        path == records[IF renamed THEN i + 2 ELSE i + 1].path
    IN  [path |-> path, old |-> IF renamed THEN records[i + 1].path ELSE NoPath,
         counts |-> IF path \in DOMAIN counts THEN {counts[path]} ELSE {}]

Index(records, truncated, counts) ==
    LET f[i \in 1 .. Len(records) + 3, n \in 0 .. MaxFiles + 1] ==
            IF i > Len(records) THEN [files |-> <<>>, truncated |-> truncated]
            ELSE LET last == IF records[i].renamed THEN i + 2 ELSE i + 1 IN
                 IF n >= MaxFiles \/ last > Len(records)
                 THEN [files |-> <<>>, truncated |-> TRUE]
                 ELSE [f[last + 1, n + 1] EXCEPT !.files = <<Entry(records, i, counts)>> \o @]
    IN  f[1, 0]

(* The totals of the working tree come from its two comparisons. *)
Worktree(listing, areas, staged, unstaged) ==
    [i \in DOMAIN listing |->
        LET counts == IF areas[i] = "staged" THEN staged ELSE unstaged IN
        [path |-> listing[i].path, old |-> listing[i].old,
         counts |-> IF listing[i].path \in DOMAIN counts THEN {counts[listing[i].path]} ELSE {}]]
-----------------------------------------------------------------------------
(* The bounds cut a patch after a line and a listing after a record; of the    *)
(* totals the record that is cut may be left with a part of its path, which    *)
(* may be the path of another file.                                            *)

Init ==
    /\ task \in
           {[kind |-> "patch", files |-> p, cut |-> c] : p \in Patches, c \in 1 .. MaxCut}
           \cup UNION {[kind : {"index"}, listing : {l}, cut : 0 .. MaxCut, totals : 0 .. MaxCut,
                        rest : PathsOf(l) \cup {NoPath, TextPath}] : l \in Listings}
           \cup {[kind |-> "worktree", listing |-> <<l[1]>> \o l, areas |-> <<"staged", "unstaged">> \o a] :
                    l \in Listings, a \in [1 .. 2 -> {"staged", "unstaged"}]}
    /\ result = Nothing

Keep(seq, n) == SubSeq(seq, 1, IF n < Len(seq) THEN n ELSE Len(seq))

ReadPatch ==
    /\ task.kind = "patch" /\ result = Nothing
    /\ LET raw == RawPatch(task.files) IN
       result' = [lines |-> Parse(Keep(raw, task.cut), task.cut < Len(raw)),
                  whole |-> Parse(raw, FALSE), sections |-> Split(raw)]
    /\ task' = task

(* numstat_counts takes what a cut left, the record that was cut included. *)
ReadIndex ==
    /\ task.kind = "index" /\ result = Nothing
    /\ LET names  == NameStatus(task.listing)
           counts == NumstatOf(task.listing)
           kept   == Keep(counts, task.totals)
           torn   == IF Len(kept) < Len(counts) /\ counts[Len(kept) + 1].record = "counts"
                     THEN Append(kept, [counts[Len(kept) + 1] EXCEPT !.path = task.rest])
                     ELSE kept
       IN  result' = Index(Keep(names, task.cut), task.cut < Len(names), Numstat(torn))
    /\ task' = task

(* apply_worktree_counts: each area is compared if a change is of it. *)
ReadWorktree ==
    /\ task.kind = "worktree" /\ result = Nothing
    /\ LET Of(area) == FlattenSeq([i \in DOMAIN task.listing |->
                           IF task.areas[i] # area THEN <<>>
                           ELSE <<[task.listing[i] EXCEPT !.counts = <<area, @>>]>>])
           Counts(area) == Numstat(NumstatOf(Of(area)))
       IN  result' = [files |-> Worktree(task.listing, task.areas, Counts("staged"),
                                         Counts("unstaged"))]
    /\ task' = task

Next == ReadPatch \/ ReadIndex \/ ReadWorktree

Spec == Init /\ [][Next]_vars
-----------------------------------------------------------------------------
(* The reference: numbers by counting the lines above in the hunk. *)

CountOf(lines, n, ops) == Cardinality({j \in 1 .. n : lines[j].op \in ops})
NumberedHunk(h) ==
    <<Line("HunkHeader", 0, 0)>> \o
    [i \in DOMAIN h.lines |->
        LET op == h.lines[i].op
            old == h.old + CountOf(h.lines, i - 1, {" ", "-"})
            new == h.new + CountOf(h.lines, i - 1, {" ", "+"})
        IN  CASE op = "\\" -> Meta
              [] op = "+" -> Line("Added", 0, new)
              [] op = "-" -> Line("Removed", old, 0)
              [] OTHER -> Line("Context", old, new)]
Numbered(f) ==
    (IF f.mode THEN <<Meta, Meta>> ELSE <<>>)
    \o FlattenSeq([i \in DOMAIN f.hunks |-> NumberedHunk(f.hunks[i])])
ChangedIn(f, ops) ==
    MapThenSumSet(LAMBDA i : CountOf(f.hunks[i].lines, Len(f.hunks[i].lines), ops), DOMAIN f.hunks)
LookingIn(f) ==
    MapThenSumSet(LAMBDA i : Len(SelectSeq(f.hunks[i].lines, LAMBDA l : l.looks)), DOMAIN f.hunks)
SumOver(files, Of(_)) == MapThenSumSet(LAMBDA i : Of(files[i]), DOMAIN files)

Headers(lines) == SelectSeq(lines, LAMBDA l : l.kind = "FileHeader")
BodyOf(lines, path) ==
    LET at == SelectInSeq(lines, LAMBDA l : l.kind = "FileHeader" /\ SortPath(l) = path)
        rest == SubSeq(lines, at + 1, Len(lines))
    IN  SubSeq(rest, 1, SelectInSeq(rest, LAMBDA l : l.kind = "FileFooter") - 1)
Read(kind) == task.kind = kind /\ result # Nothing

TypeOK ==
    /\ task.kind \in {"patch", "index", "worktree"}
    /\ Read("patch") => \A i \in DOMAIN result.lines : result.lines[i].old \in Nat

(* A patch becomes one part for each file.  Lines that read like a header are  *)
(* lost, and only they are.  A patch without such lines becomes its files in   *)
(* the order of their paths, with every line under the number it has and the   *)
(* totals of what was added and removed; of one with such lines no more is     *)
(* said: what follows a lost line is numbered without it.                      *)
PatchesAreRead ==
    Read("patch") =>
        LET files == task.files
            heads == Headers(result.whole)
            lost  == SumOver(files, LookingIn)
            HeadOf(f, head) ==
                /\ SortPath(head) = SortPath(f)
                /\ f.hunks # <<>> => head.old = f.old
                /\ head.additions = ChangedIn(f, {"+"}) /\ head.deletions = ChangedIn(f, {"-"})
        IN  /\ Len(heads) = Len(files)
            /\ Len(SelectSeq(result.whole, LAMBDA l : l.kind \in {"Added", "Removed"})) + lost
               = SumOver(files, LAMBDA f : ChangedIn(f, {"+", "-"}))
            /\ lost = 0 =>
                  /\ \A i \in 1 .. Len(heads) - 1 : SortPath(heads[i]) < SortPath(heads[i + 1])
                  /\ \A i \in DOMAIN files :
                        /\ \E k \in DOMAIN heads : HeadOf(files[i], heads[k])
                        /\ BodyOf(result.whole, SortPath(files[i])) =
                              IF Numbered(files[i]) = <<>> THEN <<Meta>> ELSE Numbered(files[i])

(* A patch that was cut says so; and one without lines that read like a header *)
(* has the lines before the cut, as they are in the whole.                     *)
CutPatchesSayIt ==
    Read("patch") /\ task.cut < Len(RawPatch(task.files)) =>
        LET heads == Headers(result.lines) IN
        /\ Last(result.lines) = Meta
        /\ SumOver(task.files, LookingIn) = 0 =>
              \A k \in DOMAIN heads :
                  LET path == SortPath(heads[k]) IN
                  \/ BodyOf(result.lines, path) = <<Meta>>
                  \/ IsPrefix(BodyOf(result.lines, path), BodyOf(result.whole, path))

(* A patch of many files read at once says of each what its own patch says. *)
SectionsAreTheFiles ==
    Read("patch") =>
        /\ Len(result.sections) = Len(task.files)
        /\ \A i \in DOMAIN task.files :
              LET f == task.files[i]
                  k == SelectInSeq(result.sections, LAMBDA s : MatchesPath(s, SortPath(f)))
              IN  Parse(result.sections[k].body, FALSE) = Parse(RawFile(f), FALSE)

(* An index has the files of the listing in order, each with its own totals or *)
(* none, and all of them unless it says that it was cut.  Only the file whose  *)
(* path is what a cut left of another's may have the totals of that one.       *)
IndexesAreOfTheListing ==
    /\ Read("index") =>
        /\ Len(result.files) < Len(task.listing) => result.truncated
        /\ Len(result.files) <= MaxFiles
        /\ \A i \in DOMAIN result.files :
              /\ result.files[i].path = task.listing[i].path
              /\ result.files[i].old = task.listing[i].old
              /\ result.files[i].path # task.rest =>
                    result.files[i].counts \subseteq {task.listing[i].counts}
    /\ Read("worktree") =>
        \A i \in DOMAIN result.files :
            result.files[i].counts = {<<task.areas[i], task.listing[i].counts>>}
=============================================================================
