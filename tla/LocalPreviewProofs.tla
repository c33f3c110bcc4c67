-------------------------- MODULE LocalPreviewProofs --------------------------
(***************************************************************************)
(* What LocalPreview guarantees for any files, trees, commits and tables.  *)
(***************************************************************************)
EXTENDS LocalPreview, ServedLanesProofs, FiniteSetTheorems

Patches == UNION {[S -> Patch] : S \in SUBSET Files}

Pane ==
    [request : LocalDiffRequest, preserving : BOOLEAN, preserved : SUBSET Files,
     workspace : Generation \cup {0}, indexed : BOOLEAN, index : Seq(Files),
     documents : Patches, loading : Files \cup {NoFile}, pending : Seq(Files),
     document_loading : BOOLEAN,
     document : [headers : Seq(Files), open : SUBSET Files, patches : Patches],
     collapsed : SUBSET Files, expanded : SUBSET Files, selected : Files \cup {NoFile},
     comparing : BOOLEAN, cut : BOOLEAN]

Folding == [all : BOOLEAN, preferred : BOOLEAN]

OfSubject(patches, r) ==
    \A f \in DOMAIN patches :
        patches[f] # Failed => patches[f].kind = r.kind /\ patches[f].name = r.name

(* A section has no name; a change has that of its file. *)
Titled(r) == r.kind = "section" => r.name = NoFile

(* What holds of every pane, on display or left. *)
Kept(p) ==
    /\ Titled(p.request)
    /\ DOMAIN p.documents \subseteq ToSet(p.index)
    /\ DOMAIN p.document.patches \subseteq p.document.open
    /\ p.indexed <=> p.workspace # 0
    /\ p.workspace = 0 => p.index = <<>>
    /\ p.request # NoRequest =>
          OfSubject(p.documents, p.request) /\ OfSubject(p.document.patches, p.request)

(* The files that are read, and that wait to be. *)
Queued(p) ==
    /\ p.loading \in ToSet(p.index) \cup {NoFile}
    /\ ToSet(p.pending) \subseteq ToSet(p.index)
    /\ p.loading \notin ToSet(p.pending)
    /\ \A i, j \in DOMAIN p.pending : p.pending[i] = p.pending[j] => i = j

Good(p) == p \in Pane /\ Kept(p) /\ Queued(p)

OnlyReads(p, q) ==
    /\ q = [p EXCEPT !.loading = q.loading, !.pending = q.pending]
    /\ p.loading # NoFile => q.loading = p.loading
    /\ q.loading = NoFile => q.pending = p.pending
-----------------------------------------------------------------------------
LEMMA PatchesAreFunctions ==
    ASSUME NEW d \in Patches
    PROVE  DOMAIN d \in SUBSET Files /\ \A f \in DOMAIN d : d[f] \in Patch
BY DEF Patches

LEMMA FunctionsArePatches ==
    ASSUME NEW S \in SUBSET Files, NEW d \in [S -> Patch]
    PROVE  d \in Patches
BY DEF Patches

LEMMA NoPatchesTyped == NoPatches \in Patches /\ DOMAIN NoPatches = {} /\ Failed \in Patch
<1>1. {} \in SUBSET Files /\ NoPatches \in [{} -> Patch]
    BY DEF NoPatches
<1>2. Failed \in Patch
    BY DEF Failed, Patch
<1> QED
    BY <1>1, <1>2, FunctionsArePatches

LEMMA FilesOfList ==
    ASSUME NEW s \in Seq(Files)
    PROVE  /\ ToSet(s) \in SUBSET Files /\ NoFile \notin ToSet(s)
           /\ DOMAIN s = 1 .. Len(s) /\ Len(s) \in Nat
           /\ ToSet(s) = {} <=> s = <<>>
<1>1. DOMAIN s = 1 .. Len(s) /\ Len(s) \in Nat
    BY LenProperties
<1>2. ToSet(s) \in SUBSET Files
    <2>1. \A i \in DOMAIN s : s[i] \in Files
        BY <1>1, ElementOfSeq
    <2> QED
        BY <2>1 DEF ToSet
<1>3. CASE s = <<>>
    <2>1. DOMAIN s = {}
        BY <1>1, <1>3
    <2>2. ToSet(s) = {}
        BY <2>1 DEF ToSet
    <2> QED
        BY <1>1, <1>2, <1>3, <2>2, PreviewAssumption
<1>4. CASE s # <<>>
    <2>1. 1 \in DOMAIN s
        BY <1>1, <1>4, EmptySeq
    <2>2. s[1] \in ToSet(s)
        BY <2>1 DEF ToSet
    <2> QED
        BY <1>1, <1>2, <1>4, <2>2, PreviewAssumption
<1> QED
    BY <1>3, <1>4
-----------------------------------------------------------------------------
(* Reading the files one by one. *)

LEMMA WithFileReads ==
    ASSUME NEW p, Good(p), NEW f
    PROVE  /\ Good(WithFile(p, f)) /\ OnlyReads(p, WithFile(p, f))
           /\ p.workspace # 0 /\ f \in ToSet(p.index) /\ f \notin DOMAIN p.documents
              /\ p.loading = NoFile /\ f \notin ToSet(p.pending)
              => WithFile(p, f).loading = f
<1> DEFINE q == WithFile(p, f)
           refused == \/ p.workspace = 0 \/ f \notin ToSet(p.index) \/ f \in DOMAIN p.documents
                      \/ f = p.loading \/ f \in ToSet(p.pending)
<1>0. p \in Pane /\ p.pending \in Seq(Files) /\ ToSet(p.index) \in SUBSET Files
      /\ NoFile \notin ToSet(p.index)
    BY FilesOfList DEF Good, Pane
<1>1. CASE refused
    <2>1. q = p
        BY <1>1 DEF WithFile
    <2> QED
        BY <1>0, <1>1, <2>1 DEF OnlyReads, Pane
<1>2. CASE ~ refused /\ p.loading # NoFile
    <2>1. q = [p EXCEPT !.pending = Append(p.pending, f)]
        BY <1>2 DEF WithFile
    <2>2. f \in Files /\ f \in ToSet(p.index) /\ f # p.loading /\ f \notin ToSet(p.pending)
        BY <1>0, <1>2
    <2>3. /\ Append(p.pending, f) \in Seq(Files)
          /\ DOMAIN Append(p.pending, f) = 1 .. Len(p.pending) + 1
          /\ \A i \in 1 .. Len(p.pending) : Append(p.pending, f)[i] = p.pending[i]
          /\ Append(p.pending, f)[Len(p.pending) + 1] = f
          /\ DOMAIN p.pending = 1 .. Len(p.pending) /\ Len(p.pending) \in Nat
        BY <1>0, <2>2, AppendProperties, LenProperties
    <2>4. ToSet(Append(p.pending, f)) = ToSet(p.pending) \cup {f}
        BY <2>3 DEF ToSet
    <2>5. \A i, j \in DOMAIN Append(p.pending, f) :
             Append(p.pending, f)[i] = Append(p.pending, f)[j] => i = j
        BY <2>2, <2>3 DEF Good, Queued, ToSet
    <2>6. q \in Pane
        BY <1>0, <2>1, <2>3 DEF Pane
    <2>7. Kept(q)
        BY <1>0, <2>1 DEF Good, Kept, Pane
    <2>8. Queued(q)
        BY <1>0, <2>1, <2>2, <2>4, <2>5 DEF Good, Queued, Pane
    <2>9. OnlyReads(p, q)
        BY <1>0, <1>2, <2>1 DEF OnlyReads, Pane
    <2> QED
        BY <1>2, <2>6, <2>7, <2>8, <2>9 DEF Good
<1>3. CASE ~ refused /\ p.loading = NoFile
    <2>1. q = [p EXCEPT !.loading = f]
        BY <1>3 DEF WithFile
    <2>2. f \in Files /\ f \in ToSet(p.index) /\ f \notin ToSet(p.pending) /\ f # NoFile
        BY <1>0, <1>3
    <2>3. q \in Pane /\ Kept(q) /\ Queued(q) /\ OnlyReads(p, q)
        BY <1>0, <1>3, <2>1, <2>2, ZenonT(40) DEF Pane, Good, Kept, Queued, OnlyReads
    <2> QED
        BY <1>0, <2>1, <2>3 DEF Good, Pane
<1> QED
    BY <1>1, <1>2, <1>3

WithSome(p, files, S, f) ==
    f = [i \in 0 .. Len(files) |->
            IF i = 0 THEN p
            ELSE IF files[i] \in S THEN WithFile(f[i - 1], files[i]) ELSE f[i - 1]]

LEMMA WithFilesIsLast ==
    ASSUME NEW p, NEW files, NEW S, Len(files) \in Nat
    PROVE  \E f : WithSome(p, files, S, f) /\ WithFiles(p, files, S) = f[Len(files)]
<1> DEFINE step(q, i) == IF files[i] \in S THEN WithFile(q, files[i]) ELSE q
           run(f, n) == f = [i \in 0 .. n |-> IF i = 0 THEN p ELSE step(f[i - 1], i)]
           T == {n \in Nat : ~ \E f : run(f, n)}
<1>1. T = {}
    <2> SUFFICES ASSUME T # {} PROVE FALSE
        OBVIOUS
    <2>1. PICK n \in T : \A m \in T : n <= m
        BY LeastNatural
    <2> HIDE DEF step
    <2>2. n # 0
        <3>1. run([i \in 0 .. 0 |-> p], 0)
            OBVIOUS
        <3> QED
            BY <3>1
    <2>3. n - 1 \in Nat /\ n - 1 \notin T
        BY <2>1, <2>2
    <2>4. PICK f : run(f, n - 1)
        BY <2>3
    <2>5. run([i \in 0 .. n |-> IF i < n THEN f[i] ELSE step(f[n - 1], n)], n)
        BY <2>2, <2>3, <2>4
    <2> QED
        BY <2>1, <2>5
<1>2. PICK f : run(f, Len(files))
    BY <1>1
<1>3. WithSome(p, files, S, f)
    BY <1>2 DEF WithSome
<1> QED
    BY <1>3 DEF WithFiles, WithSome

(* By induction on the length of the list. *)
LEMMA ReadsAgain ==
    ASSUME NEW p \in Pane, NEW q \in Pane, NEW r, OnlyReads(p, q), OnlyReads(q, r)
    PROVE  OnlyReads(p, r)
<1>1. PICK l, w : l = q.loading /\ w = q.pending
    OBVIOUS
<1>2. PICK m, x : m = r.loading /\ x = r.pending
    OBVIOUS
<1>3. q = [p EXCEPT !.loading = l, !.pending = w] /\ r = [q EXCEPT !.loading = m, !.pending = x]
    BY <1>1, <1>2 DEF OnlyReads
<1>4. r = [p EXCEPT !.loading = m, !.pending = x]
    BY <1>3 DEF Pane
<1>5. p.loading # NoFile => m = p.loading
    BY <1>1, <1>2 DEF OnlyReads
<1>6. m = NoFile => x = p.pending
    <2> SUFFICES ASSUME m = NoFile PROVE x = p.pending
        OBVIOUS
    <2>1. x = w
        BY <1>1, <1>2 DEF OnlyReads
    <2>2. CASE l = NoFile
        BY <1>1, <2>1, <2>2 DEF OnlyReads
    <2>3. CASE l # NoFile
        BY <1>1, <1>2, <2>3 DEF OnlyReads
    <2> QED
        BY <2>2, <2>3
<1> QED
    BY <1>2, <1>4, <1>5, <1>6 DEF OnlyReads

LEMMA WithFilesReads ==
    ASSUME NEW p, Good(p), NEW files \in Seq(Files), NEW S
    PROVE  Good(WithFiles(p, files, S)) /\ OnlyReads(p, WithFiles(p, files, S))
<1>0. Len(files) \in Nat
    BY LenProperties
<1>1. PICK f : WithSome(p, files, S, f) /\ WithFiles(p, files, S) = f[Len(files)]
    BY <1>0, WithFilesIsLast
<1> DEFINE Bad == {i \in 0 .. Len(files) : ~ (Good(f[i]) /\ OnlyReads(p, f[i]))}
<1>2. Bad = {}
    <2> SUFFICES ASSUME Bad # {} PROVE FALSE
        OBVIOUS
    <2>0. Bad \in SUBSET Nat
        BY <1>0
    <2>1. PICK n \in Bad : \A m \in Bad : n <= m
        <3> HIDE DEF Bad
        <3> QED
            BY <2>0, LeastNatural
    <2>2. n # 0
        <3>1. f[0] = p
            BY <1>0, <1>1 DEF WithSome
        <3>2. OnlyReads(p, p)
            BY DEF OnlyReads, Good, Pane
        <3> QED
            BY <3>1, <3>2
    <2>3. n \in 1 .. Len(files) /\ n - 1 \in 0 .. Len(files) /\ n - 1 \notin Bad
        BY <1>0, <2>1, <2>2
    <2>4. Good(f[n - 1]) /\ OnlyReads(p, f[n - 1])
        BY <2>3
    <2>5. f[n] \in {WithFile(f[n - 1], files[n]), f[n - 1]}
        BY <1>0, <1>1, <2>3 DEF WithSome
    <2> HIDE DEF Bad
    <2>6. Good(f[n]) /\ OnlyReads(f[n - 1], f[n])
        <3>1. OnlyReads(f[n - 1], f[n - 1])
            BY <2>4 DEF OnlyReads, Good, Pane
        <3> QED
            BY <2>4, <2>5, <3>1, WithFileReads
    <2>7. OnlyReads(p, f[n])
        <3>1. PICK q, r : q = f[n - 1] /\ r = f[n]
            OBVIOUS
        <3>2. Good(q) /\ Good(r) /\ OnlyReads(p, q) /\ OnlyReads(q, r)
            BY <2>4, <2>6, <3>1
        <3>3. OnlyReads(p, r)
            BY <3>2, ReadsAgain DEF Good
        <3> QED
            BY <3>1, <3>3
    <2> QED
        BY <2>1, <2>6, <2>7 DEF Bad
<1> QED
    BY <1>0, <1>1, <1>2
-----------------------------------------------------------------------------
(* What the operations on a pane leave as it was. *)
SameWork(p, q) ==
    /\ q.workspace = p.workspace /\ q.indexed = p.indexed /\ q.index = p.index
    /\ q.request = p.request /\ q.comparing = p.comparing

SameReads(p, q) ==
    q.loading = p.loading /\ q.pending = p.pending /\ q.document_loading = p.document_loading

LEMMA RebuiltKeeps ==
    ASSUME NEW p, Good(p), NEW fold
    PROVE  /\ Good(Rebuilt(p, fold)) /\ SameWork(p, Rebuilt(p, fold))
           /\ SameReads(p, Rebuilt(p, fold))
           /\ Rebuilt(p, fold).preserving = p.preserving
<1> DEFINE S == Open(p, fold) \cap DOMAIN p.documents
           d == [headers |-> p.index, open |-> Open(p, fold), patches |-> Restrict(p.documents, S)]
<1>0. p \in Pane /\ p.index \in Seq(Files) /\ p.documents \in Patches /\ p.expanded \in SUBSET Files
    BY DEF Good, Pane
<1>1. ToSet(p.index) \in SUBSET Files
    BY <1>0, FilesOfList
<1>2. Open(p, fold) \in SUBSET Files
    BY <1>1 DEF Open
<1>3. /\ S \in SUBSET Files /\ Restrict(p.documents, S) \in [S -> Patch]
      /\ \A f \in S : Restrict(p.documents, S)[f] = p.documents[f]
    BY <1>0, <1>2, PatchesAreFunctions DEF Restrict
<1>4. Restrict(p.documents, S) \in Patches
    BY <1>3, FunctionsArePatches
<1>5. d.headers = p.index /\ d.open = Open(p, fold) /\ DOMAIN d.patches = S /\ S \subseteq d.open
      /\ (\A f \in S : d.patches[f] = p.documents[f]) /\ S \subseteq DOMAIN p.documents
      /\ d \in [headers : Seq(Files), open : SUBSET Files, patches : Patches]
    BY <1>0, <1>2, <1>3, <1>4
<1>6. Rebuilt(p, fold) = [p EXCEPT !.document = d]
    BY DEF Rebuilt
<1> HIDE DEF d, S
<1>7. Rebuilt(p, fold) \in Pane
    BY <1>0, <1>5, <1>6 DEF Pane
<1>8. SameWork(p, Rebuilt(p, fold)) /\ SameReads(p, Rebuilt(p, fold))
      /\ Rebuilt(p, fold).preserving = p.preserving /\ Rebuilt(p, fold).document = d
      /\ Rebuilt(p, fold).documents = p.documents
    BY <1>0, <1>6 DEF Pane, SameWork, SameReads
<1>9. Kept(Rebuilt(p, fold))
    BY <1>5, <1>8 DEF Good, Kept, SameWork, OfSubject
<1>10. Queued(Rebuilt(p, fold))
    BY <1>8 DEF Good, Queued, SameWork, SameReads
<1> QED
    BY <1>7, <1>8, <1>9, <1>10 DEF Good

LEMMA FinalizedKeeps ==
    ASSUME NEW p, Good(p), NEW fold
    PROVE  /\ Good(Finalized(p, fold)) /\ SameWork(p, Finalized(p, fold))
           /\ SameReads(p, Finalized(p, fold))
           /\ ~ Finalized(p, fold).preserving
<1> DEFINE files == ToSet(p.index)
           new   == IF fold.all \/ fold.preferred \/ Len(p.index) <= 1 THEN {}
                    ELSE IF Cardinality(p.preserved) <= 1 THEN files ELSE files \ p.preserved
           first == IF p.selected \in files THEN p.selected
                    ELSE IF p.index = <<>> THEN NoFile ELSE p.index[1]
           coll  == (p.collapsed \cap files) \cup new
           exp   == p.expanded \cap files
<1>0. p \in Pane /\ p.index \in Seq(Files) /\ p.collapsed \in SUBSET Files
      /\ p.selected \in Files \cup {NoFile}
    BY DEF Good, Pane
<1>1. files \in SUBSET Files /\ DOMAIN p.index = 1 .. Len(p.index) /\ Len(p.index) \in Nat
    BY <1>0, FilesOfList
<1>2. new \in SUBSET Files /\ coll \in SUBSET Files /\ exp \in SUBSET Files
    BY <1>0, <1>1
<1>3. first \in Files \cup {NoFile}
    BY <1>0, <1>1, EmptySeq
<1>4. Finalized(p, fold) =
        [p EXCEPT !.collapsed = coll, !.expanded = exp, !.selected = first,
                  !.preserving = FALSE, !.preserved = {}]
    BY <1>0 DEF Finalized, Pane
<1> HIDE DEF coll, exp, first, new, files
<1>5. Finalized(p, fold) \in Pane
    BY <1>0, <1>2, <1>3, <1>4, ZenonT(40) DEF Pane
<1>6. SameWork(p, Finalized(p, fold)) /\ SameReads(p, Finalized(p, fold))
      /\ Finalized(p, fold).documents = p.documents /\ Finalized(p, fold).document = p.document
      /\ ~ Finalized(p, fold).preserving
    BY <1>0, <1>4 DEF Pane, SameWork, SameReads
<1> QED
    BY <1>5, <1>6 DEF Good, Kept, Queued, SameWork, SameReads

LEMMA RestOfList ==
    ASSUME NEW s \in Seq(Files), NEW i \in DOMAIN s,
           \A j, k \in DOMAIN s : s[j] = s[k] => j = k
    PROVE  LET t == SubSeq(s, i + 1, Len(s)) IN
           /\ t \in Seq(Files) /\ ToSet(t) \subseteq ToSet(s)
           /\ s[i] \in ToSet(s) /\ s[i] \notin ToSet(t)
           /\ \A j, k \in DOMAIN t : t[j] = t[k] => j = k
<1> DEFINE t == SubSeq(s, i + 1, Len(s))
<1>1. DOMAIN s = 1 .. Len(s) /\ Len(s) \in Nat /\ i \in 1 .. Len(s)
    BY LenProperties
<1>2. /\ t \in Seq(Files) /\ DOMAIN t = 1 .. Len(s) - i
      /\ \A j \in 1 .. Len(s) - i : t[j] = s[i + j]
    <2>1. CASE i < Len(s)
        <3>1. i + 1 \in 1 .. Len(s) + 1 /\ Len(s) \in i .. Len(s)
            BY <1>1, <2>1
        <3> QED
            BY <1>1, <2>1, <3>1, SubSeqProperties, LenProperties
    <2>2. CASE i = Len(s)
        <3>1. t = <<>>
            BY <1>1, <2>2
        <3> QED
            BY <1>1, <2>2, <3>1
    <2> QED
        BY <1>1, <2>1, <2>2
<1> HIDE DEF t
<1>3. \A j \in DOMAIN t : i + j \in DOMAIN s /\ i + j # i /\ t[j] = s[i + j]
    BY <1>1, <1>2
<1>4. ToSet(t) \subseteq ToSet(s) /\ s[i] \in ToSet(s) /\ s[i] \notin ToSet(t)
    BY <1>1, <1>3 DEF ToSet
<1>5. \A j, k \in DOMAIN t : t[j] = t[k] => j = k
    BY <1>1, <1>2, <1>3
<1> QED
    BY <1>2, <1>4, <1>5 DEF t
(* The next file is read, and an index whose files are all read ends the      *)
(* loading of the document.                                                   *)
LEMMA NextFileReads ==
    ASSUME NEW p, Good(p), p.loading = NoFile, NEW fold
    PROVE  LET q == WithNextFile(p, fold) IN
           /\ Good(q) /\ SameWork(p, q)
           /\ q.document_loading => p.document_loading
           /\ q.document_loading /\ q.indexed => q.loading # NoFile
<1> DEFINE wanted(f) == ~ Collapsed(p, fold, f) /\ f \notin DOMAIN p.documents
           I == {i \in 1 .. Len(p.pending) : wanted(p.pending[i])}
           i == SelectInSeq(p.pending, wanted)
           q == WithNextFile(p, fold)
<1>0. /\ p \in Pane /\ p.pending \in Seq(Files) /\ p.index \in Seq(Files)
      /\ Kept(p) /\ Queued(p)
      /\ DOMAIN p.pending = 1 .. Len(p.pending) /\ Len(p.pending) \in Nat
    BY LenProperties DEF Good, Pane
<1>1. CASE I # {}
    <2>1. \E n \in I : \A m \in I : n <= m
        <3>1. I \in SUBSET Nat
            BY <1>0
        <3> HIDE DEF I
        <3> QED
            BY <1>1, <3>1, LeastNatural
    <2>2. i = CHOOSE x \in I : \A y \in I : x <= y
        BY <1>1 DEF SelectInSeq, Min
    <2>3. i \in I
        BY <2>1, <2>2
    <2>4. i \in DOMAIN p.pending /\ i # 0 /\ wanted(p.pending[i])
        BY <1>0, <2>3
    <2> DEFINE rest == SubSeq(p.pending, i + 1, Len(p.pending))
               r == [p EXCEPT !.pending = rest]
               f == p.pending[i]
    <2>5. q = WithFile(r, f)
        BY <2>4 DEF WithNextFile
    <2>6. f \notin DOMAIN p.documents
        BY <2>4
    <2> HIDE DEF q, I
    <2>61. /\ rest \in Seq(Files) /\ ToSet(rest) \subseteq ToSet(p.pending)
           /\ f \in ToSet(p.pending) /\ f \notin ToSet(rest)
           /\ \A j, k \in DOMAIN rest : rest[j] = rest[k] => j = k
        <3> HIDE DEF i
        <3> QED
            BY <1>0, <2>4, RestOfList DEF Queued
    <2> HIDE DEF i, rest, f
    <2>7. r \in Pane /\ r.pending = rest /\ SameWork(p, r) /\ r.loading = p.loading
          /\ r.document_loading = p.document_loading /\ r.documents = p.documents
          /\ r.document = p.document
        BY <1>0, <2>61 DEF Pane, SameWork
    <2> HIDE DEF r
    <2>8. Good(r)
        BY <1>0, <2>61, <2>7 DEF Good, Kept, Queued, SameWork
    <2>9. Good(q) /\ OnlyReads(r, q)
        BY <2>5, <2>8, WithFileReads
    <2>10. f \in ToSet(p.index) /\ f # NoFile /\ p.workspace # 0
        BY <1>0, <2>61, FilesOfList DEF Queued, Kept
    <2>11. q.loading = f
        BY <2>5, <2>6, <2>61, <2>7, <2>8, <2>10, WithFileReads DEF SameWork
    <2>12. SameWork(r, q) /\ q.document_loading = r.document_loading
        BY <2>7, <2>9 DEF OnlyReads, SameWork, Good, Pane
    <2> QED
        BY <2>7, <2>9, <2>10, <2>11, <2>12 DEF SameWork, q
<1>2. CASE I = {}
    <2> DEFINE r == [p EXCEPT !.pending = <<>>]
               t == IF p.preserving THEN Finalized(r, fold) ELSE r
               u == [t EXCEPT !.document_loading = FALSE]
    <2>1. i = 0
        BY <1>2 DEF SelectInSeq
    <2>2. q = IF r.document_loading /\ r.indexed THEN Rebuilt(u, fold) ELSE r
        BY <2>1 DEF WithNextFile
    <2> HIDE DEF i, I, q
    <2> DEFINE nothing == <<>>
    <2>31. nothing \in Seq(Files)
        OBVIOUS
    <2>32. r = [p EXCEPT !.pending = nothing]
        OBVIOUS
    <2>33. r.pending = <<>>
        BY <1>0 DEF Pane
    <2> HIDE DEF nothing, r
    <2>3. r \in Pane /\ r.pending = <<>> /\ SameWork(p, r) /\ r.loading = p.loading
          /\ r.document_loading = p.document_loading /\ r.documents = p.documents
          /\ r.document = p.document
        BY <1>0, <2>31, <2>32, <2>33 DEF Pane, SameWork
    <2>4. ToSet(r.pending) = {}
        BY <2>3 DEF ToSet
    <2>5. Good(r)
        BY <1>0, <2>3, <2>4 DEF Good, Kept, Queued, SameWork
    <2>6. Good(t) /\ SameWork(r, t)
        BY <2>5, FinalizedKeeps DEF SameWork
    <2> HIDE DEF t
    <2>7. u \in Pane /\ SameWork(t, u) /\ u.loading = t.loading /\ u.pending = t.pending
          /\ ~ u.document_loading /\ u.documents = t.documents /\ u.document = t.document
        <3>1. t \in Pane
            BY <2>6 DEF Good
        <3>2. u \in Pane
            BY <3>1 DEF Pane
        <3>3. /\ u.request = t.request /\ u.workspace = t.workspace /\ u.indexed = t.indexed
              /\ u.index = t.index /\ u.comparing = t.comparing
              /\ u.loading = t.loading /\ u.pending = t.pending
              /\ ~ u.document_loading /\ u.documents = t.documents /\ u.document = t.document
            BY <3>1 DEF Pane
        <3> QED
            BY <3>2, <3>3 DEF SameWork
    <2> HIDE DEF u
    <2>8. Good(u)
        BY <2>6, <2>7 DEF Good, Kept, Queued, SameWork
    <2>9. Good(Rebuilt(u, fold)) /\ SameWork(u, Rebuilt(u, fold))
          /\ ~ Rebuilt(u, fold).document_loading
        BY <2>7, <2>8, RebuiltKeeps DEF SameReads
    <2>10. CASE r.document_loading /\ r.indexed
        <3>1. q = Rebuilt(u, fold)
            BY <2>2, <2>10
        <3> QED
            BY <2>3, <2>6, <2>7, <2>9, <3>1 DEF SameWork, q
    <2>11. CASE ~ (r.document_loading /\ r.indexed)
        <3>1. q = r
            BY <2>2, <2>11
        <3> QED
            BY <2>3, <2>5, <2>11, <3>1 DEF SameWork, q
    <2> QED
        BY <2>10, <2>11
<1> QED
    BY <1>1, <1>2
-----------------------------------------------------------------------------
(* A pane that has prepared nothing. *)
Idle(p) ==
    /\ p.workspace = 0 /\ ~ p.indexed /\ p.index = <<>> /\ p.documents = NoPatches
    /\ p.loading = NoFile /\ p.pending = <<>>

LEMMA NothingTyped == <<>> \in Seq(Files) /\ ToSet(<<>>) = {} /\ DOMAIN <<>> = {}
<1>1. DOMAIN <<>> = {}
    OBVIOUS
<1> QED
    BY <1>1 DEF ToSet

LEMMA IdleIsGood ==
    ASSUME NEW p \in Pane, Idle(p), Titled(p.request),
           DOMAIN p.document.patches \subseteq p.document.open,
           p.request # NoRequest => OfSubject(p.document.patches, p.request)
    PROVE  Good(p)
<1> DEFINE nothing == <<>>
<1>1. /\ ToSet(nothing) = {} /\ DOMAIN nothing = {} /\ p.index = nothing /\ p.pending = nothing
      /\ DOMAIN NoPatches = {}
    BY NothingTyped, NoPatchesTyped DEF Idle
<1> HIDE DEF nothing
<1>2. Kept(p)
    BY <1>1 DEF Kept, Idle, OfSubject
<1>3. Queued(p)
    BY <1>1 DEF Queued, Idle
<1> QED
    BY <1>2, <1>3 DEF Good

LEMMA GoodWhenIdle ==
    ASSUME NEW p, Good(p), p.workspace = 0
    PROVE  Idle(p)
<1>1. p.index = <<>> /\ ToSet(p.index) = {} /\ ~ p.indexed
    BY NothingTyped DEF Good, Kept
<1>2. p.loading = NoFile /\ ToSet(p.pending) = {} /\ DOMAIN p.documents = {}
    BY <1>1 DEF Good, Kept, Queued
<1>3. p.pending = <<>>
    BY <1>2, FilesOfList DEF Good, Pane
<1>4. p.documents = NoPatches
    <2>1. p.documents \in Patches
        BY DEF Good, Pane
    <2>2. PICK S \in SUBSET Files : p.documents \in [S -> Patch]
        BY <2>1 DEF Patches
    <2>3. S = {}
        BY <1>2, <2>2
    <2> QED
        BY <2>2, <2>3 DEF NoPatches
<1> QED
    BY <1>1, <1>2, <1>3, <1>4 DEF Idle

LEMMA AbortedKeeps ==
    ASSUME NEW p, Good(p)
    PROVE  LET q == Aborted(p) IN
           /\ Good(q) /\ Idle(q) /\ ~ q.document_loading /\ ~ q.preserving
           /\ q.request = p.request /\ q.comparing = p.comparing /\ q.document = p.document
<1> DEFINE q == Aborted(p)
           nothing == <<>>
<1>1. nothing \in Seq(Files) /\ NoPatches \in Patches
    BY NothingTyped, NoPatchesTyped
<1>2. q = [p EXCEPT !.document_loading = FALSE, !.preserving = FALSE, !.workspace = 0,
              !.indexed = FALSE, !.index = nothing, !.documents = NoPatches, !.loading = NoFile,
              !.pending = nothing]
    BY DEF Aborted
<1>3. nothing = <<>> /\ p \in Pane
    BY DEF Good
<1> HIDE DEF q, nothing
<1>4. q \in Pane
    <2>1. PICK a : a = [p EXCEPT !.document_loading = FALSE, !.preserving = FALSE, !.workspace = 0,
                                 !.indexed = FALSE]
        OBVIOUS
    <2>2. a \in Pane
        BY <1>3, <2>1 DEF Pane
    <2>3. q = [a EXCEPT !.index = nothing, !.documents = NoPatches, !.loading = NoFile,
                        !.pending = nothing]
        BY <1>2, <2>1
    <2> QED
        BY <1>1, <2>2, <2>3 DEF Pane
<1>5. /\ Idle(q) /\ ~ q.document_loading /\ ~ q.preserving
      /\ q.request = p.request /\ q.comparing = p.comparing /\ q.document = p.document
    BY <1>2, <1>3 DEF Pane, Idle
<1>6. Good(q)
    BY <1>4, <1>5, IdleIsGood DEF Good, Kept
<1> QED
    BY <1>5, <1>6 DEF q

LEMMA NoRequestTyped == NoRequest \in LocalDiffRequest /\ Titled(NoRequest)
BY NothingTyped DEF NoRequest, LocalDiffRequest, Titled

LEMMA BlankTyped ==
    /\ Blank \in [headers : Seq(Files), open : SUBSET Files, patches : Patches]
    /\ Blank.patches = NoPatches /\ DOMAIN Blank.patches = {} /\ Blank.headers = <<>>
<1>1. Blank.patches = NoPatches /\ Blank.headers = <<>> /\ Blank.open = {}
    BY DEF Blank
<1>2. Blank \in [headers : Seq(Files), open : SUBSET Files, patches : Patches]
    BY NothingTyped, NoPatchesTyped DEF Blank
<1> QED
    BY <1>1, <1>2, NoPatchesTyped

LEMMA ResetKeeps ==
    ASSUME NEW p, Good(p)
    PROVE  LET q == Reset(p) IN
           /\ Good(q) /\ Idle(q) /\ q.document_loading = p.document_loading /\ ~ q.preserving
           /\ q.request = NoRequest /\ q.comparing = p.comparing /\ q.document = p.document
<1> DEFINE a == Aborted(p)
           q == Reset(p)
<1>1. /\ Good(a) /\ Idle(a) /\ ~ a.document_loading /\ ~ a.preserving
      /\ a.request = p.request /\ a.comparing = p.comparing /\ a.document = p.document
    BY AbortedKeeps
<1>2. q = [a EXCEPT !.request = NoRequest, !.preserved = {},
                    !.document_loading = p.document_loading]
    BY DEF Reset
<1>3. p \in Pane /\ a \in Pane
    BY <1>1 DEF Good
<1> HIDE DEF q, a
<1>4. q \in Pane
    BY <1>2, <1>3, NoRequestTyped DEF Pane
<1>5. /\ Idle(q) /\ q.document_loading = p.document_loading /\ ~ q.preserving
      /\ q.request = NoRequest /\ q.comparing = p.comparing /\ q.document = p.document
    BY <1>1, <1>2, <1>3 DEF Pane, Idle
<1>6. Good(q)
    BY <1>1, <1>4, <1>5, IdleIsGood, NoRequestTyped DEF Good, Kept
<1> QED
    BY <1>5, <1>6 DEF q

LEMMA InvalidatedKeeps ==
    ASSUME NEW p, Good(p)
    PROVE  LET q == Invalidated(p) IN
           /\ Good(q) /\ SameWork(p, q) /\ ~ q.document_loading /\ q.loading = NoFile
<1> DEFINE q == Invalidated(p)
           nothing == <<>>
<1>1. nothing \in Seq(Files) /\ p \in Pane /\ ToSet(nothing) = {} /\ DOMAIN nothing = {}
    BY NothingTyped DEF Good
<1>2. q = [p EXCEPT !.document_loading = FALSE, !.loading = NoFile, !.pending = nothing]
    BY DEF Invalidated
<1> HIDE DEF q, nothing
<1>3. q \in Pane /\ q.pending = nothing
    BY <1>1, <1>2 DEF Pane
<1>4. SameWork(p, q) /\ ~ q.document_loading /\ q.loading = NoFile
      /\ q.documents = p.documents /\ q.document = p.document
    BY <1>1, <1>2 DEF Pane, SameWork
<1>5. Good(q)
    BY <1>1, <1>3, <1>4 DEF Good, Kept, Queued, SameWork
<1> QED
    BY <1>4, <1>5 DEF q
-----------------------------------------------------------------------------
LEMMA StoredKeeps ==
    ASSUME NEW p, Good(p), NEW fold, NEW f \in ToSet(p.index), NEW patch \in Patch,
           patch # Failed /\ p.request # NoRequest
              => patch.kind = p.request.kind /\ patch.name = p.request.name
    PROVE  LET q == Stored(p, fold, f, patch) IN
           /\ Good(q) /\ SameWork(p, q) /\ q.loading = p.loading
           /\ q.document_loading => p.document_loading
<1>0. p \in Pane /\ f \in Files /\ p.documents \in Patches
    BY FilesOfList DEF Good, Pane
<1>1. CASE Len(p.index) = 1
    <2> DEFINE q == Stored(p, fold, f, patch)
               r == IF p.preserving THEN Finalized(p, fold) ELSE p
               one == [g \in {f} |-> patch]
               alone == [headers |-> <<f>>, open |-> {f}, patches |-> one]
               d == IF patch = Failed THEN Blank ELSE alone
    <2>1. Good(r) /\ SameWork(p, r) /\ SameReads(p, r)
        BY FinalizedKeeps DEF SameWork, SameReads
    <2>2. q = [r EXCEPT !.document_loading = FALSE, !.document = d]
        BY <1>1 DEF Stored
    <2>3. one \in Patches /\ DOMAIN one = {f} /\ one[f] = patch
        <3>1. {f} \in SUBSET Files /\ one \in [{f} -> Patch]
            BY <1>0
        <3> QED
            BY <3>1, FunctionsArePatches
    <2>4. alone \in [headers : Seq(Files), open : SUBSET Files, patches : Patches]
          /\ alone.open = {f} /\ alone.patches = one
        <3> HIDE DEF one
        <3> QED
            BY <1>0, <2>3
    <2>5. /\ d \in [headers : Seq(Files), open : SUBSET Files, patches : Patches]
          /\ DOMAIN d.patches \subseteq d.open
          /\ p.request # NoRequest => OfSubject(d.patches, p.request)
        <3> HIDE DEF one, alone
        <3>1. CASE patch = Failed
            BY <3>1, BlankTyped DEF OfSubject
        <3>2. CASE patch # Failed
            BY <2>3, <2>4, <3>2 DEF OfSubject
        <3> QED
            BY <3>1, <3>2
    <2> HIDE DEF q, r, one, alone, d
    <2>6. q \in Pane
        BY <2>1, <2>2, <2>5 DEF Good, Pane
    <2>7. SameWork(r, q) /\ q.loading = r.loading /\ q.pending = r.pending
          /\ ~ q.document_loading /\ q.document = d /\ q.documents = r.documents
        BY <2>1, <2>2 DEF Good, Pane, SameWork
    <2>8. Kept(q)
        BY <2>1, <2>5, <2>7 DEF Good, Kept, SameWork
    <2>9. Queued(q)
        BY <2>1, <2>7 DEF Good, Queued, SameWork
    <2> QED
        BY <2>1, <2>6, <2>7, <2>8, <2>9 DEF Good, SameWork, SameReads, q
<1>2. CASE Len(p.index) # 1
    <2> DEFINE q == Stored(p, fold, f, patch)
               all == [g \in DOMAIN p.documents \cup {f} |->
                          IF g = f THEN patch ELSE p.documents[g]]
               r == [p EXCEPT !.documents = all]
    <2>1. q = IF r.document_loading \/ r.preserving THEN r ELSE Rebuilt(r, fold)
        BY <1>0, <1>2 DEF Stored, Pane
    <2>2. /\ DOMAIN p.documents \cup {f} \in SUBSET Files
          /\ \A g \in DOMAIN p.documents : p.documents[g] \in Patch
        BY <1>0, PatchesAreFunctions
    <2>3. /\ all \in [DOMAIN p.documents \cup {f} -> Patch]
          /\ DOMAIN all = DOMAIN p.documents \cup {f}
          /\ all[f] = patch /\ \A g \in DOMAIN p.documents : all[g] \in {patch, p.documents[g]}
        BY <2>2
    <2>4. all \in Patches
        <3> HIDE DEF all
        <3> QED
            BY <2>2, <2>3, FunctionsArePatches
    <2>5. p.request # NoRequest => OfSubject(all, p.request)
        <3> HIDE DEF all
        <3> QED
            BY <2>3 DEF Good, Kept, OfSubject
    <2>51. DOMAIN all \subseteq ToSet(p.index)
        <3> HIDE DEF all
        <3> QED
            BY <2>3 DEF Good, Kept
    <2> HIDE DEF all, q
    <2>6. r \in Pane /\ SameWork(p, r) /\ SameReads(p, r) /\ r.documents = all
          /\ r.document = p.document
        BY <1>0, <2>4 DEF Pane, SameWork, SameReads
    <2> HIDE DEF r
    <2>7. Kept(r)
        BY <2>5, <2>51, <2>6 DEF Good, Kept, SameWork
    <2>8. Queued(r)
        BY <2>6 DEF Good, Queued, SameWork, SameReads
    <2>9. Good(r)
        BY <2>6, <2>7, <2>8 DEF Good
    <2>10. Good(Rebuilt(r, fold)) /\ SameWork(r, Rebuilt(r, fold)) /\ SameReads(r, Rebuilt(r, fold))
        BY <2>9, RebuiltKeeps
    <2>11. q \in {r, Rebuilt(r, fold)}
        BY <2>1
    <2> QED
        BY <2>6, <2>9, <2>10, <2>11 DEF SameWork, SameReads, q
<1> QED
    BY <1>1, <1>2
-----------------------------------------------------------------------------
(* Preparing a diff. *)

Selection == [section : BOOLEAN, cursor : Nat \ {0}, commit : Commits]

LEMMA SubjectTyped ==
    ASSUME NEW v \in Views, NEW p, NEW st \in Seq(Files), NEW sel \in Selection, NEW ver \in Nat
    PROVE  LET r == Subject(v, p, st, sel, ver) IN
           /\ r \in LocalDiffRequest /\ r.kind # "none" /\ Titled(r)
           /\ SlotOfRequest(r) = v
<1> DEFINE r == Subject(v, p, st, sel, ver)
<1>0. /\ sel.commit \in Commits /\ FilesOf[sel.commit] \in Seq(Files)
      /\ FilesOf["comparison"] \in Seq(Files) /\ DOMAIN st = 1 .. Len(st)
    BY PreviewAssumption, LenProperties DEF Selection
<1>1. CASE v = "History"
    <2>1. r = [kind |-> "commit", name |-> sel.commit, files |-> FilesOf[sel.commit], version |-> 0]
        BY <1>1 DEF Subject
    <2> QED
        BY <1>0, <1>1, <2>1 DEF LocalDiffRequest, Titled, SlotOfRequest
<1>2. CASE v = "Changes" /\ p.comparing
    <2>1. r = [kind |-> "comparison", name |-> NoFile, files |-> FilesOf["comparison"],
               version |-> 0]
        BY <1>2 DEF Subject
    <2> QED
        BY <1>0, <1>2, <2>1 DEF LocalDiffRequest, Titled, SlotOfRequest
<1>3. CASE v = "Changes" /\ ~ p.comparing /\ sel.section
    <2>1. r = [kind |-> "section", name |-> NoFile, files |-> st, version |-> ver]
        BY <1>3 DEF Subject
    <2> QED
        BY <1>0, <1>3, <2>1 DEF LocalDiffRequest, Titled, SlotOfRequest
<1>4. CASE v = "Changes" /\ ~ p.comparing /\ ~ sel.section
    <2> DEFINE f == IF sel.cursor \in DOMAIN st THEN st[sel.cursor] ELSE NoFile
               fs == IF sel.cursor \in DOMAIN st THEN <<st[sel.cursor]>> ELSE <<>>
    <2>1. r = [kind |-> "change", name |-> f, files |-> fs, version |-> ver]
        BY <1>4 DEF Subject
    <2>2. f \in Files \cup {NoFile} /\ fs \in Seq(Files)
        BY <1>0
    <2> HIDE DEF f, fs
    <2> QED
        BY <1>4, <2>1, <2>2 DEF LocalDiffRequest, Titled, SlotOfRequest
<1> QED
    BY <1>1, <1>2, <1>3, <1>4 DEF Views

LEMMA PreparedKeeps ==
    ASSUME NEW p, Good(p), NEW r \in LocalDiffRequest, r.kind # "none", Titled(r), Prepares(p, r)
    PROVE  LET q == Prepared(p, r) IN
           /\ Good(q) /\ Idle(q) /\ q.document_loading
           /\ q.request = r /\ q.comparing = p.comparing
<1> DEFINE a == Reset(p)
           q == Prepared(p, r)
           preserve == SameChanges(p.request, r) /\ p.document.headers # <<>>
           kept == IF ~ preserve THEN {} ELSE IF p.preserved = {} THEN ToSet(p.index) ELSE p.preserved
           d == IF preserve THEN a.document ELSE Blank
           coll == IF preserve THEN a.collapsed ELSE {}
           exp == IF preserve THEN a.expanded ELSE {}
           one == IF preserve THEN a.selected ELSE NoFile
<1>1. /\ Good(a) /\ Idle(a) /\ a.comparing = p.comparing /\ a.document = p.document /\ a \in Pane
    BY ResetKeeps DEF Good
<1>2. q = [a EXCEPT
            !.request = r, !.preserving = preserve, !.preserved = kept, !.document_loading = TRUE,
            !.document = d, !.collapsed = coll, !.expanded = exp, !.selected = one, !.cut = FALSE]
    BY <1>1 DEF Prepared, Pane
<1>3. p \in Pane /\ ToSet(p.index) \in SUBSET Files
    BY FilesOfList DEF Good, Pane
<1>4. preserve \in BOOLEAN /\ kept \in SUBSET Files /\ coll \in SUBSET Files /\ exp \in SUBSET Files
      /\ one \in Files \cup {NoFile}
    BY <1>1, <1>3 DEF Pane, SameChanges
<1>5. /\ d \in [headers : Seq(Files), open : SUBSET Files, patches : Patches]
      /\ DOMAIN d.patches \subseteq d.open
      /\ OfSubject(d.patches, r)
    <2>1. CASE preserve
        <3>1. p.request.kind = r.kind /\ p.request.name = r.name
            BY <2>1 DEF SameChanges, Good, Kept, Titled
        <3>2. p.request # NoRequest
            BY <3>1 DEF NoRequest
        <3>3. d = p.document
            BY <1>1, <2>1
        <3> HIDE DEF d
        <3> QED
            BY <1>3, <3>1, <3>2, <3>3 DEF Good, Kept, OfSubject, Pane
    <2>2. CASE ~ preserve
        <3>1. d = Blank
            BY <2>2
        <3> HIDE DEF d
        <3> QED
            BY <3>1, BlankTyped DEF OfSubject
    <2> QED
        BY <2>1, <2>2
<1> HIDE DEF a, q, preserve, kept, d, coll, exp, one
<1>6. q \in Pane
    <2>1. PICK b : b = [a EXCEPT !.request = r, !.preserving = preserve, !.preserved = kept,
                                 !.document_loading = TRUE]
        OBVIOUS
    <2>2. b \in Pane
        BY <1>1, <1>4, <2>1 DEF Pane
    <2>3. q = [b EXCEPT !.document = d, !.collapsed = coll, !.expanded = exp, !.selected = one,
                        !.cut = FALSE]
        BY <1>2, <2>1
    <2> QED
        BY <1>4, <1>5, <2>2, <2>3 DEF Pane
<1>7. /\ Idle(q) /\ q.document_loading /\ q.request = r /\ q.comparing = p.comparing
      /\ q.document = d
    BY <1>1, <1>2 DEF Pane, Idle
<1>8. Good(q)
    BY <1>5, <1>6, <1>7, IdleIsGood
<1> QED
    BY <1>7, <1>8 DEF q
LEMMA IndexedKeeps ==
    ASSUME NEW p, Good(p), p.workspace = 0, generation \in Generation,
           NEW files \in Seq(Files), NEW fold
    PROVE  LET q == Indexed(p, files, fold) IN
           /\ Good(q) /\ q.workspace = generation /\ q.index = files
           /\ q.request = p.request /\ q.comparing = p.comparing
           /\ q.document_loading => q.loading # NoFile
<1> DEFINE one == IF p.selected \in ToSet(files) THEN p.selected
                  ELSE IF files = <<>> THEN NoFile ELSE files[1]
           q == [p EXCEPT !.workspace = generation, !.indexed = TRUE, !.index = files,
                          !.documents = NoPatches, !.loading = NoFile]
           closed == IF Len(files) > 1 /\ ~ fold.all /\ ~ fold.preferred
                     THEN ToSet(files) ELSE {}
           new == [q EXCEPT !.document_loading = FALSE, !.selected = one, !.expanded = {},
                            !.collapsed = closed]
           r == IF p.preserving THEN q ELSE Rebuilt(new, fold)
           opens == {f \in ToSet(files) : IF p.preserving THEN ~ WillBeCollapsed(r, fold, f)
                                          ELSE ~ Collapsed(r, fold, f)}
           t == IF one \in opens \cup {NoFile} THEN r ELSE WithFile(r, one)
           s == WithFiles(t, files, opens)
           z == Indexed(p, files, fold)
<1>1. z = IF s.loading = NoFile /\ s.pending = <<>> THEN WithNextFile(s, fold) ELSE s
    BY DEF Indexed
<1>2. /\ p \in Pane /\ Idle(p) /\ ToSet(files) \in SUBSET Files /\ generation # 0
      /\ DOMAIN files = 1 .. Len(files) /\ Len(files) \in Nat
      /\ NoPatches \in Patches /\ DOMAIN NoPatches = {}
    BY GoodWhenIdle, FilesOfList, NoPatchesTyped DEF Good, Generation
<1>3. one \in Files \cup {NoFile} /\ closed \in SUBSET Files
    BY <1>2, EmptySeq DEF Pane
<1> HIDE DEF z, s, t, opens, r, new, closed, one
<1>4. q \in Pane
    BY <1>2 DEF Pane
<1>5. /\ q.workspace = generation /\ q.indexed /\ q.index = files /\ q.documents = NoPatches
      /\ q.loading = NoFile /\ q.pending = <<>> /\ q.request = p.request
      /\ q.comparing = p.comparing /\ q.document = p.document
    BY <1>2 DEF Pane, Idle
<1> HIDE DEF q
<1>6. Kept(q)
    BY <1>2, <1>5 DEF Good, Kept, OfSubject
<1>7. Queued(q)
    <2>1. ToSet(q.pending) = {} /\ DOMAIN q.pending = {}
        BY <1>5, NothingTyped
    <2> QED
        BY <1>5, <2>1 DEF Queued
<1>8. Good(q)
    BY <1>4, <1>6, <1>7 DEF Good
<1>9. new \in Pane /\ SameWork(q, new) /\ new.loading = NoFile /\ new.pending = <<>>
      /\ new.documents = q.documents /\ new.document = q.document /\ ~ new.document_loading
    BY <1>3, <1>4, <1>5 DEF Pane, SameWork, new
<1>10. Good(new)
    BY <1>5, <1>6, <1>7, <1>9 DEF Good, Kept, Queued, SameWork
<1>11. /\ Good(Rebuilt(new, fold)) /\ SameWork(new, Rebuilt(new, fold))
       /\ SameReads(new, Rebuilt(new, fold))
    BY <1>10, RebuiltKeeps
<1>12. Good(r) /\ SameWork(q, r) /\ r.loading = NoFile /\ r.pending = <<>>
    BY <1>5, <1>8, <1>9, <1>11 DEF SameWork, SameReads, r
<1>13. Good(t) /\ OnlyReads(r, t)
    <2>1. OnlyReads(r, r)
        BY <1>12 DEF OnlyReads, Good, Pane
    <2>2. Good(WithFile(r, one)) /\ OnlyReads(r, WithFile(r, one))
        BY <1>12, WithFileReads
    <2> QED
        BY <1>12, <2>1, <2>2 DEF t
<1>14. Good(s) /\ OnlyReads(t, s)
    BY <1>13, WithFilesReads DEF s
<1>15. SameWork(r, t) /\ SameWork(t, s)
    <2>1. r \in Pane /\ t \in Pane
        BY <1>12, <1>13 DEF Good
    <2>2. SameWork(r, t)
        BY <1>13, <2>1 DEF OnlyReads, SameWork, Pane
    <2> QED
        BY <1>14, <2>1, <2>2 DEF OnlyReads, SameWork, Pane
<1>16. s.loading = NoFile => s.pending = <<>>
    BY <1>12, <1>13, <1>14 DEF OnlyReads
<1>17. CASE s.loading = NoFile
    <2>1. z = WithNextFile(s, fold)
        BY <1>1, <1>16, <1>17
    <2>2. Good(z) /\ SameWork(s, z) /\ (z.document_loading /\ z.indexed => z.loading # NoFile)
        BY <1>14, <1>17, <2>1, NextFileReads
    <2> QED
        BY <1>5, <1>12, <1>15, <2>2 DEF SameWork, z
<1>18. CASE s.loading # NoFile
    <2>1. z = s
        BY <1>1, <1>18
    <2> QED
        BY <1>5, <1>12, <1>14, <1>15, <1>18, <2>1 DEF SameWork, z
<1> QED
    BY <1>17, <1>18

(* What a preview makes of the answer to a file it reads. *)
LEMMA FileHeardKeeps ==
    ASSUME NEW p, Good(p), NEW e, e.command.path \in ToSet(p.index), e.patch \in Patch,
           e.ok /\ e.patch # Failed /\ p.request # NoRequest
              => e.patch.kind = p.request.kind /\ e.patch.name = p.request.name
    PROVE  LET q == FileHeard(p, e) IN
           /\ Good(q) /\ q.loading = NoFile /\ q.comparing = p.comparing
           /\ q.request \in {p.request, NoRequest}
           /\ \/ q.workspace = p.workspace /\ q.index = p.index
              \/ q.workspace = 0 /\ ~ q.document_loading
           /\ q.document_loading => p.document_loading
<1> DEFINE q == [p EXCEPT !.loading = NoFile]
           f == e.command.path
           z == FileHeard(p, e)
           good == Stored(q, folding, f, e.patch)
           bad == Stored(q, folding, f, Failed)
<1>1. z = IF e.ok THEN good ELSE IF q.preserving THEN Aborted(q)
          ELSE [bad EXCEPT !.request = NoRequest]
    BY DEF FileHeard
<1>2. p \in Pane /\ Failed \in Patch
    BY NoPatchesTyped DEF Good
<1>3. q \in Pane /\ SameWork(p, q) /\ q.loading = NoFile /\ q.pending = p.pending
      /\ q.documents = p.documents /\ q.document = p.document
      /\ q.document_loading = p.document_loading
    BY <1>2 DEF Pane, SameWork
<1> HIDE DEF q, z, f
<1>4. Good(q)
    <2>1. ToSet(p.pending) \subseteq ToSet(p.index) /\ NoFile \notin ToSet(p.pending)
        BY <1>2, FilesOfList DEF Good, Queued, Pane
    <2> QED
        BY <1>3, <2>1 DEF Good, Kept, Queued, SameWork
<1>5. f \in ToSet(q.index) /\ q.request = p.request
    BY <1>3 DEF SameWork, f
<1>6. CASE e.ok
    <2>1. Good(good) /\ SameWork(q, good) /\ good.loading = NoFile
          /\ (good.document_loading => q.document_loading)
        BY <1>3, <1>4, <1>5, <1>6, StoredKeeps
    <2>2. z = good
        BY <1>1, <1>6
    <2> HIDE DEF good
    <2> QED
        BY <1>3, <2>1, <2>2 DEF SameWork, z
<1>7. CASE ~ e.ok /\ q.preserving
    <2>1. z = Aborted(q)
        BY <1>1, <1>7
    <2>2. Good(z) /\ Idle(z) /\ ~ z.document_loading /\ z.request = q.request
          /\ z.comparing = q.comparing
        BY <1>4, <2>1, AbortedKeeps
    <2> QED
        BY <1>3, <2>2 DEF SameWork, Idle, z
<1>8. CASE ~ e.ok /\ ~ q.preserving
    <2>1. Good(bad) /\ SameWork(q, bad) /\ bad.loading = NoFile
          /\ (bad.document_loading => q.document_loading)
        BY <1>2, <1>3, <1>4, <1>5, StoredKeeps
    <2>2. z = [bad EXCEPT !.request = NoRequest]
        BY <1>1, <1>8
    <2> HIDE DEF bad
    <2>3. z \in Pane
        <3>1. bad \in Pane
            BY <2>1 DEF Good
        <3> QED
            BY <2>2, <3>1, NoRequestTyped DEF Pane
    <2>4. /\ z.request = NoRequest /\ z.workspace = bad.workspace /\ z.index = bad.index
          /\ z.indexed = bad.indexed /\ z.loading = bad.loading /\ z.pending = bad.pending
          /\ z.documents = bad.documents /\ z.document = bad.document
          /\ z.document_loading = bad.document_loading /\ z.comparing = bad.comparing
        BY <2>1, <2>2 DEF Good, Pane
    <2>5. Good(z)
        BY <2>1, <2>3, <2>4, NoRequestTyped DEF Good, Kept, Queued
    <2> QED
        BY <1>3, <2>1, <2>4, <2>5 DEF SameWork, z
<1> QED
    BY <1>6, <1>7, <1>8
-----------------------------------------------------------------------------
(* What the user does to a pane. *)

LEMMA LeftKeeps ==
    ASSUME NEW p, Good(p)
    PROVE  LET q == Left(p) IN
           Good(q) /\ SameWork(p, q) /\ q.loading = NoFile
<1> DEFINE first == IF p.loading = NoFile THEN <<>> ELSE <<p.loading>>
           all == first \o p.pending
           left == p.cut \/ p.loading # NoFile \/ p.preserving
           q == Left(p)
<1>1. q = [p EXCEPT !.pending = all, !.loading = NoFile, !.cut = left]
    BY DEF Left, Good, Pane
<1>2. p \in Pane /\ p.pending \in Seq(Files) /\ p.loading \in Files \cup {NoFile}
      /\ p.loading \notin ToSet(p.pending) /\ left \in BOOLEAN
    BY DEF Good, Pane, Queued
<1>3. /\ first \in Seq(Files) /\ (p.loading = NoFile => Len(first) = 0)
      /\ (p.loading # NoFile => Len(first) = 1 /\ first[1] = p.loading)
    BY <1>2
<1> HIDE DEF first, q, left
<1>4. PICK n \in {0, 1} : Len(first) = n /\ (n = 1 => first[1] = p.loading /\ p.loading # NoFile)
                          /\ (n = 0 => p.loading = NoFile)
    BY <1>3
<1>5. /\ all \in Seq(Files) /\ DOMAIN all = 1 .. n + Len(p.pending)
      /\ \A i \in DOMAIN all : all[i] = IF i <= n THEN first[i] ELSE p.pending[i - n]
      /\ DOMAIN p.pending = 1 .. Len(p.pending) /\ Len(p.pending) \in Nat
    BY <1>2, <1>3, <1>4, ConcatProperties, LenProperties
<1> HIDE DEF all
<1>6. \A i \in DOMAIN all : \/ i = 1 /\ n = 1 /\ all[i] = p.loading
                            \/ i - n \in DOMAIN p.pending /\ all[i] = p.pending[i - n] /\ i > n
    BY <1>4, <1>5
<1>7. \A i \in DOMAIN p.pending : p.pending[i] # p.loading
    BY <1>2 DEF ToSet
<1>8. \A i, j \in DOMAIN all : all[i] = all[j] => i = j
    <2> SUFFICES ASSUME NEW i \in DOMAIN all, NEW j \in DOMAIN all, all[i] = all[j] PROVE i = j
        OBVIOUS
    <2>1. i \in Nat /\ j \in Nat
        BY <1>5
    <2>2. CASE n = 1 /\ i = 1 /\ all[i] = p.loading
        BY <1>6, <1>7, <2>2
    <2>3. CASE n = 1 /\ j = 1 /\ all[j] = p.loading
        BY <1>6, <1>7, <2>3
    <2>4. CASE /\ i - n \in DOMAIN p.pending /\ all[i] = p.pending[i - n]
               /\ j - n \in DOMAIN p.pending /\ all[j] = p.pending[j - n]
        <3>1. i - n = j - n
            BY <2>4 DEF Good, Queued
        <3> QED
            BY <2>1, <1>4, <3>1
    <2> QED
        BY <1>6, <2>2, <2>3, <2>4
<1>9. ToSet(all) \subseteq ToSet(p.index) /\ NoFile \notin ToSet(all)
    <2>1. \A i \in DOMAIN all : all[i] \in ToSet(p.pending) \cup ({p.loading} \ {NoFile})
        BY <1>4, <1>6 DEF ToSet
    <2>2. NoFile \notin ToSet(p.pending)
        BY <1>2, FilesOfList
    <2> QED
        BY <2>1, <2>2 DEF Good, Queued, ToSet
<1>10. q \in Pane
    BY <1>1, <1>2, <1>5 DEF Pane
<1>11. SameWork(p, q) /\ q.loading = NoFile /\ q.pending = all
       /\ q.documents = p.documents /\ q.document = p.document
    BY <1>1, <1>2 DEF Pane, SameWork
<1>12. Kept(q)
    BY <1>11 DEF Good, Kept, SameWork
<1>13. Queued(q)
    BY <1>8, <1>9, <1>11 DEF Queued, SameWork
<1> QED
    BY <1>10, <1>11, <1>12, <1>13 DEF Good, q

LEMMA ResumedKeeps ==
    ASSUME NEW p, Good(p), p.loading = NoFile
    PROVE  LET q == Resumed(p) IN
           Good(q) /\ SameWork(p, q) /\ ~ q.document_loading
<1> DEFINE e == Entered(p)
<1>1. e = [p EXCEPT !.document_loading = FALSE] /\ p \in Pane
    BY DEF Entered, Good
<1> HIDE DEF e
<1>2. e \in Pane /\ SameWork(p, e) /\ e.loading = NoFile /\ e.pending = p.pending
      /\ ~ e.document_loading /\ e.documents = p.documents /\ e.document = p.document
    BY <1>1 DEF Pane, SameWork
<1>3. Good(e)
    BY <1>2 DEF Good, Kept, Queued, SameWork
<1>4. Good(WithNextFile(e, folding)) /\ SameWork(e, WithNextFile(e, folding))
      /\ ~ WithNextFile(e, folding).document_loading
    BY <1>2, <1>3, NextFileReads
<1>5. Resumed(p) \in {e, WithNextFile(e, folding)}
    BY DEF Resumed, e
<1> QED
    BY <1>2, <1>3, <1>4, <1>5 DEF SameWork

LEMMA RefoldedKeeps ==
    ASSUME NEW p, Good(p), NEW fold
    PROVE  LET q == Refolded(p, fold) IN
           Good(q) /\ SameWork(p, q) /\ SameReads(p, q)
BY RebuiltKeeps DEF Refolded, SameWork, SameReads

LEMMA ToggledKeeps ==
    ASSUME NEW p, Good(p), NEW f \in Files
    PROVE  LET q == Toggled(p, f) IN
           /\ Good(q) /\ SameWork(p, q) /\ q.document_loading = p.document_loading
           /\ p.loading # NoFile => q.loading = p.loading
<1> DEFINE coll == IF folding.all THEN p.collapsed
                   ELSE IF f \in p.collapsed THEN p.collapsed \ {f} ELSE p.collapsed \cup {f}
           exp == IF ~ folding.all THEN p.expanded
                  ELSE IF f \in p.expanded THEN p.expanded \ {f} ELSE p.expanded \cup {f}
           t == [p EXCEPT !.collapsed = coll, !.expanded = exp, !.selected = f]
           r == Refolded(t, folding)
           q == Toggled(p, f)
<1>0. p \in Pane
    BY DEF Good
<1>1. q \in {WithFile(r, f), r}
    BY <1>0 DEF Toggled, Pane
<1> HIDE DEF q, r
<1>2. t \in Pane /\ SameWork(p, t) /\ SameReads(p, t)
      /\ t.documents = p.documents /\ t.document = p.document
    <2>1. coll \in SUBSET Files /\ exp \in SUBSET Files
        BY <1>0 DEF Pane
    <2> HIDE DEF coll, exp
    <2> QED
        BY <1>0, <2>1 DEF Pane, SameWork, SameReads
<1> HIDE DEF t
<1>3. Good(t)
    BY <1>2 DEF Good, Kept, Queued, SameWork, SameReads
<1>4. Good(r) /\ SameWork(t, r) /\ SameReads(t, r)
    BY <1>3, RefoldedKeeps DEF r
<1>5. Good(WithFile(r, f)) /\ OnlyReads(r, WithFile(r, f))
    BY <1>4, WithFileReads
<1>6. SameWork(r, WithFile(r, f)) /\ WithFile(r, f).document_loading = r.document_loading
    BY <1>4, <1>5 DEF OnlyReads, SameWork, Good, Pane
<1> QED
    BY <1>1, <1>2, <1>4, <1>5, <1>6 DEF OnlyReads, SameWork, SameReads, q

LEMMA AllToggledKeeps ==
    ASSUME NEW p, Good(p), NEW fold
    PROVE  LET q == AllToggled(p, fold) IN
           /\ Good(q) /\ SameWork(p, q) /\ q.document_loading = p.document_loading
           /\ p.loading # NoFile => q.loading = p.loading
<1> DEFINE t == [p EXCEPT !.collapsed = {}, !.expanded = {}]
           r == Refolded(t, fold)
           nothing == <<>>
           none == [r EXCEPT !.pending = nothing]
           files == IF r.preserving /\ r.indexed THEN r.index ELSE r.document.headers
           some == WithFiles(r, files, ToSet(files))
           q == AllToggled(p, fold)
<1>0. p \in Pane /\ nothing \in Seq(Files) /\ ToSet(nothing) = {} /\ DOMAIN nothing = {}
    BY NothingTyped DEF Good
<1>1. q = IF fold.all THEN none ELSE some
    BY DEF AllToggled
<1> HIDE DEF q, r, none, some, files, nothing
<1>2. t \in Pane /\ SameWork(p, t) /\ SameReads(p, t)
      /\ t.documents = p.documents /\ t.document = p.document
    BY <1>0 DEF Pane, SameWork, SameReads
<1> HIDE DEF t
<1>3. Good(t)
    BY <1>2 DEF Good, Kept, Queued, SameWork, SameReads
<1>4. Good(r) /\ SameWork(t, r) /\ SameReads(t, r)
    BY <1>3, RefoldedKeeps DEF r
<1>5. CASE fold.all
    <2>1. q = none
        BY <1>1, <1>5
    <2>2. none \in Pane /\ SameWork(r, none) /\ none.loading = r.loading /\ none.pending = nothing
          /\ none.document_loading = r.document_loading
          /\ none.documents = r.documents /\ none.document = r.document
        BY <1>0, <1>4 DEF Good, Pane, SameWork, none
    <2>3. Good(none)
        BY <1>0, <1>4, <2>2 DEF Good, Kept, Queued, SameWork
    <2> QED
        BY <1>2, <1>4, <2>1, <2>2, <2>3 DEF SameWork, SameReads, q
<1>6. CASE ~ fold.all
    <2>1. q = some
        BY <1>1, <1>6
    <2>2. files \in Seq(Files)
        BY <1>4 DEF Good, Pane, files
    <2>3. Good(some) /\ OnlyReads(r, some)
        BY <1>4, <2>2, WithFilesReads DEF some
    <2>4. SameWork(r, some) /\ some.document_loading = r.document_loading
        BY <1>4, <2>3 DEF OnlyReads, SameWork, Good, Pane
    <2> QED
        BY <1>2, <1>4, <2>1, <2>3, <2>4 DEF OnlyReads, SameWork, SameReads, q
<1> QED
    BY <1>5, <1>6
-----------------------------------------------------------------------------
(* The inductive invariant.  Of the lanes: each kind keeps to its lane and    *)
(* slot, and the indexes are prepared, and their answers heard, in the order  *)
(* of their generations.                                                      *)

Prepare(c) == c.kind = "PrepareLocalDiff"
Load(c)    == c.kind = "LoadLocalDiffFile"

Sent     == Elements(outbox)
Waits    == UNION {Waiting(mailbox[l]) : l \in Lanes}
Runs     == {executing[l] : l \in Lanes} \ {NoCommand}
Answered == {answers[i].command : i \in DOMAIN answers}

Unanswered == Sent \cup Waits \cup Runs

Before(A, B) == \A c \in A, d \in B : Prepare(c) /\ Prepare(d) => c.generation < d.generation

InTheirLanes ==
    \A l \in Lanes :
        /\ mailbox[l].operations = <<>>
        /\ \A s \in Full(mailbox[l]) :
              l = LaneOf[mailbox[l].slots[s].kind] /\ s = SlotOf[mailbox[l].slots[s].kind]
        /\ executing[l] # NoCommand => l = LaneOf[executing[l].kind]

PreparedInOrder ==
    /\ Len(outbox) <= 1
    /\ Before(Answered, Unanswered) /\ Before(Runs, Sent \cup Waits) /\ Before(Waits, Sent)
    /\ \A i, j \in DOMAIN answers :
          i < j /\ Prepare(answers[i].command) /\ Prepare(answers[j].command)
             => answers[i].command.generation < answers[j].command.generation

(* No command is of a later generation than the interface, and files are only *)
(* read in workspaces that were prepared before any index still to come.      *)
NoneIsAhead ==
    \A c \in OnItsWay :
        /\ Prepare(c) => c.request.kind # "none" /\ c.generation \in 1 .. generation
        /\ Load(c) => /\ c.workspace \in 1 .. generation
                      /\ \A d \in Unanswered : Prepare(d) => c.workspace < d.generation

(* The session keeps what was prepared last.                                   *)
SessionsAreLatest ==
    /\ \A v \in Views :
          /\ session[v].generation \in 0 .. generation
          /\ \A d \in Unanswered : Prepare(d) => session[v].generation < d.generation
    /\ \A v, w \in Views :
          v # w /\ session[v].generation = session[w].generation => session[v].generation = 0
    /\ \A e \in Elements(answers) :
          LET c == e.command
              kept == session[SlotOfRequest(c.request)] IN
          Prepare(c) /\ e.ok =>
             /\ c.generation <= kept.generation
             /\ c.generation = kept.generation => kept.request = c.request

PatchesAreOfTheWorkspace ==
    \A e \in Elements(answers), v \in Views :
        Load(e.command) /\ e.ok /\ session[v].generation = e.command.workspace =>
           e.patch.kind = session[v].request.kind /\ e.patch.name = session[v].request.name

LanesInv ==
    InTheirLanes /\ PreparedInOrder /\ NoneIsAhead /\ SessionsAreLatest /\ PatchesAreOfTheWorkspace

(* Of the panes: the one on display has what it waits for on its way.         *)

PanesAreGood ==
    \A v \in Views : Good(panes[v]) /\ (v # view => panes[v].loading = NoFile)

SentIsAwaited ==
    \A c \in Sent :
        /\ Prepare(c) => c.generation = generation /\ pane.workspace = 0
        /\ Load(c) => /\ c.generation = generation
                      /\ c.workspace = pane.workspace /\ c.path = pane.loading

IndexIsAwaited ==
    \A c \in OnItsWay :
        Prepare(c) /\ c.generation = generation =>
           pane.workspace = 0 /\ pane.request = c.request /\ SlotOfRequest(c.request) = view

WorkspacesAreLatest ==
    /\ WorkspacesAreKept
    /\ \A v \in Views, d \in Unanswered :
          Prepare(d) /\ SlotOfRequest(d.request) = v => panes[v].workspace = 0

PanesInv ==
    PanesAreGood /\ SentIsAwaited /\ IndexIsAwaited /\ WorkspacesAreLatest /\ PreviewIsOwed

(* The working tree has a new version only for a change and a key.            *)
Counted ==
    /\ tree \in [version : 1 .. MaxChanges + 1, files : Trees]
    /\ noticed \in BOOLEAN /\ due \in [refresh : BOOLEAN, preview : BOOLEAN]
    /\ used \in [keys : 0 .. MaxKeys, failures : Nat] /\ version \in Nat
    /\ version + (IF noticed THEN 1 ELSE 0) + (IF due.refresh THEN 1 ELSE 0)
          <= tree.version - 1 + used.keys

Typed ==
    /\ LaneTypeOK(Command, Event)
    /\ session \in [Views -> [generation : 0 .. Wrap - 1, request : LocalDiffRequest]]
    /\ status \in Trees \cup {<<>>}
    /\ refresh \in [loading : BOOLEAN, again : BOOLEAN, failed : BOOLEAN]
    /\ selection \in Selection /\ view \in Views
    /\ panes \in [Views -> Pane]
    /\ generation \in Generation
    /\ folding \in Folding

PreviewInv == Typed /\ Counted /\ LanesInv /\ PanesInv

NeverWraps == generation < Wrap - 1
-----------------------------------------------------------------------------
(* What the steps of the lanes do. *)

LEMMA FollowingIsNext ==
    ASSUME generation \in Generation, NeverWraps
    PROVE  Following(generation) = generation + 1 /\ generation + 1 \in Generation
<1>1. Wrap \in Nat /\ generation \in Nat /\ 0 < generation /\ generation < Wrap - 1
    BY PreviewAssumption DEF Generation, NeverWraps
<1>2. \A g, m \in Nat : g < m => g % m = g
    OBVIOUS
<1>3. Wrap - 1 \in Nat /\ generation % (Wrap - 1) = generation
    BY <1>1, <1>2
<1> QED
    BY <1>1, <1>3 DEF Following, Generation

LEMMA CommandsAreTabled ==
    /\ Tabled(Command)
    /\ \A c \in Command : /\ c # NoCommand /\ ~ IsOperation(c)
                          /\ LaneOf[c.kind] \in Lanes /\ SlotOf[c.kind] \in Slots
<1>1. \A c \in Command : c.kind \in Kinds \ Operations
    BY PreviewAssumption DEF Command
<1>2. NoCommand \notin Command
    BY PreviewAssumption
<1> QED
    BY <1>1, <1>2, TablesAssumption DEF Tabled, IsOperation

LEMMA Stages == OnItsWay = Unanswered \cup Answered
BY DEF OnItsWay, Unanswered, Sent, Waits, Runs, Answered, Elements

LEMMA StagesTyped ==
    ASSUME LaneTypeOK(Command, Event)
    PROVE  OnItsWay \subseteq Command
<1>1. /\ outbox \in Seq(Command) /\ mailbox \in [Lanes -> MailboxOf(Command)]
      /\ executing \in [Lanes -> Command \cup {NoCommand}] /\ answers \in Seq(Event)
    BY DEF LaneTypeOK
<1>2. \A i \in DOMAIN outbox : outbox[i] \in Command
    BY <1>1, ElementOfSeq, LenProperties
<1>3. \A i \in DOMAIN answers : answers[i].command \in Command
    <2>1. \A i \in DOMAIN answers : answers[i] \in Event
        BY <1>1, ElementOfSeq, LenProperties
    <2> QED
        BY <2>1 DEF Event
<1>4. \A l \in Lanes : Waiting(mailbox[l]) \subseteq Command
    <2> SUFFICES ASSUME NEW l \in Lanes PROVE Waiting(mailbox[l]) \subseteq Command
        OBVIOUS
    <2>1. mailbox[l].operations \in Seq(Command)
          /\ mailbox[l].slots \in [Slots -> Command \cup {NoCommand}]
        BY <1>1 DEF MailboxOf
    <2>2. \A i \in DOMAIN mailbox[l].operations : mailbox[l].operations[i] \in Command
        BY <2>1, ElementOfSeq, LenProperties
    <2> QED
        BY <2>1, <2>2 DEF Waiting, Full
<1> QED
    BY <1>1, <1>2, <1>3, <1>4 DEF OnItsWay

(* What waits is in the slot of its kind. *)
LEMMA WaitsAre ==
    ASSUME LaneTypeOK(Command, Event), InTheirLanes
    PROVE  \A c \in Waits : \E l \in Lanes : \E s \in Slots :
              /\ c = mailbox[l].slots[s] /\ c # NoCommand
              /\ l = LaneOf[c.kind] /\ s = SlotOf[c.kind]
<1> SUFFICES ASSUME NEW c \in Waits
             PROVE  \E l \in Lanes : \E s \in Slots :
                       /\ c = mailbox[l].slots[s] /\ c # NoCommand
                       /\ l = LaneOf[c.kind] /\ s = SlotOf[c.kind]
    OBVIOUS
<1>1. PICK l \in Lanes : c \in Waiting(mailbox[l])
    BY DEF Waits
<1>2. DOMAIN mailbox[l].operations = {}
    BY NothingTyped DEF InTheirLanes
<1>3. PICK s \in Full(mailbox[l]) : c = mailbox[l].slots[s]
    BY <1>1, <1>2 DEF Waiting
<1> QED
    BY <1>3 DEF InTheirLanes, Full

LEMMA DispatchInOrder ==
    ASSUME LaneTypeOK(Command, Event), InTheirLanes, PreparedInOrder, Dispatch
    PROVE  InTheirLanes' /\ PreparedInOrder' /\ Unanswered' \subseteq Unanswered
<1> DEFINE c == Head(outbox)
           to == LaneOf[c.kind]
<1>1. /\ outbox # <<>> /\ outbox' = Tail(outbox)
      /\ mailbox' = [mailbox EXCEPT ![to] = Push(@, c)]
      /\ UNCHANGED <<executing, answers>>
    BY DEF Dispatch
<1>2. /\ outbox \in Seq(Command) /\ mailbox \in [Lanes -> MailboxOf(Command)]
      /\ executing \in [Lanes -> Command \cup {NoCommand}]
    BY DEF LaneTypeOK
<1>3. c \in Command /\ c \in Sent /\ Len(Tail(outbox)) = 0 /\ DOMAIN Tail(outbox) = {}
    <2>1. c \in Command /\ c \in Sent /\ Tail(outbox) \in Seq(Command)
        BY <1>1, <1>2, TailElements DEF Sent
    <2>2. Len(outbox) \in Nat \ {0} /\ Len(outbox) <= 1
        BY <1>1, <1>2, EmptySeq, LenProperties DEF PreparedInOrder
    <2>3. Len(Tail(outbox)) = Len(outbox) - 1
        BY <1>1, <1>2, HeadTailProperties
    <2>4. Len(Tail(outbox)) = 0
        BY <2>2, <2>3
    <2>5. DOMAIN Tail(outbox) = 1 .. 0
        BY <2>1, <2>4, LenProperties
    <2> QED
        BY <2>1, <2>4, <2>5
<1>4. /\ c # NoCommand /\ ~ IsOperation(c) /\ to \in Lanes /\ SlotOf[c.kind] \in Slots
    BY <1>3, CommandsAreTabled
<1> HIDE DEF c, to
<1>5. /\ Push(mailbox[to], c).operations = mailbox[to].operations
      /\ \A s \in Slots : Push(mailbox[to], c).slots[s] =
                            IF s = SlotOf[c.kind] THEN c ELSE mailbox[to].slots[s]
    BY <1>2, <1>4 DEF Push, MailboxOf
<1>6. \A l \in Lanes : mailbox'[l] = IF l = to THEN Push(mailbox[to], c) ELSE mailbox[l]
    BY <1>1, <1>2
<1>7. InTheirLanes'
    <2>1. to = LaneOf[c.kind]
        BY DEF to
    <2>2. ASSUME NEW l \in Lanes
          PROVE  /\ mailbox'[l].operations = <<>>
                 /\ \A s \in Full(mailbox'[l]) : /\ l = LaneOf[mailbox'[l].slots[s].kind]
                                                 /\ s = SlotOf[mailbox'[l].slots[s].kind]
        <3>1. /\ mailbox[l].operations = <<>>
              /\ \A s \in Full(mailbox[l]) : /\ l = LaneOf[mailbox[l].slots[s].kind]
                                             /\ s = SlotOf[mailbox[l].slots[s].kind]
            BY DEF InTheirLanes
        <3>2. CASE l # to
            BY <1>6, <3>1, <3>2
        <3>3. CASE l = to
            <4>1. PICK m, n : m = mailbox[to] /\ n = mailbox'[l]
                OBVIOUS
            <4>2. /\ n.operations = m.operations
                  /\ \A s \in Slots : n.slots[s] = IF s = SlotOf[c.kind] THEN c ELSE m.slots[s]
                BY <1>5, <1>6, <3>3, <4>1
            <4>3. m.operations = <<>> /\ \A s \in Full(m) : /\ to = LaneOf[m.slots[s].kind]
                                                            /\ s = SlotOf[m.slots[s].kind]
                BY <3>1, <3>3, <4>1
            <4>4. ASSUME NEW s \in Full(n)
                  PROVE  to = LaneOf[n.slots[s].kind] /\ s = SlotOf[n.slots[s].kind]
                <5>1. s \in Slots /\ n.slots[s] # NoCommand
                    BY DEF Full
                <5>2. CASE s = SlotOf[c.kind]
                    BY <2>1, <4>2, <5>1, <5>2
                <5>3. CASE s # SlotOf[c.kind]
                    <6>1. n.slots[s] = m.slots[s] /\ s \in Full(m)
                        BY <4>2, <5>1, <5>3 DEF Full
                    <6> QED
                        BY <4>3, <6>1
                <5> QED
                    BY <5>2, <5>3
            <4> QED
                BY <3>3, <4>1, <4>2, <4>3, <4>4
        <3> QED
            BY <3>2, <3>3
    <2>3. \A l \in Lanes : executing'[l] # NoCommand => l = LaneOf[executing'[l].kind]
        BY <1>1 DEF InTheirLanes
    <2> QED
        BY <2>2, <2>3 DEF InTheirLanes
<1>8. Waits' \subseteq Waits \cup {c}
    <2> SUFFICES ASSUME NEW d \in Waits' PROVE d \in Waits \cup {c}
        OBVIOUS
    <2>1. PICK l \in Lanes : d \in Waiting(mailbox'[l])
        BY DEF Waits
    <2>2. Waiting(Push(mailbox[to], c)) \subseteq Waiting(mailbox[to]) \cup {c}
        BY <1>2, <1>3, <1>4, PushWaiting
    <2> QED
        BY <1>4, <1>6, <2>1, <2>2 DEF Waits
<1>9. Sent' = {} /\ Runs' = Runs /\ Answered' = Answered
    BY <1>1, <1>3 DEF Sent, Elements, Runs, Answered
<1>10. Unanswered' \subseteq Unanswered
    BY <1>3, <1>8, <1>9 DEF Unanswered
<1>11. PreparedInOrder'
    <2>1. Before(Answered', Unanswered')
        BY <1>9, <1>10 DEF PreparedInOrder, Before
    <2>2. Before(Runs', Sent' \cup Waits')
        BY <1>3, <1>8, <1>9 DEF PreparedInOrder, Before
    <2>3. Before(Waits', Sent')
        BY <1>9 DEF Before
    <2> QED
        BY <1>1, <1>3, <2>1, <2>2, <2>3 DEF PreparedInOrder, Before
<1> QED
    BY <1>7, <1>10, <1>11

LEMMA BeginInOrder ==
    ASSUME LaneTypeOK(Command, Event), InTheirLanes, PreparedInOrder,
           NEW l \in Lanes, NEW s \in Slots, BeginRead(l, s)
    PROVE  InTheirLanes' /\ PreparedInOrder' /\ Unanswered' \subseteq Unanswered
<1> DEFINE c == mailbox[l].slots[s]
<1>1. /\ executing[l] = NoCommand /\ s \in Full(mailbox[l])
      /\ mailbox' = [mailbox EXCEPT ![l] = WithoutSlot(@, s)]
      /\ executing' = [executing EXCEPT ![l] = c]
      /\ UNCHANGED <<outbox, answers>>
    BY DEF BeginRead, PopsSlot
<1>2. /\ mailbox \in [Lanes -> MailboxOf(Command)]
      /\ executing \in [Lanes -> Command \cup {NoCommand}]
    BY DEF LaneTypeOK
<1>3. c # NoCommand /\ l = LaneOf[c.kind] /\ s = SlotOf[c.kind] /\ c \in Waits
    BY <1>1 DEF InTheirLanes, Full, Waits, Waiting
<1> HIDE DEF c
<1>4. /\ WithoutSlot(mailbox[l], s).operations = mailbox[l].operations
      /\ \A t \in Slots : WithoutSlot(mailbox[l], s).slots[t] =
                            IF t = s THEN NoCommand ELSE mailbox[l].slots[t]
    BY <1>2 DEF WithoutSlot, MailboxOf
<1>5. \A m \in Lanes : /\ mailbox'[m] = IF m = l THEN WithoutSlot(mailbox[l], s) ELSE mailbox[m]
                       /\ executing'[m] = IF m = l THEN c ELSE executing[m]
    BY <1>1, <1>2
<1>6. InTheirLanes'
    BY <1>3, <1>4, <1>5 DEF InTheirLanes, Full
<1>7. Waits' \subseteq Waits /\ \A d \in Waits' : d.kind # c.kind
    <2> SUFFICES ASSUME NEW d \in Waits' PROVE d \in Waits /\ d.kind # c.kind
        OBVIOUS
    <2>1. PICK m \in Lanes : d \in Waiting(mailbox'[m])
        BY DEF Waits
    <2>2. mailbox'[m].operations = <<>>
        BY <1>6 DEF InTheirLanes
    <2>3. PICK t \in Slots : d = mailbox'[m].slots[t] /\ d # NoCommand
        BY <2>1, <2>2, NothingTyped DEF Waiting, Full
    <2>4. d = mailbox[m].slots[t] /\ ~ (m = l /\ t = s)
        BY <1>4, <1>5, <2>3
    <2>5. m = LaneOf[d.kind] /\ t = SlotOf[d.kind]
        BY <2>3, <2>4 DEF InTheirLanes, Full
    <2>6. d \in Waits
        BY <2>3, <2>4 DEF Waits, Waiting, Full
    <2> QED
        BY <1>3, <2>4, <2>5, <2>6
<1>8. Sent' = Sent /\ Runs' \subseteq Runs \cup {c} /\ Answered' = Answered
    BY <1>1, <1>5 DEF Sent, Elements, Runs, Answered
<1>9. Unanswered' \subseteq Unanswered
    BY <1>3, <1>7, <1>8 DEF Unanswered
<1>10. PreparedInOrder'
    <2>1. Before(Answered', Unanswered')
        BY <1>8, <1>9 DEF PreparedInOrder, Before
    <2>2. Before(Runs', Sent' \cup Waits')
        BY <1>3, <1>7, <1>8 DEF PreparedInOrder, Before, Prepare
    <2>3. Before(Waits', Sent')
        BY <1>7, <1>8 DEF PreparedInOrder, Before
    <2> QED
        BY <1>1, <2>1, <2>2, <2>3 DEF PreparedInOrder, Before
<1> QED
    BY <1>6, <1>9, <1>10

LEMMA ServeInOrder ==
    ASSUME LaneTypeOK(Command, Event), InTheirLanes, PreparedInOrder, Serve
    PROVE  /\ LaneTypeOK(Command, Event)' /\ InTheirLanes' /\ PreparedInOrder'
           /\ Unanswered' \subseteq Unanswered /\ OnItsWay' \subseteq OnItsWay
           /\ UNCHANGED answers
<1>1. LaneTypeOK(Command, Event)' /\ OnItsWay' \subseteq OnItsWay /\ UNCHANGED answers
    BY CommandsAreTabled, ServeOnItsWay
<1>2. ~ \E l \in Lanes : BeginOperation(l)
    BY DEF BeginOperation, PopsOperation, InTheirLanes
<1> QED
    BY <1>1, <1>2, DispatchInOrder, BeginInOrder DEF Serve

LEMMA AnswerInOrder ==
    ASSUME LaneTypeOK(Command, Event), InTheirLanes, PreparedInOrder,
           NEW l \in Lanes, NEW event \in Event, executing[l] # NoCommand,
           event.command = executing[l], Answer(l, event)
    PROVE  /\ LaneTypeOK(Command, Event)' /\ InTheirLanes' /\ PreparedInOrder'
           /\ Unanswered' \subseteq Unanswered /\ OnItsWay' \subseteq OnItsWay
           /\ executing[l] \in Unanswered
           /\ Prepare(executing[l]) =>
                 \A d \in Unanswered' : Prepare(d) => executing[l].generation < d.generation
           /\ Elements(answers)' = Elements(answers) \cup {event}
           /\ Sent' = Sent
<1> DEFINE c == executing[l]
<1>1. /\ answers' = Append(answers, event)
      /\ executing' = [executing EXCEPT ![l] = NoCommand]
      /\ UNCHANGED <<outbox, mailbox>>
    BY DEF Answer
<1>2. /\ answers \in Seq(Event) /\ executing \in [Lanes -> Command \cup {NoCommand}]
    BY DEF LaneTypeOK
<1>3. /\ LaneTypeOK(Command, Event)' /\ OnItsWay' \subseteq OnItsWay
      /\ Elements(answers)' = Elements(answers) \cup {event}
    BY AnswerOnItsWay
<1> HIDE DEF c
<1>4. c \in Runs /\ c # NoCommand /\ l = LaneOf[c.kind]
    BY DEF Runs, c, InTheirLanes
<1>5. Runs' \subseteq Runs /\ \A d \in Runs' : d.kind # c.kind
    <2> SUFFICES ASSUME NEW d \in Runs' PROVE d \in Runs /\ d.kind # c.kind
        OBVIOUS
    <2>1. PICK m \in Lanes : d = executing'[m] /\ d # NoCommand
        BY DEF Runs
    <2>2. m # l /\ d = executing[m]
        BY <1>1, <1>2, <2>1
    <2> QED
        BY <1>4, <2>1, <2>2 DEF Runs, InTheirLanes
<1>6. Sent' = Sent /\ Waits' = Waits
    BY <1>1 DEF Sent, Elements, Waits
<1>7. InTheirLanes'
    BY <1>1, <1>2 DEF InTheirLanes
<1>8. Answered' = Answered \cup {c}
    <2>1. Answered = {e.command : e \in Elements(answers)}
        BY DEF Answered, Elements
    <2>2. Answered' = {e.command : e \in Elements(answers)'}
        BY DEF Answered, Elements
    <2> QED
        BY <1>3, <2>1, <2>2 DEF c
<1>9. Unanswered' \subseteq Unanswered /\ c \in Unanswered
    BY <1>4, <1>5, <1>6 DEF Unanswered
<1>10. Prepare(c) => \A d \in Unanswered' : Prepare(d) => c.generation < d.generation
    <2> SUFFICES ASSUME Prepare(c), NEW d \in Unanswered', Prepare(d)
                 PROVE  c.generation < d.generation
        OBVIOUS
    <2>1. d \in Sent \cup Waits
        BY <1>5, <1>6 DEF Unanswered, Prepare
    <2> QED
        BY <1>4, <2>1 DEF PreparedInOrder, Before
<1>11. PreparedInOrder'
    <2>1. Before(Answered', Unanswered')
        BY <1>8, <1>9, <1>10 DEF PreparedInOrder, Before
    <2>2. Before(Runs', Sent' \cup Waits') /\ Before(Waits', Sent')
        BY <1>5, <1>6 DEF PreparedInOrder, Before
    <2>3. ASSUME NEW i \in DOMAIN answers', NEW j \in DOMAIN answers', i < j,
                 Prepare(answers'[i].command), Prepare(answers'[j].command)
          PROVE  answers'[i].command.generation < answers'[j].command.generation
        <3>1. /\ DOMAIN answers' = 1 .. Len(answers) + 1 /\ DOMAIN answers = 1 .. Len(answers)
              /\ Len(answers) \in Nat
              /\ \A k \in 1 .. Len(answers) : answers'[k] = answers[k]
              /\ answers'[Len(answers) + 1] = event
            BY <1>1, <1>2, AppendProperties, LenProperties
        <3>2. i \in DOMAIN answers /\ answers'[i] = answers[i]
            BY <2>3, <3>1
        <3>3. CASE j \in DOMAIN answers
            BY <2>3, <3>1, <3>2, <3>3 DEF PreparedInOrder
        <3>4. CASE j \notin DOMAIN answers
            <4>1. answers'[j].command = c
                BY <2>3, <3>1, <3>4 DEF c
            <4>2. answers[i].command \in Answered
                BY <3>2 DEF Answered
            <4> QED
                BY <1>9, <2>3, <3>2, <4>1, <4>2 DEF PreparedInOrder, Before
        <3> QED
            BY <3>3, <3>4
    <2>4. Len(outbox') <= 1
        BY <1>1 DEF PreparedInOrder
    <2> QED
        BY <2>1, <2>2, <2>3, <2>4 DEF PreparedInOrder
<1> QED
    BY <1>3, <1>6, <1>7, <1>9, <1>10, <1>11 DEF c

(* A handler sends at most one command, and runs when the outbox is empty.    *)
LEMMA HandlerInOrder ==
    ASSUME LaneTypeOK(Command, Event), InTheirLanes, PreparedInOrder,
           NEW effects \in Seq(Command), Len(effects) <= 1,
           \A c \in Elements(effects), d \in OnItsWay :
               Prepare(c) /\ Prepare(d) => d.generation < c.generation,
           Handle(effects) \/ (answers # <<>> /\ HandleAnswer(effects))
    PROVE  /\ LaneTypeOK(Command, Event)' /\ InTheirLanes' /\ PreparedInOrder'
           /\ Sent = {} /\ Sent' = Elements(effects)
           /\ Unanswered' = Unanswered \cup Elements(effects)
           /\ OnItsWay' \subseteq OnItsWay \cup Elements(effects)
           /\ Answered' \subseteq Answered
           /\ Elements(answers)' \subseteq Elements(answers)
<1>1. /\ outbox = <<>> /\ outbox' = effects /\ UNCHANGED <<mailbox, executing>>
      /\ answers \in Seq(Event)
      /\ answers' = answers \/ (answers # <<>> /\ answers' = Tail(answers))
    BY DEF Handle, HandleAnswer, Free, LaneTypeOK
<1>2. /\ LaneTypeOK(Command, Event)' /\ OnItsWay' \subseteq OnItsWay \cup Elements(effects)
      /\ Elements(answers)' \subseteq Elements(answers)
    <2>1. CASE Handle(effects)
        BY <2>1, HandleOnItsWay DEF Elements
    <2>2. CASE answers # <<>> /\ HandleAnswer(effects)
        BY <2>2, HandleAnswerOnItsWay
    <2> QED
        BY <2>1, <2>2
<1>3. Sent = {} /\ Sent' = Elements(effects) /\ Waits' = Waits /\ Runs' = Runs
    BY <1>1, NothingTyped DEF Sent, Elements, Waits, Runs
<1>4. Unanswered' = Unanswered \cup Elements(effects)
    BY <1>3 DEF Unanswered
<1>5. Answered' \subseteq Answered
    <2>1. Answered = {e.command : e \in Elements(answers)}
        BY DEF Answered, Elements
    <2>2. Answered' = {e.command : e \in Elements(answers)'}
        BY DEF Answered, Elements
    <2> QED
        BY <1>2, <2>1, <2>2
<1>6. InTheirLanes'
    BY <1>1 DEF InTheirLanes
<1>7. Before(OnItsWay, Elements(effects))
    BY DEF Before
<1>8. PreparedInOrder'
    <2>1. Before(Answered', Unanswered')
        BY <1>4, <1>5, <1>7, Stages DEF PreparedInOrder, Before
    <2>2. Before(Runs', Sent' \cup Waits') /\ Before(Waits', Sent')
        BY <1>3, <1>7, Stages DEF PreparedInOrder, Before, Unanswered
    <2>3. ASSUME NEW i \in DOMAIN answers', NEW j \in DOMAIN answers', i < j,
                 Prepare(answers'[i].command), Prepare(answers'[j].command)
          PROVE  answers'[i].command.generation < answers'[j].command.generation
        <3>1. CASE answers' = answers
            BY <2>3, <3>1 DEF PreparedInOrder
        <3>2. CASE answers # <<>> /\ answers' = Tail(answers)
            <4>1. /\ Len(answers') = Len(answers) - 1 /\ Len(answers) \in Nat \ {0}
                  /\ \A k \in 1 .. Len(answers') : answers'[k] = answers[k + 1]
                  /\ DOMAIN answers' = 1 .. Len(answers') /\ DOMAIN answers = 1 .. Len(answers)
                <5>1. answers' \in Seq(Event)
                    BY <1>2 DEF LaneTypeOK
                <5> QED
                    BY <1>1, <3>2, <5>1, HeadTailProperties, EmptySeq, LenProperties
            <4>2. i + 1 \in DOMAIN answers /\ j + 1 \in DOMAIN answers /\ i + 1 < j + 1
                  /\ answers'[i] = answers[i + 1] /\ answers'[j] = answers[j + 1]
                BY <2>3, <4>1
            <4> QED
                BY <2>3, <4>2 DEF PreparedInOrder
        <3> QED
            BY <1>1, <3>1, <3>2
    <2>4. Len(outbox') <= 1
        BY <1>1
    <2> QED
        BY <2>1, <2>2, <2>3, <2>4 DEF PreparedInOrder
<1> QED
    BY <1>2, <1>3, <1>4, <1>5, <1>6, <1>8
-----------------------------------------------------------------------------
(* The lanes keep to their invariant. *)

LEMMA ServeKeepsLanes ==
    ASSUME LaneTypeOK(Command, Event), LanesInv, Serve, UNCHANGED <<session, generation>>
    PROVE  /\ LaneTypeOK(Command, Event)' /\ LanesInv'
           /\ Unanswered' \subseteq Unanswered /\ OnItsWay' \subseteq OnItsWay
<1>1. /\ LaneTypeOK(Command, Event)' /\ InTheirLanes' /\ PreparedInOrder'
      /\ Unanswered' \subseteq Unanswered /\ OnItsWay' \subseteq OnItsWay
      /\ UNCHANGED answers
    BY ServeInOrder DEF LanesInv
<1>2. NoneIsAhead'
    BY <1>1 DEF LanesInv, NoneIsAhead
<1>3. Elements(answers)' = Elements(answers)
    BY <1>1 DEF Elements
<1>4. SessionsAreLatest'
    BY <1>1, <1>3 DEF LanesInv, SessionsAreLatest
<1>5. PatchesAreOfTheWorkspace'
    BY <1>3 DEF LanesInv, PatchesAreOfTheWorkspace
<1> QED
    BY <1>1, <1>2, <1>4, <1>5 DEF LanesInv

(* What the thread of a lane answers to a command. *)
Answers(l, event) ==
    /\ executing[l] # NoCommand /\ event.command = executing[l] /\ Answer(l, event)
    /\ event.ok => MaySucceed(executing[l])
    /\ Load(executing[l]) /\ event.ok => event.patch = PatchOf(executing[l])
    /\ session' = IF Prepare(executing[l]) /\ event.ok THEN Store(executing[l]) ELSE session

LEMMA ExecuteAnswers ==
    ASSUME LaneTypeOK(Command, Event), tree.files \in Trees, tree.version \in Nat,
           session \in [Views -> [generation : 0 .. Wrap - 1, request : LocalDiffRequest]],
           NEW l \in Lanes, Execute(l)
    PROVE  \E event \in Event : Answers(l, event)
<1> DEFINE c == executing[l]
<1>1. c # NoCommand /\ c \in Command
    BY DEF Execute, LaneTypeOK
<1>2. PICK ok \in Outcomes(c) :
          /\ Answer(l, [command |-> c, ok |-> ok,
                        files |-> IF c.kind = "Refresh" /\ ok THEN tree.files ELSE <<>>,
                        patch |-> IF c.kind = "LoadLocalDiffFile" /\ ok THEN PatchOf(c)
                                  ELSE Failed])
          /\ session' = IF c.kind = "PrepareLocalDiff" /\ ok THEN Store(c) ELSE session
    BY DEF Execute
<1> DEFINE event == [command |-> c, ok |-> ok,
                     files |-> IF c.kind = "Refresh" /\ ok THEN tree.files ELSE <<>>,
                     patch |-> IF c.kind = "LoadLocalDiffFile" /\ ok THEN PatchOf(c) ELSE Failed]
<1>3. ok \in BOOLEAN /\ (ok => MaySucceed(c))
    BY DEF Outcomes
<1> HIDE DEF c
<1>4. ASSUME Load(c), ok PROVE PatchOf(c) \in Patch
    <2>1. \E v \in Views : session[v].generation = c.workspace
        BY <1>3, <1>4 DEF MaySucceed, Load
    <2> DEFINE v == CHOOSE v \in Views : session[v].generation = c.workspace
    <2>2. v \in Views
        BY <2>1
    <2>3. PatchOf(c) = [kind |-> session[v].request.kind, name |-> session[v].request.name,
             at |-> IF session[v].request.kind \in {"section", "change"} THEN tree.version ELSE 0]
        BY DEF PatchOf
    <2> HIDE DEF v
    <2>4. session[v].request \in LocalDiffRequest
        BY <2>2
    <2> QED
        BY <2>3, <2>4 DEF LocalDiffRequest, Patch
<1>5. event \in Event
    <2> DEFINE fs == IF c.kind = "Refresh" /\ ok THEN tree.files ELSE <<>>
               patch == IF c.kind = "LoadLocalDiffFile" /\ ok THEN PatchOf(c) ELSE Failed
    <2>1. fs \in Trees \cup {<<>>}
        OBVIOUS
    <2>2. patch \in Patch
        BY <1>4, NoPatchesTyped DEF Load
    <2>3. event = [command |-> c, ok |-> ok, files |-> fs, patch |-> patch]
        OBVIOUS
    <2> HIDE DEF fs, patch, event
    <2> QED
        BY <1>1, <1>3, <2>1, <2>2, <2>3 DEF Event, c
<1>6. event.command = c /\ event.ok = ok /\ (Load(c) /\ ok => event.patch = PatchOf(c))
    BY DEF Load
<1>7. Answer(l, event)
    BY <1>2
<1>8. session' = IF Prepare(c) /\ ok THEN Store(c) ELSE session
    BY <1>2 DEF Prepare
<1> HIDE DEF event
<1>9. Answers(l, event)
    BY <1>1, <1>3, <1>6, <1>7, <1>8 DEF Answers, c
<1> QED
    BY <1>5, <1>9

LEMMA ExecuteKeepsLanes ==
    ASSUME LaneTypeOK(Command, Event), LanesInv, generation \in Generation,
           session \in [Views -> [generation : 0 .. Wrap - 1, request : LocalDiffRequest]],
           NEW l \in Lanes, NEW event \in Event, Answers(l, event), UNCHANGED generation
    PROVE  /\ LaneTypeOK(Command, Event)' /\ LanesInv'
           /\ session' \in [Views -> [generation : 0 .. Wrap - 1, request : LocalDiffRequest]]
           /\ Unanswered' \subseteq Unanswered /\ OnItsWay' \subseteq OnItsWay /\ Sent' = Sent
           /\ \A v \in Views : \/ session'[v] = session[v]
                               \/ /\ executing[l] \in Unanswered /\ Prepare(executing[l])
                                  /\ SlotOfRequest(executing[l].request) = v
<1> DEFINE c == executing[l]
           w == SlotOfRequest(c.request)
<1>1. /\ c # NoCommand /\ event.command = c
      /\ event.ok => MaySucceed(c)
      /\ Load(c) /\ event.ok => event.patch = PatchOf(c)
      /\ session' = IF Prepare(c) /\ event.ok THEN Store(c) ELSE session
    BY DEF Answers
<1>2. /\ LaneTypeOK(Command, Event)' /\ InTheirLanes' /\ PreparedInOrder'
      /\ Unanswered' \subseteq Unanswered /\ OnItsWay' \subseteq OnItsWay
      /\ c \in Unanswered
      /\ Prepare(c) => \A d \in Unanswered' : Prepare(d) => c.generation < d.generation
      /\ Elements(answers)' = Elements(answers) \cup {event}
      /\ Sent' = Sent
    BY AnswerInOrder DEF LanesInv, Answers
<1>3. c \in OnItsWay /\ c \in Command
    BY <1>2, Stages, StagesTyped
<1> HIDE DEF c
<1>4. w \in Views
    BY DEF SlotOfRequest, Views
<1> HIDE DEF w
<1>5. NoneIsAhead'
    BY <1>2 DEF LanesInv, NoneIsAhead
<1>6. CASE Prepare(c) /\ event.ok
    <2>1. \A v \in Views : session'[v] = IF v = w
              THEN [generation |-> c.generation, request |-> c.request] ELSE session[v]
        BY <1>1, <1>4, <1>6 DEF Store, w
    <2>2. c.request \in LocalDiffRequest /\ c.generation \in 0 .. Wrap - 1
          /\ c.generation \in 1 .. generation
        BY <1>3, <1>6 DEF Command, LanesInv, NoneIsAhead
    <2>3. session' = [session EXCEPT ![w] = [generation |-> c.generation, request |-> c.request]]
        BY <1>1, <1>6 DEF Store, w
    <2>4. session' \in [Views -> [generation : 0 .. Wrap - 1, request : LocalDiffRequest]]
        BY <1>4, <2>2, <2>3
    <2>5. \A v \in Views : session[v].generation < c.generation /\ session[v].generation \in Nat
        BY <1>2, <1>6 DEF LanesInv, SessionsAreLatest
    <2>6. SessionsAreLatest'
        <3>1. ASSUME NEW v \in Views
              PROVE  /\ session'[v].generation \in 0 .. generation
                     /\ \A d \in Unanswered' : Prepare(d) => session'[v].generation < d.generation
            <4>1. CASE v = w
                BY <1>2, <1>6, <2>1, <2>2, <4>1
            <4>2. CASE v # w
                BY <1>2, <2>1, <4>2 DEF LanesInv, SessionsAreLatest
            <4> QED
                BY <4>1, <4>2
        <3>2. ASSUME NEW v \in Views, NEW u \in Views, v # u,
                     session'[v].generation = session'[u].generation
              PROVE  session'[v].generation = 0
            <4>1. CASE v # w /\ u # w
                BY <2>1, <3>2, <4>1 DEF LanesInv, SessionsAreLatest
            <4>2. CASE v = w \/ u = w
                BY <2>1, <2>5, <2>2, <3>2, <4>2
            <4> QED
                BY <4>1, <4>2
        <3>3. ASSUME NEW e \in Elements(answers)', Prepare(e.command), e.ok
              PROVE  LET kept == session'[SlotOfRequest(e.command.request)] IN
                     /\ e.command.generation <= kept.generation
                     /\ e.command.generation = kept.generation => kept.request = e.command.request
            <4> DEFINE b == e.command
                       u == SlotOfRequest(b.request)
            <4>0. u \in Views
                BY DEF SlotOfRequest, Views
            <4>1. CASE e = event
                <5>1. b = c /\ u = w
                    BY <1>1, <4>1 DEF w
                <5> QED
                    BY <2>1, <2>2, <4>0, <5>1
            <4>2. CASE e \in Elements(answers)
                <5>1. b \in Answered /\ b.generation < c.generation
                    <6>1. b \in Answered
                        BY <4>2 DEF Answered, Elements
                    <6> QED
                        BY <1>2, <1>6, <3>3, <6>1 DEF LanesInv, PreparedInOrder, Before
                <5>2. b.generation \in Nat
                    BY <5>1, Stages, StagesTyped DEF Command
                <5>3. CASE u = w
                    BY <2>1, <2>2, <4>0, <5>1, <5>2, <5>3
                <5>4. CASE u # w
                    <6>1. session'[u] = session[u]
                        BY <2>1, <4>0, <5>4
                    <6> QED
                        BY <3>3, <4>2, <6>1 DEF LanesInv, SessionsAreLatest
                <5> QED
                    BY <5>3, <5>4
            <4> QED
                BY <1>2, <4>1, <4>2
        <3> QED
            BY <3>1, <3>2, <3>3 DEF SessionsAreLatest
    <2>7. PatchesAreOfTheWorkspace'
        <3> SUFFICES ASSUME NEW e \in Elements(answers)', NEW v \in Views, Load(e.command), e.ok,
                            session'[v].generation = e.command.workspace
                     PROVE  /\ e.patch.kind = session'[v].request.kind
                            /\ e.patch.name = session'[v].request.name
            BY DEF PatchesAreOfTheWorkspace
        <3>1. e \in Elements(answers)
            BY <1>1, <1>2, <1>6 DEF Load, Prepare
        <3>2. e.command \in OnItsWay
            BY <3>1, PlacesOnTheWay DEF Elements
        <3>3. e.command.workspace < c.generation
            BY <1>2, <1>6, <3>2 DEF LanesInv, NoneIsAhead
        <3>4. v # w
            BY <1>4, <2>1, <2>2, <3>2, <3>3, StagesTyped DEF Command
        <3> QED
            BY <2>1, <3>1, <3>4 DEF LanesInv, PatchesAreOfTheWorkspace
    <2> QED
        BY <1>2, <1>5, <1>6, <2>1, <2>4, <2>6, <2>7 DEF LanesInv, c, w
<1>7. CASE ~ (Prepare(c) /\ event.ok)
    <2>1. session' = session
        BY <1>1, <1>7
    <2>2. SessionsAreLatest'
        BY <1>1, <1>2, <1>7, <2>1 DEF LanesInv, SessionsAreLatest
    <2>3. PatchesAreOfTheWorkspace'
        <3> SUFFICES ASSUME NEW e \in Elements(answers)', NEW v \in Views, Load(e.command), e.ok,
                            session[v].generation = e.command.workspace
                     PROVE  /\ e.patch.kind = session[v].request.kind
                            /\ e.patch.name = session[v].request.name
            BY <2>1 DEF PatchesAreOfTheWorkspace
        <3>1. CASE e \in Elements(answers)
            BY <3>1 DEF LanesInv, PatchesAreOfTheWorkspace
        <3>2. CASE e = event
            <4>1. c.workspace \in 1 .. generation
                BY <1>1, <1>3, <3>2 DEF LanesInv, NoneIsAhead
            <4> DEFINE u == CHOOSE u \in Views : session[u].generation = c.workspace
            <4>2. u \in Views /\ session[u].generation = c.workspace
                BY <1>1, <3>2
            <4>3. u = v
                BY <1>1, <3>2, <4>1, <4>2 DEF LanesInv, SessionsAreLatest
            <4>4. e.patch = PatchOf(c)
                BY <1>1, <3>2
            <4>5. PatchOf(c) = [kind |-> session[u].request.kind, name |-> session[u].request.name,
                    at |-> IF session[u].request.kind \in {"section", "change"}
                           THEN tree.version ELSE 0]
                BY DEF PatchOf
            <4> HIDE DEF u
            <4> QED
                BY <4>3, <4>4, <4>5
        <3> QED
            BY <1>2, <3>1, <3>2
    <2> QED
        BY <1>2, <1>5, <2>1, <2>2, <2>3 DEF LanesInv
<1> QED
    BY <1>6, <1>7

LEMMA ShortList ==
    ASSUME NEW S, NEW s \in Seq(S), Len(s) <= 1
    PROVE  /\ Elements(s) \subseteq S
           /\ \A a, b \in Elements(s) : a = b
<1>1. DOMAIN s = 1 .. Len(s) /\ Len(s) \in Nat /\ \A i \in DOMAIN s : s[i] \in S
    BY LenProperties, ElementOfSeq
<1> QED
    BY <1>1 DEF Elements

LEMMA HandlerKeepsLanes ==
    ASSUME LaneTypeOK(Command, Event), LanesInv, generation \in Generation,
           generation' \in {generation, generation + 1}, UNCHANGED session,
           session \in [Views -> [generation : 0 .. Wrap - 1, request : LocalDiffRequest]],
           NEW effects \in Seq(Command), Len(effects) <= 1,
           \A c \in Elements(effects) :
               /\ Prepare(c) => /\ c.generation = generation' /\ generation' = generation + 1
                                /\ c.request.kind # "none"
               /\ Load(c) => /\ c.workspace \in 1 .. generation
                             /\ \A d \in Unanswered : Prepare(d) => c.workspace < d.generation,
           Handle(effects) \/ (answers # <<>> /\ HandleAnswer(effects))
    PROVE  /\ LaneTypeOK(Command, Event)' /\ LanesInv'
           /\ Sent' = Elements(effects) /\ Unanswered' = Unanswered \cup Elements(effects)
           /\ OnItsWay' \subseteq OnItsWay \cup Elements(effects)
<1>0. generation \in Nat /\ generation' \in Nat /\ generation <= generation'
    BY DEF Generation
<1>1. Elements(effects) \subseteq Command /\ \A a, b \in Elements(effects) : a = b
    BY ShortList
<1>2. OnItsWay \subseteq Command
    BY StagesTyped
<1>3. \A c \in Elements(effects), d \in OnItsWay :
          Prepare(c) /\ Prepare(d) => d.generation < c.generation
    BY <1>0, <1>2 DEF LanesInv, NoneIsAhead
<1>4. /\ LaneTypeOK(Command, Event)' /\ InTheirLanes' /\ PreparedInOrder'
      /\ Sent = {} /\ Sent' = Elements(effects)
      /\ Unanswered' = Unanswered \cup Elements(effects)
      /\ OnItsWay' \subseteq OnItsWay \cup Elements(effects)
      /\ Answered' \subseteq Answered
      /\ Elements(answers)' \subseteq Elements(answers)
    BY <1>3, HandlerInOrder DEF LanesInv
<1>5. NoneIsAhead'
    <2> SUFFICES ASSUME NEW c \in OnItsWay'
                 PROVE  /\ Prepare(c) => /\ c.request.kind # "none"
                                         /\ c.generation \in 1 .. generation'
                        /\ Load(c) => /\ c.workspace \in 1 .. generation'
                                      /\ \A d \in Unanswered' :
                                            Prepare(d) => c.workspace < d.generation
        BY DEF NoneIsAhead
    <2>1. CASE c \in OnItsWay
        <3>1. ASSUME Load(c), NEW d \in Unanswered', Prepare(d)
              PROVE  c.workspace < d.generation
            <4>1. CASE d \in Unanswered
                BY <2>1, <3>1, <4>1 DEF LanesInv, NoneIsAhead
            <4>2. CASE d \in Elements(effects)
                BY <1>0, <2>1, <3>1, <4>2 DEF LanesInv, NoneIsAhead
            <4> QED
                BY <1>4, <4>1, <4>2
        <3> QED
            BY <1>0, <2>1, <3>1 DEF LanesInv, NoneIsAhead
    <2>2. CASE c \in Elements(effects)
        <3>1. ASSUME Load(c), NEW d \in Unanswered', Prepare(d)
              PROVE  c.workspace < d.generation
            <4>1. d \in Unanswered
                BY <1>1, <1>4, <2>2, <3>1 DEF Load, Prepare
            <4> QED
                BY <2>2, <3>1, <4>1
        <3> QED
            BY <1>0, <2>2, <3>1
    <2> QED
        BY <1>4, <2>1, <2>2
<1>6. SessionsAreLatest'
    <2>1. ASSUME NEW v \in Views, NEW d \in Unanswered', Prepare(d)
          PROVE  session[v].generation < d.generation
        <3>1. session[v].generation \in 0 .. generation
            BY DEF LanesInv, SessionsAreLatest
        <3>2. CASE d \in Unanswered
            BY <2>1, <3>2 DEF LanesInv, SessionsAreLatest
        <3>3. CASE d \in Elements(effects)
            BY <1>0, <2>1, <3>1, <3>3
        <3> QED
            BY <1>4, <3>2, <3>3
    <2>2. \A v \in Views : session[v].generation \in 0 .. generation'
        BY <1>0 DEF LanesInv, SessionsAreLatest
    <2> QED
        BY <1>4, <2>1, <2>2 DEF LanesInv, SessionsAreLatest
<1>7. PatchesAreOfTheWorkspace'
    BY <1>4 DEF LanesInv, PatchesAreOfTheWorkspace
<1> QED
    BY <1>4, <1>5, <1>6, <1>7 DEF LanesInv
-----------------------------------------------------------------------------
(* What the steps do to the panes. *)

LEMMA DispatchKeepsComing ==
    ASSUME LaneTypeOK(Command, Event), LanesInv, Dispatch, NEW c \in OnItsWay
    PROVE  \/ c \in OnItsWay'
           \/ \E e \in Sent : e \in OnItsWay' /\ SlotOf[e.kind] = SlotOf[c.kind]
<1> DEFINE e == Head(outbox)
           to == LaneOf[e.kind]
<1>1. /\ outbox # <<>> /\ outbox' = Tail(outbox)
      /\ mailbox' = [mailbox EXCEPT ![to] = Push(@, e)]
      /\ UNCHANGED <<executing, answers>>
    BY DEF Dispatch
<1>2. /\ outbox \in Seq(Command) /\ mailbox \in [Lanes -> MailboxOf(Command)]
    BY DEF LaneTypeOK
<1>3. e \in Command /\ e \in Sent
    BY <1>1, <1>2, TailElements DEF Sent
<1>4. Sent = {e}
    BY <1>2, <1>3, ShortList DEF Sent, LanesInv, PreparedInOrder
<1>5. /\ e # NoCommand /\ ~ IsOperation(e) /\ to \in Lanes /\ SlotOf[e.kind] \in Slots
    BY <1>3, CommandsAreTabled
<1> HIDE DEF e, to
<1>6. \A s \in Slots : Push(mailbox[to], e).slots[s] =
                         IF s = SlotOf[e.kind] THEN e ELSE mailbox[to].slots[s]
    BY <1>2, <1>5 DEF Push, MailboxOf
<1>7. \A l \in Lanes : mailbox'[l] = IF l = to THEN Push(mailbox[to], e) ELSE mailbox[l]
    BY <1>1, <1>2
<1>8. e \in OnItsWay'
    <2>1. e \in Waiting(mailbox'[to])
        BY <1>5, <1>6, <1>7 DEF Waiting, Full
    <2> QED
        BY <1>5, <2>1 DEF OnItsWay
<1>9. CASE c \in Runs \cup Answered
    <2>1. c \in Runs' \cup Answered'
        BY <1>1, <1>9 DEF Runs, Answered
    <2> QED
        BY <2>1 DEF OnItsWay, Runs, Answered
<1>10. CASE c \in Waits
    <2>1. PICK l \in Lanes, s \in Slots : c = mailbox[l].slots[s] /\ c # NoCommand
                                          /\ s = SlotOf[c.kind]
        BY <1>10, WaitsAre DEF LanesInv
    <2>2. CASE l = to /\ s = SlotOf[e.kind]
        BY <1>3, <1>8, <2>1, <2>2
    <2>3. CASE ~ (l = to /\ s = SlotOf[e.kind])
        <3>1. mailbox'[l].slots[s] = c
            BY <1>6, <1>7, <2>1, <2>3
        <3>2. c \in Waiting(mailbox'[l])
            BY <2>1, <3>1 DEF Waiting, Full
        <3> QED
            BY <3>2 DEF OnItsWay
    <2> QED
        BY <2>2, <2>3
<1> QED
    BY <1>4, <1>8, <1>9, <1>10, Stages DEF Unanswered

LEMMA BeginKeepsComing ==
    ASSUME LaneTypeOK(Command, Event), LanesInv, NEW l \in Lanes, NEW s \in Slots,
           BeginRead(l, s), NEW c \in OnItsWay
    PROVE  c \in OnItsWay'
<1>1. /\ executing[l] = NoCommand /\ s \in Full(mailbox[l])
      /\ mailbox' = [mailbox EXCEPT ![l] = WithoutSlot(@, s)]
      /\ executing' = [executing EXCEPT ![l] = mailbox[l].slots[s]]
      /\ UNCHANGED <<outbox, answers>>
    BY DEF BeginRead, PopsSlot
<1>2. /\ mailbox \in [Lanes -> MailboxOf(Command)]
      /\ executing \in [Lanes -> Command \cup {NoCommand}]
    BY DEF LaneTypeOK
<1>3. CASE c \in Sent \cup Answered
    <2>1. c \in Sent' \cup Answered'
        BY <1>1, <1>3 DEF Sent, Elements, Answered
    <2> QED
        BY <2>1 DEF OnItsWay, Sent, Elements, Answered
<1>4. CASE c \in Runs
    <2>1. PICK m \in Lanes : c = executing[m] /\ c # NoCommand
        BY <1>4 DEF Runs
    <2>2. executing'[m] = c
        BY <1>1, <1>2, <2>1
    <2> QED
        BY <2>1, <2>2 DEF OnItsWay
<1>5. CASE c \in Waits
    <2>1. PICK m \in Lanes, t \in Slots : c = mailbox[m].slots[t] /\ c # NoCommand
        BY <1>5, WaitsAre DEF LanesInv
    <2>2. CASE m = l /\ t = s
        <3>1. executing'[l] = c
            BY <1>1, <1>2, <2>1, <2>2
        <3> QED
            BY <2>1, <3>1 DEF OnItsWay
    <2>3. CASE ~ (m = l /\ t = s)
        <3>1. mailbox'[m].slots[t] = c
            BY <1>1, <1>2, <2>1, <2>3 DEF WithoutSlot, MailboxOf
        <3>2. c \in Waiting(mailbox'[m])
            BY <2>1, <3>1 DEF Waiting, Full
        <3> QED
            BY <3>2 DEF OnItsWay
    <2> QED
        BY <2>2, <2>3
<1> QED
    BY <1>3, <1>4, <1>5, Stages DEF Unanswered

LEMMA AnswerKeepsComing ==
    ASSUME LaneTypeOK(Command, Event), NEW l \in Lanes, NEW event \in Event,
           event.command = executing[l], Answer(l, event), NEW c \in OnItsWay
    PROVE  c \in OnItsWay'
<1>1. /\ answers' = Append(answers, event) /\ answers \in Seq(Event)
      /\ executing' = [executing EXCEPT ![l] = NoCommand]
      /\ UNCHANGED <<outbox, mailbox>> /\ executing \in [Lanes -> Command \cup {NoCommand}]
    BY DEF Answer, LaneTypeOK
<1>2. Elements(answers)' = Elements(answers) \cup {event}
    <2>1. Elements(Append(answers, event)) = Elements(answers) \cup {event}
        BY <1>1, AppendElements
    <2> QED
        BY <1>1, <2>1 DEF Elements
<1>3. Answered' = Answered \cup {event.command}
    <2>1. Answered = {e.command : e \in Elements(answers)}
        BY DEF Answered, Elements
    <2>2. Answered' = {e.command : e \in Elements(answers)'}
        BY DEF Answered, Elements
    <2> QED
        BY <1>2, <2>1, <2>2
<1>4. CASE c \in Sent \cup Waits
    <2>1. c \in Sent' \cup Waits'
        BY <1>1, <1>4 DEF Sent, Elements, Waits
    <2> QED
        BY <2>1 DEF OnItsWay, Sent, Elements, Waits
<1>5. CASE c \in Answered
    BY <1>3, <1>5 DEF OnItsWay, Answered
<1>6. CASE c \in Runs
    <2>1. PICK m \in Lanes : c = executing[m] /\ c # NoCommand
        BY <1>6 DEF Runs
    <2>2. CASE m = l
        BY <1>3, <2>1, <2>2 DEF OnItsWay, Answered
    <2>3. CASE m # l
        <3>1. executing'[m] = c
            BY <1>1, <2>1, <2>3
        <3> QED
            BY <2>1, <3>1 DEF OnItsWay
    <2> QED
        BY <2>2, <2>3
<1> QED
    BY <1>4, <1>5, <1>6, Stages DEF Unanswered

LEMMA HandlerKeepsComing ==
    ASSUME LaneTypeOK(Command, Event), NEW effects \in Seq(Command),
           Handle(effects) \/ (answers # <<>> /\ HandleAnswer(effects))
    PROVE  /\ Elements(effects) \subseteq OnItsWay'
           /\ \A c \in OnItsWay :
                 Handle(effects) \/ c # Head(answers).command => c \in OnItsWay'
<1>1. /\ outbox = <<>> /\ outbox' = effects /\ UNCHANGED <<mailbox, executing>>
      /\ answers \in Seq(Event)
    BY DEF Handle, HandleAnswer, Free, LaneTypeOK
<1>2. Elements(effects) \subseteq OnItsWay'
    BY <1>1 DEF OnItsWay, Elements
<1>3. ASSUME NEW c \in OnItsWay, Handle(effects) \/ c # Head(answers).command
      PROVE  c \in OnItsWay'
    <2>1. CASE c \in Waits \cup Runs
        <3>1. c \in Waits' \cup Runs'
            BY <1>1, <2>1 DEF Waits, Runs
        <3> QED
            BY <3>1 DEF OnItsWay, Waits, Runs
    <2>2. CASE c \in Answered /\ Handle(effects)
        <3>1. c \in Answered'
            BY <2>2 DEF Answered, Handle
        <3> QED
            BY <3>1 DEF OnItsWay, Answered
    <2>3. CASE c \in Answered /\ c # Head(answers).command /\ HandleAnswer(effects)
        <3>1. PICK i \in DOMAIN answers : c = answers[i].command
            BY <2>3 DEF Answered
        <3>2. answers # <<>> /\ answers' = Tail(answers) /\ Head(answers) = answers[1]
            BY <1>1, <2>3, <3>1, EmptySeq, LenProperties DEF HandleAnswer
        <3>3. /\ Len(answers') = Len(answers) - 1 /\ Len(answers) \in Nat \ {0}
              /\ \A k \in 1 .. Len(answers') : answers'[k] = answers[k + 1]
              /\ DOMAIN answers' = 1 .. Len(answers') /\ DOMAIN answers = 1 .. Len(answers)
            <4>1. answers' \in Seq(Event)
                BY <1>1, <3>2, TailElements
            <4> QED
                BY <1>1, <3>2, <4>1, HeadTailProperties, EmptySeq, LenProperties
        <3>4. i # 1
            BY <2>3, <3>1, <3>2
        <3>5. i - 1 \in DOMAIN answers' /\ answers'[i - 1] = answers[i]
            BY <3>1, <3>3, <3>4
        <3> QED
            BY <3>1, <3>5 DEF OnItsWay
    <2>4. Sent = {}
        BY <1>1, NothingTyped DEF Sent, Elements
    <2> QED
        BY <1>3, <2>1, <2>2, <2>3, <2>4, Stages DEF Unanswered
<1> QED
    BY <1>2, <1>3

(* A pane whose workspace is set shows its index. *)
LEMMA GoodWhenLoading ==
    ASSUME NEW p, Good(p), p.workspace # 0 \/ p.loading # NoFile
    PROVE  p.indexed /\ p.workspace # 0
BY GoodWhenIdle DEF Idle, Good, Kept

(* What takes the place of a command in the slot that they share is awaited   *)
(* in its place.                                                              *)
LEMMA ServeKeepsPanes ==
    ASSUME LaneTypeOK(Command, Event), LanesInv, view \in Views, PanesInv, Serve,
           UNCHANGED <<session, view, panes, generation>>
    PROVE  PanesInv'
<1>1. /\ LaneTypeOK(Command, Event)' /\ LanesInv'
      /\ Unanswered' \subseteq Unanswered /\ OnItsWay' \subseteq OnItsWay
    BY ServeKeepsLanes
<1>2. UNCHANGED pane /\ Good(pane)
    BY DEF pane, PanesInv, PanesAreGood
<1>3. PanesAreGood' /\ IndexIsAwaited' /\ WorkspacesAreLatest'
    <2>1. PanesAreGood'
        BY DEF PanesInv, PanesAreGood
    <2>2. IndexIsAwaited'
        BY <1>1, <1>2 DEF PanesInv, IndexIsAwaited
    <2>3. WorkspacesAreLatest'
        BY <1>1 DEF PanesInv, WorkspacesAreLatest, WorkspacesAreKept
    <2> QED
        BY <2>1, <2>2, <2>3
<1>4. CASE Dispatch
    <2>1. Sent' = {}
        <3>1. outbox # <<>> /\ outbox' = Tail(outbox) /\ outbox \in Seq(Command) /\ Len(outbox) <= 1
            BY <1>4 DEF Dispatch, LaneTypeOK, LanesInv, PreparedInOrder
        <3>2. Tail(outbox) \in Seq(Command) /\ Len(Tail(outbox)) = Len(outbox) - 1
              /\ Len(outbox) \in Nat \ {0}
            BY <3>1, TailElements, HeadTailProperties, EmptySeq, LenProperties
        <3>3. DOMAIN Tail(outbox) = 1 .. 0
            BY <3>1, <3>2, LenProperties
        <3> QED
            BY <3>1, <3>3 DEF Sent, Elements
    <2>2. SentIsAwaited'
        BY <2>1 DEF SentIsAwaited
    <2>3. \A c \in OnItsWay :
             \/ c \in OnItsWay'
             \/ \E e \in Sent : e \in OnItsWay' /\ SlotOf[e.kind] = SlotOf[c.kind]
        BY <1>4, DispatchKeepsComing
    <2>4. Sent \subseteq Command /\ Sent \subseteq OnItsWay
        BY StagesTyped, Stages DEF Unanswered
    <2>5. ASSUME NEW c \in OnItsWay, Prepare(c) \/ Load(c), c \notin OnItsWay'
          PROVE  \E e \in OnItsWay' :
                    \/ Prepare(e) /\ e.generation = generation /\ Idle(pane)
                    \/ /\ Load(e) /\ e.generation = generation /\ pane.indexed
                       /\ e.workspace = pane.workspace /\ e.path = pane.loading
        <3>1. PICK e \in Sent : e \in OnItsWay' /\ SlotOf[e.kind] = SlotOf[c.kind]
            BY <2>3, <2>5
        <3>2. e.kind \in {"Refresh", "PrepareLocalDiff", "LoadLocalDiffFile"}
            BY <2>4 DEF Command
        <3>3. Prepare(e) \/ Load(e)
            BY <2>5, <3>1, <3>2, TablesAssumption DEF Prepare, Load
        <3>4. CASE Prepare(e)
            BY <1>2, <3>1, <3>4, GoodWhenIdle DEF PanesInv, SentIsAwaited
        <3>5. CASE Load(e)
            <4>1. /\ e.generation = generation /\ e.workspace = pane.workspace
                  /\ e.path = pane.loading
                BY <3>5 DEF PanesInv, SentIsAwaited
            <4>2. e.workspace # 0
                BY <2>4, <3>5 DEF LanesInv, NoneIsAhead
            <4> QED
                BY <1>2, <3>1, <3>5, <4>1, <4>2, GoodWhenLoading
        <3> QED
            BY <3>3, <3>4, <3>5
    <2>6. PreviewIsOwed'
        <3>1. ASSUME pane.document_loading
              PROVE  IF pane.indexed THEN pane.loading # NoFile
                     ELSE \E c \in OnItsWay' : c.kind = "PrepareLocalDiff" /\ c.generation = generation
            BY <2>5, <3>1 DEF PanesInv, PreviewIsOwed, Prepare, Load
        <3>2. ASSUME pane.loading # NoFile
              PROVE  \E c \in OnItsWay' : /\ c.kind = "LoadLocalDiffFile" /\ c.generation = generation
                                          /\ c.workspace = pane.workspace /\ c.path = pane.loading
            BY <2>5, <3>2 DEF PanesInv, PreviewIsOwed, Prepare, Load, Idle
        <3> QED
            BY <1>2, <3>1, <3>2 DEF PreviewIsOwed
    <2> QED
        BY <1>3, <2>2, <2>6 DEF PanesInv
<1>5. ASSUME NEW l \in Lanes, NEW s \in Slots, BeginRead(l, s)
      PROVE  PanesInv'
    <2>1. OnItsWay \subseteq OnItsWay' /\ Sent' = Sent
        BY <1>5, BeginKeepsComing DEF BeginRead, Sent, Elements
    <2>2. SentIsAwaited'
        BY <1>2, <2>1 DEF PanesInv, SentIsAwaited
    <2>3. PreviewIsOwed'
        BY <1>2, <2>1 DEF PanesInv, PreviewIsOwed
    <2> QED
        BY <1>3, <2>2, <2>3 DEF PanesInv
<1>6. ASSUME NEW l \in Lanes, BeginOperation(l)
      PROVE  FALSE
    BY <1>6 DEF BeginOperation, PopsOperation, LanesInv, InTheirLanes
<1> QED
    BY <1>4, <1>5, <1>6 DEF Serve

LEMMA ExecuteKeepsPanes ==
    ASSUME LaneTypeOK(Command, Event), LanesInv, generation \in Generation, view \in Views, PanesInv,
           session \in [Views -> [generation : 0 .. Wrap - 1, request : LocalDiffRequest]],
           NEW l \in Lanes, NEW event \in Event, Answers(l, event),
           UNCHANGED <<view, panes, generation>>
    PROVE  PanesInv'
<1>1. /\ Unanswered' \subseteq Unanswered /\ OnItsWay' \subseteq OnItsWay /\ Sent' = Sent
      /\ \A v \in Views : \/ session'[v] = session[v]
                          \/ /\ executing[l] \in Unanswered /\ Prepare(executing[l])
                             /\ SlotOfRequest(executing[l].request) = v
    BY ExecuteKeepsLanes
<1>2. OnItsWay \subseteq OnItsWay'
    BY AnswerKeepsComing DEF Answers
<1>3. UNCHANGED pane
    BY DEF pane
<1>4. PanesAreGood' /\ SentIsAwaited' /\ IndexIsAwaited'
    <2>1. PanesAreGood'
        BY DEF PanesInv, PanesAreGood
    <2>2. SentIsAwaited'
        BY <1>1, <1>3 DEF PanesInv, SentIsAwaited
    <2>3. IndexIsAwaited'
        BY <1>1, <1>3 DEF PanesInv, IndexIsAwaited
    <2> QED
        BY <2>1, <2>2, <2>3
<1>5. WorkspacesAreLatest'
    <2>1. \A v \in Views : panes[v].workspace # 0 => session'[v] = session[v]
        BY <1>1 DEF PanesInv, WorkspacesAreLatest
    <2> QED
        BY <1>1, <2>1 DEF PanesInv, WorkspacesAreLatest, WorkspacesAreKept
<1>6. PreviewIsOwed'
    BY <1>1, <1>2, <1>3 DEF PanesInv, PreviewIsOwed
<1> QED
    BY <1>4, <1>5, <1>6 DEF PanesInv

(* A pane may keep what it has of the workspace of its view. *)
Fits(v, p) ==
    /\ session[v].generation = p.workspace
    /\ p.request \in {session[v].request, NoRequest}
    /\ p.index = session[v].request.files
    /\ \A d \in Unanswered : Prepare(d) => SlotOfRequest(d.request) # v

LEMMA StillFits ==
    ASSUME WorkspacesAreLatest, NEW v \in Views, NEW p, p.workspace # 0,
           p.workspace = panes[v].workspace, p.index = panes[v].index,
           p.request \in {panes[v].request, NoRequest}
    PROVE  Fits(v, p)
BY DEF WorkspacesAreLatest, WorkspacesAreKept, Fits

(* The command of a handler is one that its pane awaits. *)
Awaited(c, p, v, g) ==
    /\ Prepare(c) => /\ c.generation = g /\ g = generation + 1
                     /\ c.request.kind # "none" /\ SlotOfRequest(c.request) = v
                     /\ p.workspace = 0 /\ p.request = c.request
    /\ Load(c) => /\ c.generation = g /\ p.workspace # 0
                  /\ c.workspace = p.workspace /\ c.path = p.loading

LEMMA HandlerKeepsPanes ==
    ASSUME LaneTypeOK(Command, Event), LanesInv, PanesInv, generation \in Generation,
           generation' \in {generation, generation + 1}, UNCHANGED session, view' \in Views,
           session \in [Views -> [generation : 0 .. Wrap - 1, request : LocalDiffRequest]],
           NEW effects \in Seq(Command), Len(effects) <= 1, NEW p, p = pane',
           NEW g, g = generation', NEW v, v = view',
           \A c \in Elements(effects) : Awaited(c, p, v, g),
           \A w \in Views : panes'[w].workspace # 0 => Fits(w, panes'[w]),
           \A c \in OnItsWay \cap OnItsWay' :
               Prepare(c) /\ c.generation = g /\ g = generation =>
                  v = view /\ p.workspace = 0 /\ p.request = pane.request,
           Handle(effects) \/ (answers # <<>> /\ HandleAnswer(effects))
    PROVE  /\ LaneTypeOK(Command, Event)' /\ LanesInv'
           /\ SentIsAwaited' /\ IndexIsAwaited' /\ WorkspacesAreLatest'
<1>0. generation \in Nat /\ g \in {generation, generation + 1} /\ v \in Views /\ p = panes'[v]
    BY DEF Generation, pane
<1>1. \A c \in Elements(effects) :
         /\ Prepare(c) => /\ c.generation = generation' /\ generation' = generation + 1
                          /\ c.request.kind # "none"
         /\ Load(c) => /\ c.workspace \in 1 .. generation
                       /\ \A d \in Unanswered : Prepare(d) => c.workspace < d.generation
    <2> SUFFICES ASSUME NEW c \in Elements(effects), Load(c)
                 PROVE  /\ c.workspace \in 1 .. generation
                        /\ \A d \in Unanswered : Prepare(d) => c.workspace < d.generation
        BY DEF Awaited
    <2>1. c.workspace # 0 /\ session[v].generation = c.workspace
        BY <1>0 DEF Awaited, Fits
    <2> QED
        BY <1>0, <2>1 DEF LanesInv, SessionsAreLatest
<1>2. /\ LaneTypeOK(Command, Event)' /\ LanesInv'
      /\ Sent' = Elements(effects) /\ Unanswered' = Unanswered \cup Elements(effects)
      /\ OnItsWay' \subseteq OnItsWay \cup Elements(effects)
    BY <1>1, HandlerKeepsLanes
<1>3. SentIsAwaited'
    BY <1>2 DEF SentIsAwaited, Awaited
<1>4. IndexIsAwaited'
    <2> SUFFICES ASSUME NEW c \in OnItsWay', Prepare(c), c.generation = g
                 PROVE  p.workspace = 0 /\ p.request = c.request /\ SlotOfRequest(c.request) = v
        BY DEF IndexIsAwaited
    <2>1. CASE c \in Elements(effects)
        BY <2>1 DEF Awaited
    <2>2. CASE c \in OnItsWay
        <3>1. c.generation <= generation
            BY <1>0, <2>2 DEF LanesInv, NoneIsAhead
        <3>2. g = generation
            BY <1>0, <3>1
        <3>3. pane.request = c.request /\ SlotOfRequest(c.request) = view
            BY <2>2, <3>2 DEF PanesInv, IndexIsAwaited
        <3> QED
            BY <2>2, <3>2, <3>3
    <2> QED
        BY <1>2, <2>1, <2>2
<1>5. WorkspacesAreLatest'
    <2>1. WorkspacesAreKept'
        BY DEF Fits, WorkspacesAreKept
    <2>2. ASSUME NEW w \in Views, NEW d \in Unanswered', Prepare(d), SlotOfRequest(d.request) = w
          PROVE  panes'[w].workspace = 0
        <3>1. CASE d \in Unanswered
            BY <2>2, <3>1 DEF Fits
        <3>2. CASE d \in Elements(effects)
            BY <1>0, <2>2, <3>2 DEF Awaited
        <3> QED
            BY <1>2, <3>1, <3>2
    <2> QED
        BY <2>1, <2>2 DEF WorkspacesAreLatest
<1> QED
    BY <1>2, <1>3, <1>4, <1>5
-----------------------------------------------------------------------------
(* The commands that the handlers ask for. *)

LEMMA Singletons ==
    ASSUME NEW S, NEW c \in S
    PROVE  /\ <<c>> \in Seq(S) /\ Len(<<c>>) = 1 /\ Elements(<<c>>) = {c}
           /\ <<>> \in Seq(S) /\ Len(<<>>) = 0 /\ Elements(<<>>) = {}
<1>1. <<c>> \in Seq(S) /\ Len(<<c>>) = 1 /\ <<c>>[1] = c /\ DOMAIN <<c>> = 1 .. 1
    OBVIOUS
<1>2. <<>> \in Seq(S) /\ Len(<<>>) = 0 /\ DOMAIN <<>> = {}
    OBVIOUS
<1> QED
    BY <1>1, <1>2 DEF Elements

Short(effects) == effects \in Seq(Command) /\ Len(effects) <= 1

LEMMA RefreshEffectsAre ==
    ASSUME NEW b, NEW a
    PROVE  /\ Short(RefreshEffects(b, a)) /\ Short(<<>>)
           /\ \A c \in Elements(RefreshEffects(b, a)) : ~ Prepare(c) /\ ~ Load(c)
           /\ Elements(<<>>) = {}
<1> DEFINE c == Asks("Refresh", 0, NoRequest, 0, NoFile)
<1>1. c \in Command /\ ~ Prepare(c) /\ ~ Load(c)
    BY NoRequestTyped, PreviewAssumption DEF Asks, Command, Prepare, Load
<1> HIDE DEF c
<1> DEFINE one  == <<c>>
           none == <<>>
<1>2. Short(one) /\ Elements(one) = {c} /\ Short(none) /\ Elements(none) = {}
    BY <1>1, Singletons DEF Short
<1>3. RefreshEffects(b, a) \in {none, one}
    BY DEF RefreshEffects, c
<1>4. Short(<<>>) /\ Elements(<<>>) = {}
    BY <1>2
<1> HIDE DEF one, none
<1> QED
    BY <1>1, <1>2, <1>3, <1>4

LEMMA FileEffectsAre ==
    ASSUME NEW p, NEW q \in Pane, NEW g \in Generation
    PROVE  LET e == FileEffects(p, q, g) IN
           /\ Short(e)
           /\ \A c \in Elements(e) :
                 /\ Load(c) /\ ~ Prepare(c) /\ c.generation = g /\ c.workspace = q.workspace
                 /\ c.path = q.loading /\ q.loading # NoFile
           /\ q.loading \notin {NoFile, p.loading} => \E c \in Elements(e) : TRUE
           /\ q.loading \in {NoFile, p.loading} => e = <<>>
<1> DEFINE e == FileEffects(p, q, g)
           c == Asks("LoadLocalDiffFile", g, NoRequest, q.workspace, q.loading)
<1>1. /\ c \in Command /\ Load(c) /\ ~ Prepare(c) /\ c.generation = g
      /\ c.workspace = q.workspace /\ c.path = q.loading
    <2>1. q.workspace \in 0 .. Wrap - 1 /\ q.loading \in Files \cup {NoFile} /\ g \in 0 .. Wrap - 1
        BY PreviewAssumption DEF Pane, Generation
    <2> QED
        BY <2>1, NoRequestTyped DEF Asks, Command, Prepare, Load
<1> HIDE DEF c
<1> DEFINE one  == <<c>>
           none == <<>>
<1>2. Short(one) /\ Elements(one) = {c} /\ Short(none) /\ Elements(none) = {}
    BY <1>1, Singletons DEF Short
<1>3. e = IF q.loading \in {NoFile, p.loading} THEN none ELSE one
    BY DEF FileEffects, c
<1>4. none = <<>>
    OBVIOUS
<1> HIDE DEF one, none, e
<1>5. CASE q.loading \in {NoFile, p.loading}
    BY <1>2, <1>3, <1>4, <1>5 DEF e
<1>6. CASE q.loading \notin {NoFile, p.loading}
    BY <1>1, <1>2, <1>3, <1>6 DEF e
<1> QED
    BY <1>5, <1>6

(* What request_preview makes of a pane, and what it asks for. *)
LEMMA RequestKeeps ==
    ASSUME generation \in Generation, NeverWraps, view \in Views,
           NEW p, Good(p), NEW st \in Seq(Files), NEW sel \in Selection, NEW ver \in Nat
    PROVE  LET e == RequestEffects(p, st, sel, ver, generation)
               q == Request(p, st, sel, ver) IN
           /\ Short(e) /\ GenerationAfter(e, generation) \in {generation, generation + 1}
           /\ GenerationAfter(e, generation) \in Generation
           /\ Good(q)
           /\ \/ e = <<>> /\ q = p /\ GenerationAfter(e, generation) = generation
              \/ /\ Idle(q) /\ q.document_loading /\ GenerationAfter(e, generation) = generation + 1
                 /\ \E c \in Elements(e) : TRUE
                 /\ \A c \in Elements(e) :
                      /\ Prepare(c) /\ ~ Load(c) /\ c.generation = generation + 1
                      /\ c.request = q.request
                      /\ c.request.kind # "none" /\ SlotOfRequest(c.request) = view
<1> DEFINE e == RequestEffects(p, st, sel, ver, generation)
           q == Request(p, st, sel, ver)
           r == Subject(view, p, st, sel, ver)
           c == Asks("PrepareLocalDiff", Following(generation), r, 0, NoFile)
<1>1. r \in LocalDiffRequest /\ r.kind # "none" /\ Titled(r) /\ SlotOfRequest(r) = view
    BY SubjectTyped
<1>2. Following(generation) = generation + 1 /\ generation + 1 \in Generation
    BY FollowingIsNext
<1> HIDE DEF r
<1>3. c \in Command /\ Prepare(c) /\ ~ Load(c) /\ c.generation = generation + 1 /\ c.request = r
      /\ c.kind = "PrepareLocalDiff"
    BY <1>1, <1>2, PreviewAssumption DEF Asks, Command, Prepare, Load, Generation
<1>4. q = Prepared(p, r) /\ e = IF Prepares(p, r) THEN <<c>> ELSE <<>>
    BY DEF Request, RequestEffects, r
<1> HIDE DEF c, e, q
<1> DEFINE one  == <<c>>
           none == <<>>
<1>5. Short(one) /\ Elements(one) = {c} /\ Short(none)
    BY <1>3, Singletons DEF Short
<1>6. GenerationAfter(none, generation) = generation /\ GenerationAfter(one, generation) = generation + 1
    <2>1. DOMAIN <<c>> = {1} /\ <<c>>[1] = c /\ DOMAIN <<>> = {}
        OBVIOUS
    <2> QED
        BY <1>2, <1>3, <2>1 DEF GenerationAfter
<1>7. CASE Prepares(p, r)
    <2>1. e = one
        BY <1>4, <1>7
    <2>2. Good(q) /\ Idle(q) /\ q.document_loading /\ q.request = r
        BY <1>1, <1>4, <1>7, PreparedKeeps
    <2> HIDE DEF one, none
    <2>3. \E d \in Elements(e) : TRUE
        BY <1>5, <2>1
    <2>4. \A d \in Elements(e) : d = c
        BY <1>5, <2>1
    <2> QED
        BY <1>1, <1>2, <1>3, <1>5, <1>6, <2>1, <2>2, <2>3, <2>4 DEF e, q
<1>8. CASE ~ Prepares(p, r)
    <2>1. e = <<>> /\ q = p
        BY <1>4, <1>8 DEF Prepared
    <2> QED
        BY <1>5, <1>6, <2>1 DEF e, q
<1> QED
    BY <1>7, <1>8
-----------------------------------------------------------------------------
(* A handler that shows another pane in the view on display, and leaves the   *)
(* other view alone.                                                          *)
LEMMA ShowKeeps ==
    ASSUME Typed, LanesInv, PanesInv, UNCHANGED <<session, view>>,
           NEW q, Show(q), Good(q), NEW g, g = generation', g \in {generation, generation + 1},
           NEW effects, Short(effects), \A c \in Elements(effects) : Awaited(c, q, view, g),
           q.workspace # 0 => Fits(view, q),
           \A c \in OnItsWay \cap OnItsWay' :
               Prepare(c) /\ c.generation = g /\ g = generation =>
                  q.workspace = 0 /\ q.request = pane.request,
           q.document_loading =>
              IF q.indexed THEN q.loading # NoFile
              ELSE \E c \in OnItsWay' : Prepare(c) /\ c.generation = g,
           q.loading # NoFile =>
              \E c \in OnItsWay' : /\ Load(c) /\ c.generation = g
                                   /\ c.workspace = q.workspace /\ c.path = q.loading,
           Handle(effects) \/ (answers # <<>> /\ HandleAnswer(effects))
    PROVE  /\ LaneTypeOK(Command, Event)' /\ LanesInv' /\ PanesInv' /\ panes' \in [Views -> Pane]
           /\ view' \in Views /\ UNCHANGED session
<1>0. view \in Views /\ panes \in [Views -> Pane] /\ q \in Pane /\ view' = view
    BY DEF Typed, Good
<1>1. /\ \A v \in Views : panes'[v] = IF v = view THEN q ELSE panes[v]
      /\ panes' \in [Views -> Pane]
    BY <1>0 DEF Show
<1>2. pane' = q
    BY <1>0, <1>1 DEF pane
<1>3. \A w \in Views : panes'[w].workspace # 0 => Fits(w, panes'[w])
    <2> SUFFICES ASSUME NEW w \in Views, panes'[w].workspace # 0 PROVE Fits(w, panes'[w])
        OBVIOUS
    <2>1. CASE w = view
        BY <1>1, <2>1
    <2>2. CASE w # view
        BY <1>1, <2>2, StillFits DEF PanesInv
    <2> QED
        BY <2>1, <2>2
<1>4. /\ LaneTypeOK(Command, Event)' /\ LanesInv'
      /\ SentIsAwaited' /\ IndexIsAwaited' /\ WorkspacesAreLatest'
    BY <1>0, <1>2, <1>3, HandlerKeepsPanes DEF Typed, Short
<1>5. PanesAreGood'
    BY <1>0, <1>1 DEF PanesInv, PanesAreGood
<1>6. PreviewIsOwed'
    BY <1>2 DEF PreviewIsOwed, Prepare, Load
<1> QED
    BY <1>0, <1>1, <1>4, <1>5, <1>6 DEF PanesInv

(* What the pane on display waits for. *)
Wanted(c) ==
    /\ c.generation = generation
    /\ \/ Prepare(c)
       \/ Load(c) /\ pane.loading # NoFile /\ c.workspace = pane.workspace /\ c.path = pane.loading

(* A handler that leaves alone what the panes read. *)
LEMMA SameKeeps ==
    ASSUME Typed, LanesInv, PanesInv, UNCHANGED <<session, view, generation>>,
           panes' \in [Views -> Pane],
           \A v \in Views : /\ Good(panes'[v]) /\ SameWork(panes[v], panes'[v])
                            /\ SameReads(panes[v], panes'[v]),
           NEW effects, Short(effects), \A c \in Elements(effects) : ~ Prepare(c) /\ ~ Load(c),
           Handle(effects) \/ (answers # <<>> /\ HandleAnswer(effects)),
           \A c \in OnItsWay : Wanted(c) => c \in OnItsWay'
    PROVE  /\ LaneTypeOK(Command, Event)' /\ LanesInv' /\ PanesInv' /\ panes' \in [Views -> Pane]
           /\ view' \in Views /\ UNCHANGED session
<1>0. view \in Views /\ view' = view /\ generation' = generation /\ generation \in Generation
    BY DEF Typed
<1>1. PICK q : q = pane'
    OBVIOUS
<1>2. q = panes'[view] /\ SameWork(pane, q) /\ SameReads(pane, q)
    BY <1>0, <1>1 DEF pane
<1>3. \A w \in Views : panes'[w].workspace # 0 => Fits(w, panes'[w])
    BY StillFits DEF PanesInv, SameWork
<1>4. \A c \in OnItsWay \cap OnItsWay' :
         Prepare(c) /\ c.generation = generation => q.workspace = 0 /\ q.request = pane.request
    BY <1>2 DEF PanesInv, IndexIsAwaited, SameWork
<1>5. /\ LaneTypeOK(Command, Event)' /\ LanesInv'
      /\ SentIsAwaited' /\ IndexIsAwaited' /\ WorkspacesAreLatest'
    <2>1. \A c \in Elements(effects) : Awaited(c, q, view, generation)
        BY DEF Awaited
    <2> QED
        BY <1>0, <1>1, <1>3, <1>4, <2>1, HandlerKeepsPanes DEF Typed, Short
<1>6. PanesAreGood'
    BY <1>0 DEF PanesInv, PanesAreGood, SameReads
<1>7. PreviewIsOwed'
    BY <1>0, <1>1, <1>2 DEF PanesInv, PreviewIsOwed, Wanted, Prepare, Load, SameWork, SameReads
<1> QED
    BY <1>0, <1>5, <1>6, <1>7 DEF PanesInv

LEMMA LanesStay ==
    ASSUME LaneTypeOK(Command, Event), LanesInv, PanesInv,
           UNCHANGED <<lane, session, view, panes, generation>>
    PROVE  LaneTypeOK(Command, Event)' /\ LanesInv' /\ PanesInv'
<1>1. UNCHANGED <<Sent, Waits, Runs, Answered, OnItsWay, Unanswered, pane>>
    <2>1. UNCHANGED <<Sent, Waits, Runs, Answered, pane>>
        BY DEF lane, Sent, Elements, Waits, Runs, Answered, pane
    <2> QED
        BY <2>1, Stages DEF Unanswered, OnItsWay, lane
<1>2. LaneTypeOK(Command, Event)'
    BY DEF LaneTypeOK, lane
<1>3. LanesInv'
    <2>1. InTheirLanes' /\ PreparedInOrder'
        BY <1>1 DEF LanesInv, InTheirLanes, PreparedInOrder, Before, lane
    <2>2. NoneIsAhead' /\ SessionsAreLatest' /\ PatchesAreOfTheWorkspace'
        BY <1>1 DEF LanesInv, NoneIsAhead, SessionsAreLatest, PatchesAreOfTheWorkspace, Elements, lane
    <2> QED
        BY <2>1, <2>2 DEF LanesInv
<1>4. PanesInv'
    BY <1>1 DEF PanesInv, PanesAreGood, SentIsAwaited, IndexIsAwaited, WorkspacesAreLatest,
                WorkspacesAreKept, PreviewIsOwed
<1> QED
    BY <1>2, <1>3, <1>4
-----------------------------------------------------------------------------
(* The steps. *)

LEMMA OutsideKeeps ==
    ASSUME PreviewInv, OutsideChange
    PROVE  PreviewInv'
<1>1. /\ tree.version <= MaxChanges /\ tree' \in [version : {tree.version + 1}, files : Trees]
      /\ noticed' = TRUE
      /\ UNCHANGED <<lane, session, due, status, refresh, version, selection, view, panes,
                     generation, folding, used>>
    BY DEF OutsideChange, preview
<1>2. Counted'
    <2>0. MaxChanges \in Nat /\ tree.version \in 1 .. MaxChanges + 1
        BY PreviewAssumption DEF PreviewInv, Counted
    <2>1. /\ tree.version \in 1 .. MaxChanges /\ tree'.version = tree.version + 1
          /\ tree' \in [version : 1 .. MaxChanges + 1, files : Trees]
        <3>1. PICK n : n = tree.version
            OBVIOUS
        <3>2. n \in 1 .. MaxChanges /\ n + 1 \in 1 .. MaxChanges + 1
            BY <1>1, <2>0, <3>1
        <3>3. tree' \in [version : {n + 1}, files : Trees]
            BY <1>1, <3>1
        <3> QED
            BY <3>1, <3>2, <3>3
    <2>2. (IF noticed' THEN 1 ELSE 0) <= (IF noticed THEN 1 ELSE 0) + 1
        BY <1>1
    <2>3. version' + (IF noticed' THEN 1 ELSE 0) + (IF due'.refresh THEN 1 ELSE 0)
             <= tree'.version - 1 + used'.keys
        BY <1>1, <2>1, <2>2 DEF PreviewInv, Counted
    <2> QED
        BY <1>1, <2>1, <2>3 DEF PreviewInv, Counted
<1>3. LaneTypeOK(Command, Event)' /\ LanesInv' /\ PanesInv'
    BY <1>1, LanesStay DEF PreviewInv, Typed
<1> QED
    BY <1>1, <1>2, <1>3 DEF PreviewInv, Typed

LEMMA NoticeKeeps ==
    ASSUME PreviewInv, Notice
    PROVE  PreviewInv'
<1>1. /\ noticed /\ noticed' = FALSE /\ due' = [due EXCEPT !.refresh = TRUE]
      /\ UNCHANGED <<lane, tree, session, status, refresh, version, selection, view, panes,
                     generation, folding, used>>
    BY DEF Notice, preview
<1>2. Counted'
    <2>1. due'.refresh /\ due' \in [refresh : BOOLEAN, preview : BOOLEAN] /\ ~ noticed'
        BY <1>1 DEF PreviewInv, Counted
    <2>2. version + 1 <= tree.version - 1 + used.keys
        BY <1>1 DEF PreviewInv, Counted
    <2>3. version' + (IF noticed' THEN 1 ELSE 0) + (IF due'.refresh THEN 1 ELSE 0) = version + 1
        BY <1>1, <2>1 DEF PreviewInv, Counted
    <2> QED
        BY <1>1, <2>1, <2>2, <2>3 DEF PreviewInv, Counted
<1>3. LaneTypeOK(Command, Event)' /\ LanesInv' /\ PanesInv'
    BY <1>1, LanesStay DEF PreviewInv, Typed
<1> QED
    BY <1>1, <1>2, <1>3 DEF PreviewInv, Typed

LEMMA RefreshTyped ==
    ASSUME NEW r \in [loading : BOOLEAN, again : BOOLEAN, failed : BOOLEAN]
    PROVE  RequestRefresh(r) \in [loading : BOOLEAN, again : BOOLEAN, failed : BOOLEAN]
BY DEF RequestRefresh

LEMMA SamePanes ==
    ASSUME Typed, PanesInv
    PROVE  \A v \in Views : /\ Good(panes[v]) /\ SameWork(panes[v], panes[v])
                            /\ SameReads(panes[v], panes[v])
BY DEF PanesInv, PanesAreGood, SameWork, SameReads

LEMMA HeartbeatKeeps ==
    ASSUME PreviewInv, Heartbeat
    PROVE  PreviewInv'
<1> DEFINE effects == RefreshEffects(refresh, refresh')
<1>1. /\ refresh' = RequestRefresh(refresh) /\ Handle(effects)
      /\ UNCHANGED <<tree, noticed, session, due, status, version, selection, view, panes,
                     generation, folding, used>>
    BY DEF Heartbeat, preview, outside
<1>2. Short(effects) /\ \A c \in Elements(effects) : ~ Prepare(c) /\ ~ Load(c)
    BY RefreshEffectsAre
<1> HIDE DEF effects
<1>3. \A c \in OnItsWay : c \in OnItsWay'
    BY <1>1, <1>2, HandlerKeepsComing DEF PreviewInv, Typed, Short
<1>4. /\ LaneTypeOK(Command, Event)' /\ LanesInv' /\ PanesInv' /\ panes' \in [Views -> Pane]
    BY <1>1, <1>2, <1>3, SamePanes, SameKeeps DEF PreviewInv, Typed
<1>5. Counted'
    BY <1>1 DEF PreviewInv, Counted
<1> QED
    BY <1>1, <1>4, <1>5, RefreshTyped DEF PreviewInv, Typed

(* An answer that is ignored is not one that the pane waits for. *)
LEMMA IgnoreKeeps ==
    ASSUME PreviewInv, Ignore
    PROVE  PreviewInv'
<1>1. /\ answers # <<>> /\ ~ Current(Head(answers)) /\ HandleAnswer(<<>>)
      /\ UNCHANGED <<tree, noticed, session, due, status, refresh, version, selection, view, panes,
                     generation, folding, used>>
    BY DEF Ignore, preview, outside
<1>2. PICK effects : effects = <<>>
    OBVIOUS
<1>3. Short(effects) /\ (\A c \in Elements(effects) : ~ Prepare(c) /\ ~ Load(c)) /\ HandleAnswer(effects)
    BY <1>1, <1>2, RefreshEffectsAre
<1>4. ASSUME NEW c \in OnItsWay, Wanted(c) PROVE c \in OnItsWay'
    <2>1. CASE c = Head(answers).command
        <3>1. Load(c) => c.path \in ToSet(pane.index)
            <4>1. Queued(pane) /\ Good(pane)
                BY DEF PreviewInv, Typed, PanesInv, PanesAreGood, Good, pane
            <4> QED
                BY <1>4, <4>1, NothingTyped DEF Queued, Wanted, Prepare, Load
        <3> QED
            BY <1>1, <1>4, <2>1, <3>1 DEF Wanted, Current, Prepare, Load
    <2> QED
        BY <1>1, <1>3, <2>1, HandlerKeepsComing DEF PreviewInv, Typed, Short
<1>5. /\ LaneTypeOK(Command, Event)' /\ LanesInv' /\ PanesInv' /\ panes' \in [Views -> Pane]
    BY <1>1, <1>3, <1>4, SamePanes, SameKeeps DEF PreviewInv, Typed
<1>6. Counted'
    BY <1>1 DEF PreviewInv, Counted
<1> QED
    BY <1>1, <1>5, <1>6 DEF PreviewInv, Typed

(* A new version of the working tree discards what is read of the one before. *)
LEMMA RenewKeeps ==
    ASSUME PreviewInv, NeverWraps, Renew, UNCHANGED <<session, view>>,
           NEW effects, Short(effects), \A c \in Elements(effects) : ~ Prepare(c) /\ ~ Load(c),
           Handle(effects)
    PROVE  /\ LaneTypeOK(Command, Event)' /\ LanesInv' /\ PanesInv' /\ panes' \in [Views -> Pane]
           /\ view' \in Views /\ UNCHANGED session /\ generation' \in Generation
<1>1. PICK q : q = Invalidated(pane)
    OBVIOUS
<1>2. view \in Views /\ Good(pane) /\ generation \in Generation
    BY DEF PreviewInv, Typed, PanesInv, PanesAreGood, pane
<1>3. Good(q) /\ SameWork(pane, q) /\ ~ q.document_loading /\ q.loading = NoFile
    BY <1>1, <1>2, InvalidatedKeeps
<1>4. generation' = generation + 1 /\ generation' \in Generation /\ Show(q)
    BY <1>1, <1>2, FollowingIsNext DEF Renew
<1>5. q.workspace # 0 => Fits(view, q)
    BY <1>2, <1>3, StillFits DEF PreviewInv, PanesInv, SameWork, pane
<1>6. \A c \in Elements(effects) : Awaited(c, q, view, generation + 1)
    BY DEF Awaited
<1>7. generation \in Nat
    BY <1>2 DEF Generation
<1> QED
    BY <1>3, <1>4, <1>5, <1>6, <1>7, ShowKeeps DEF PreviewInv

LEMMA SettleKeeps ==
    ASSUME PreviewInv, NeverWraps, Settle
    PROVE  PreviewInv'
<1> DEFINE effects == RefreshEffects(refresh, refresh')
<1>1. /\ due.refresh /\ refresh' = RequestRefresh(refresh) /\ Handle(effects)
      /\ UNCHANGED <<tree, noticed, session, status, selection, view, folding, used>>
    BY DEF Settle, outside
<1>2. Short(effects) /\ \A c \in Elements(effects) : ~ Prepare(c) /\ ~ Load(c)
    BY RefreshEffectsAre
<1>3. version' = version + 1 /\ due' \in [refresh : BOOLEAN, preview : BOOLEAN] /\ ~ due'.refresh
    <2>1. version' = version + 1
          /\ \/ due' = [refresh |-> FALSE, preview |-> FALSE]
             \/ due' = [due EXCEPT !.refresh = FALSE]
        BY DEF Settle, Renew
    <2>2. due \in [refresh : BOOLEAN, preview : BOOLEAN]
        BY DEF PreviewInv, Counted
    <2>3. CASE due' = [refresh |-> FALSE, preview |-> FALSE]
        BY <2>1, <2>3
    <2>4. CASE due' = [due EXCEPT !.refresh = FALSE]
        BY <2>1, <2>2, <2>4
    <2> QED
        BY <2>1, <2>3, <2>4
<1>4. ShowsTree => Renew
    BY DEF Settle
<1>5. ~ ShowsTree => UNCHANGED <<generation, panes>>
    BY DEF Settle
<1> HIDE DEF effects
<1>6. Counted'
    <2>1. ~ due'.refresh /\ due' \in [refresh : BOOLEAN, preview : BOOLEAN]
        BY <1>3
    <2>2. version + (IF noticed THEN 1 ELSE 0) + 1 <= tree.version - 1 + used.keys
        BY <1>1 DEF PreviewInv, Counted
    <2>3. version' + (IF noticed' THEN 1 ELSE 0) + (IF due'.refresh THEN 1 ELSE 0)
             <= tree'.version - 1 + used'.keys
        BY <1>1, <1>3, <2>1, <2>2 DEF PreviewInv, Counted
    <2> QED
        BY <1>1, <1>3, <2>1, <2>3 DEF PreviewInv, Counted
<1>7. /\ LaneTypeOK(Command, Event)' /\ LanesInv' /\ PanesInv' /\ panes' \in [Views -> Pane]
      /\ generation' \in Generation
    <2>1. CASE ShowsTree
        BY <1>1, <1>2, <1>4, <2>1, RenewKeeps
    <2>2. CASE ~ ShowsTree
        <3>1. \A c \in OnItsWay : c \in OnItsWay'
            BY <1>1, <1>2, HandlerKeepsComing DEF PreviewInv, Typed, Short
        <3> QED
            BY <1>1, <1>2, <1>5, <2>2, <3>1, SamePanes, SameKeeps DEF PreviewInv, Typed
    <2> QED
        BY <2>1, <2>2
<1> QED
    BY <1>1, <1>6, <1>7, RefreshTyped DEF PreviewInv, Typed

(* A key is counted. *)
LEMMA PressCounts ==
    ASSUME Counted, NEW key, Press(key)
    PROVE  /\ used' \in [keys : 0 .. MaxKeys, failures : Nat]
           /\ used'.keys = used.keys + 1 /\ used'.failures = used.failures
           /\ UNCHANGED <<tree, noticed, session, status>>
<1>1. used.keys < MaxKeys /\ used' = [used EXCEPT !.keys = @ + 1]
      /\ UNCHANGED <<tree, noticed, session, status>>
    BY DEF Press, Count, outside
<1>2. used \in [keys : 0 .. MaxKeys, failures : Nat] /\ MaxKeys \in Nat
    BY PreviewAssumption DEF Counted
<1>3. used' = [keys |-> used.keys + 1, failures |-> used.failures]
    BY <1>1, <1>2
<1> QED
    BY <1>1, <1>2, <1>3

(* Of the preview of the working tree, only the mark is changed. *)
LEMMA CutKeeps ==
    ASSUME Typed, PanesInv, NEW cut \in BOOLEAN, panes' = [panes EXCEPT !["Changes"].cut = cut]
    PROVE  /\ panes' \in [Views -> Pane]
           /\ \A v \in Views : /\ Good(panes'[v]) /\ SameWork(panes[v], panes'[v])
                               /\ SameReads(panes[v], panes'[v])
<1>1. panes \in [Views -> Pane] /\ "Changes" \in Views
    BY DEF Typed, Views
<1>2. PICK p : p = panes["Changes"]
    OBVIOUS
<1>3. PICK q : q = [p EXCEPT !.cut = cut]
    OBVIOUS
<1>4. p \in Pane /\ Good(p)
    BY <1>1, <1>2 DEF PanesInv, PanesAreGood
<1>5. q \in Pane /\ SameWork(p, q) /\ SameReads(p, q) /\ q.document = p.document
      /\ q.documents = p.documents
    BY <1>3, <1>4 DEF Pane, SameWork, SameReads
<1>6. Good(q)
    BY <1>4, <1>5 DEF Good, Kept, Queued, SameWork, SameReads
<1>7. \A v \in Views : panes'[v] = IF v = "Changes" THEN q ELSE panes[v]
    BY <1>1, <1>2, <1>3
<1>8. panes' \in [Views -> Pane]
    BY <1>1, <1>5, <1>7
<1>9. ASSUME NEW v \in Views
      PROVE  Good(panes'[v]) /\ SameWork(panes[v], panes'[v]) /\ SameReads(panes[v], panes'[v])
    <2>1. CASE v = "Changes"
        BY <1>2, <1>5, <1>6, <1>7, <2>1
    <2>2. CASE v # "Changes"
        BY <1>7, <2>2, SamePanes
    <2> QED
        BY <2>1, <2>2
<1> QED
    BY <1>8, <1>9

LEMMA ActiveRefreshKeeps ==
    ASSUME PreviewInv, NeverWraps, ActiveRefresh
    PROVE  PreviewInv'
<1> DEFINE effects == RefreshEffects(refresh, refresh')
<1>1. /\ refresh' = RequestRefresh(refresh) /\ Handle(effects)
      /\ UNCHANGED <<tree, noticed, session, status, selection, view, folding>>
      /\ used' \in [keys : 0 .. MaxKeys, failures : Nat] /\ used'.keys = used.keys + 1
    BY PressCounts DEF ActiveRefresh, PreviewInv
<1>2. Short(effects) /\ \A c \in Elements(effects) : ~ Prepare(c) /\ ~ Load(c)
    BY RefreshEffectsAre
<1>3. version' \in {version, version + 1} /\ due' \in [refresh : BOOLEAN, preview : BOOLEAN] /\ ~ due'.refresh
    <2>1. version' \in {version, version + 1}
          /\ \/ due' = [refresh |-> FALSE, preview |-> FALSE]
             \/ due' = [due EXCEPT !.refresh = FALSE]
        BY DEF ActiveRefresh, Renew
    <2>2. due \in [refresh : BOOLEAN, preview : BOOLEAN]
        BY DEF PreviewInv, Counted
    <2>3. CASE due' = [refresh |-> FALSE, preview |-> FALSE]
        BY <2>1, <2>3
    <2>4. CASE due' = [due EXCEPT !.refresh = FALSE]
        BY <2>1, <2>2, <2>4
    <2> QED
        BY <2>1, <2>3, <2>4
<1>4. ShowsTree => Renew
    BY DEF ActiveRefresh
<1>5. ~ ShowsTree => UNCHANGED generation /\ \E cut \in BOOLEAN :
                        panes' = [panes EXCEPT !["Changes"].cut = cut]
    <2>1. due.refresh \in BOOLEAN /\ panes["Changes"].cut \in BOOLEAN
        BY DEF PreviewInv, Counted, Typed, Pane, Views
    <2> QED
        BY <2>1 DEF ActiveRefresh
<1> HIDE DEF effects
<1>6. Counted'
    <2>1. ~ due'.refresh /\ due' \in [refresh : BOOLEAN, preview : BOOLEAN]
        BY <1>3
    <2>2. version + (IF noticed THEN 1 ELSE 0) <= tree.version - 1 + used.keys
          /\ version \in Nat /\ used.keys \in Nat /\ tree.version \in Nat
        <3>1. Counted
            BY DEF PreviewInv
        <3>2. version \in Nat /\ used.keys \in Nat /\ tree.version \in Nat
            BY <3>1, PreviewAssumption DEF Counted
        <3>3. PICK k, m : k = (IF noticed THEN 1 ELSE 0) /\ m = (IF due.refresh THEN 1 ELSE 0)
            <4>1. PICK k : k = (IF noticed THEN 1 ELSE 0)
                OBVIOUS
            <4> QED
                BY <4>1
        <3>4. k \in Nat /\ m \in Nat /\ version + k + m <= tree.version - 1 + used.keys
            BY <3>1, <3>3 DEF Counted
        <3> QED
            BY <3>2, <3>3, <3>4
    <2>3. version' + (IF noticed' THEN 1 ELSE 0) + (IF due'.refresh THEN 1 ELSE 0)
             <= tree'.version - 1 + used'.keys
        BY <1>1, <1>3, <2>1, <2>2
    <2> QED
        BY <1>1, <1>3, <2>1, <2>2, <2>3 DEF PreviewInv, Counted
<1>7. /\ LaneTypeOK(Command, Event)' /\ LanesInv' /\ PanesInv' /\ panes' \in [Views -> Pane]
      /\ generation' \in Generation
    <2>1. CASE ShowsTree
        BY <1>1, <1>2, <1>4, <2>1, RenewKeeps
    <2>2. CASE ~ ShowsTree
        <3>1. \A c \in OnItsWay : c \in OnItsWay'
            BY <1>1, <1>2, HandlerKeepsComing DEF PreviewInv, Typed, Short
        <3>2. /\ panes' \in [Views -> Pane]
              /\ \A v \in Views : /\ Good(panes'[v]) /\ SameWork(panes[v], panes'[v])
                                  /\ SameReads(panes[v], panes'[v])
            BY <1>5, <2>2, CutKeeps DEF PreviewInv
        <3> QED
            BY <1>1, <1>2, <1>5, <2>2, <3>1, <3>2, SameKeeps DEF PreviewInv, Typed
    <2> QED
        BY <2>1, <2>2
<1> QED
    BY <1>1, <1>6, <1>7, RefreshTyped DEF PreviewInv, Typed
-----------------------------------------------------------------------------
(* request_preview, of a pane that reads what the one on display reads.       *)
LEMMA RequestedKeeps ==
    ASSUME Typed, LanesInv, PanesInv, NeverWraps, UNCHANGED <<session, view>>,
           NEW p, Good(p), SameReads(pane, p), p.workspace = pane.workspace,
           p.indexed = pane.indexed, p.index = pane.index, p.request = pane.request,
           NEW st \in Seq(Files), NEW sel \in Selection, NEW ver \in Nat,
           NEW e, e = RequestEffects(p, st, sel, ver, generation),
           Show(Request(p, st, sel, ver)), generation' = GenerationAfter(e, generation),
           Handle(e) \/ (answers # <<>> /\ HandleAnswer(e)),
           \A c \in OnItsWay : Wanted(c) => c \in OnItsWay'
    PROVE  /\ LaneTypeOK(Command, Event)' /\ LanesInv' /\ PanesInv' /\ panes' \in [Views -> Pane]
           /\ view' \in Views /\ UNCHANGED session /\ generation' \in Generation
<1>1. PICK q : q = Request(p, st, sel, ver)
    OBVIOUS
<1>2. view \in Views /\ generation \in Generation /\ generation \in Nat
    BY DEF Typed, Generation
<1>3. /\ Short(e) /\ generation' \in {generation, generation + 1}
      /\ generation' \in Generation /\ Good(q) /\ Show(q)
      /\ \/ e = <<>> /\ q = p /\ generation' = generation
         \/ /\ Idle(q) /\ q.document_loading /\ generation' = generation + 1
            /\ \E c \in Elements(e) : TRUE
            /\ \A c \in Elements(e) :
                 /\ Prepare(c) /\ ~ Load(c) /\ c.generation = generation + 1
                 /\ c.request = q.request
                 /\ c.request.kind # "none" /\ SlotOfRequest(c.request) = view
    BY <1>1, <1>2, RequestKeeps
<1>4. CASE e = <<>> /\ q = p /\ generation' = generation
    <2>1. \A c \in Elements(e) : Awaited(c, q, view, generation)
        BY <1>4, RefreshEffectsAre
    <2>2. q.workspace # 0 => Fits(view, q)
        BY <1>2, <1>4, StillFits DEF PanesInv, pane
    <2>3. \A c \in OnItsWay : Prepare(c) /\ c.generation = generation =>
                                 q.workspace = 0 /\ q.request = pane.request
        BY <1>4 DEF PanesInv, IndexIsAwaited
    <2>4. q.document_loading => IF q.indexed THEN q.loading # NoFile
                                ELSE \E c \in OnItsWay' : Prepare(c) /\ c.generation = generation
        BY <1>4 DEF PanesInv, PreviewIsOwed, Wanted, Prepare, SameReads
    <2>5. q.loading # NoFile =>
             \E c \in OnItsWay' : /\ Load(c) /\ c.generation = generation
                                  /\ c.workspace = q.workspace /\ c.path = q.loading
        BY <1>4 DEF PanesInv, PreviewIsOwed, Wanted, Load, SameReads
    <2> QED
        BY <1>2, <1>3, <1>4, <2>1, <2>2, <2>3, <2>4, <2>5, ShowKeeps
<1>5. CASE /\ Idle(q) /\ q.document_loading /\ generation' = generation + 1
           /\ \E c \in Elements(e) : TRUE
           /\ \A c \in Elements(e) :
                /\ Prepare(c) /\ ~ Load(c) /\ c.generation = generation + 1
                /\ c.request = q.request
                /\ c.request.kind # "none" /\ SlotOfRequest(c.request) = view
    <2>1. \A c \in Elements(e) : Awaited(c, q, view, generation + 1)
        BY <1>5 DEF Awaited, Idle
    <2>2. Elements(e) \subseteq OnItsWay'
        BY <1>3, HandlerKeepsComing DEF Typed, Short
    <2>3. \E c \in OnItsWay' : Prepare(c) /\ c.generation = generation + 1
        BY <1>5, <2>2
    <2> QED
        BY <1>2, <1>3, <1>5, <2>1, <2>3, ShowKeeps DEF Idle
<1> QED
    BY <1>3, <1>4, <1>5

LEMMA StatusIsList ==
    ASSUME Typed
    PROVE  status \in Seq(Files)
BY NothingTyped, PreviewAssumption DEF Typed

LEMMA PreviewKeeps ==
    ASSUME PreviewInv, NeverWraps, Preview
    PROVE  PreviewInv'
<1> DEFINE e == RequestEffects(pane, status, selection, version, generation)
<1>1. /\ due' = [due EXCEPT !.preview = FALSE]
      /\ Show(Request(pane, status, selection, version))
      /\ generation' = GenerationAfter(e, generation) /\ Handle(e)
      /\ UNCHANGED <<tree, noticed, session, status, refresh, selection, version, view, folding, used>>
    BY DEF Preview, outside
<1>2. Good(pane) /\ SameReads(pane, pane) /\ selection \in Selection /\ version \in Nat
      /\ status \in Seq(Files)
    BY StatusIsList DEF PreviewInv, Typed, Counted, PanesInv, PanesAreGood, pane, SameReads
<1> HIDE DEF e
<1>3. Short(e)
    BY <1>2, RequestKeeps DEF PreviewInv, Typed, e
<1>4. \A c \in OnItsWay : c \in OnItsWay'
    BY <1>1, <1>3, HandlerKeepsComing DEF PreviewInv, Typed, Short
<1>5. /\ LaneTypeOK(Command, Event)' /\ LanesInv' /\ PanesInv' /\ panes' \in [Views -> Pane]
      /\ view' \in Views /\ UNCHANGED session /\ generation' \in Generation
    BY <1>1, <1>2, <1>4, RequestedKeeps DEF PreviewInv, e
<1>6. Counted'
    <2>1. due \in [refresh : BOOLEAN, preview : BOOLEAN]
        BY DEF PreviewInv, Counted
    <2>2. due' \in [refresh : BOOLEAN, preview : BOOLEAN] /\ due'.refresh = due.refresh
        BY <1>1, <2>1
    <2> QED
        BY <1>1, <2>2 DEF PreviewInv, Counted
<1> QED
    BY <1>1, <1>5, <1>6 DEF PreviewInv, Typed

LEMMA CompareKeeps ==
    ASSUME PreviewInv, NeverWraps, Compare
    PROVE  PreviewInv'
<1>1. PICK p : p = [pane EXCEPT !.comparing = ~ @]
    OBVIOUS
<1> DEFINE e == RequestEffects(p, status, selection, version, generation)
<1>2. /\ Show(Request(p, status, selection, version))
      /\ generation' = GenerationAfter(e, generation) /\ Handle(e)
      /\ UNCHANGED <<tree, noticed, session, status, due, refresh, selection, version, view, folding>>
      /\ used' \in [keys : 0 .. MaxKeys, failures : Nat] /\ used'.keys = used.keys + 1
    BY <1>1, PressCounts DEF Compare, PreviewInv
<1>3. Good(pane) /\ pane \in Pane /\ selection \in Selection /\ version \in Nat /\ status \in Seq(Files)
    BY StatusIsList DEF PreviewInv, Typed, Counted, PanesInv, PanesAreGood, pane, Good
<1>4. p = [pane EXCEPT !.comparing = p.comparing] /\ p.comparing \in BOOLEAN
    BY <1>1, <1>3 DEF Pane
<1>5. p \in Pane /\ SameReads(pane, p) /\ p.workspace = pane.workspace
      /\ p.indexed = pane.indexed /\ p.index = pane.index /\ p.request = pane.request
      /\ p.document = pane.document /\ p.documents = pane.documents
    BY <1>3, <1>4 DEF Pane, SameReads
<1>6. Good(p)
    BY <1>3, <1>5 DEF Good, Kept, Queued, SameReads
<1> HIDE DEF e
<1>7. Short(e)
    BY <1>3, <1>6, RequestKeeps DEF PreviewInv, Typed, e
<1>8. \A c \in OnItsWay : c \in OnItsWay'
    BY <1>2, <1>7, HandlerKeepsComing DEF PreviewInv, Typed, Short
<1>9. /\ LaneTypeOK(Command, Event)' /\ LanesInv' /\ PanesInv' /\ panes' \in [Views -> Pane]
      /\ view' \in Views /\ UNCHANGED session /\ generation' \in Generation
    BY <1>2, <1>3, <1>5, <1>6, <1>8, RequestedKeeps DEF PreviewInv, e
<1>10. Counted'
    BY <1>2 DEF PreviewInv, Counted
<1> QED
    BY <1>2, <1>9, <1>10 DEF PreviewInv, Typed

(* A pane that shows nothing. *)
LEMMA ClearedKeeps ==
    ASSUME NEW p, Good(p)
    PROVE  LET q == [Reset(p) EXCEPT !.document_loading = FALSE, !.document = Blank] IN
           /\ Good(q) /\ Idle(q) /\ ~ q.document_loading
           /\ q.request = NoRequest /\ q.comparing = p.comparing
<1>1. PICK r : r = Reset(p)
    OBVIOUS
<1>2. Good(r) /\ Idle(r) /\ r.request = NoRequest /\ r.comparing = p.comparing /\ r \in Pane
    BY <1>1, ResetKeeps DEF Good
<1>3. PICK blank : blank = Blank
    OBVIOUS
<1>4. /\ blank \in [headers : Seq(Files), open : SUBSET Files, patches : Patches]
      /\ DOMAIN blank.patches = {}
    BY <1>3, BlankTyped
<1>5. PICK q : q = [r EXCEPT !.document_loading = FALSE, !.document = blank]
    OBVIOUS
<1>6. q \in Pane /\ Idle(q) /\ ~ q.document_loading /\ q.request = NoRequest
      /\ q.comparing = p.comparing /\ q.document = blank
    BY <1>2, <1>4, <1>5 DEF Pane, Idle
<1>7. Good(q)
    BY <1>4, <1>6, IdleIsGood, NoRequestTyped
<1> QED
    BY <1>1, <1>3, <1>5, <1>6, <1>7

LEMMA SelectKeeps ==
    ASSUME PreviewInv, NeverWraps, NEW sel \in Rows, Select(sel)
    PROVE  PreviewInv'
<1>1. /\ selection' = sel /\ Handle(<<>>)
      /\ UNCHANGED <<tree, noticed, session, status, refresh, version, view, folding>>
      /\ used' \in [keys : 0 .. MaxKeys, failures : Nat] /\ used'.keys = used.keys + 1
    BY PressCounts DEF Select, PreviewInv
<1>2. Good(pane) /\ pane \in Pane /\ selection \in Selection /\ generation \in Generation
      /\ status \in Seq(Files) /\ view \in Views /\ generation \in Nat
    BY StatusIsList DEF PreviewInv, Typed, PanesInv, PanesAreGood, pane, Good, Generation
<1>3. sel \in Selection
    <2>1. \A i \in DOMAIN status : i \in Nat \ {0}
        BY <1>2, LenProperties
    <2>2. \A cm \in Commits : [selection EXCEPT !.commit = cm] \in Selection
        BY <1>2 DEF Selection
    <2>3. [selection EXCEPT !.section = TRUE] \in Selection
        BY <1>2 DEF Selection
    <2>4. \A i \in Nat \ {0} : [selection EXCEPT !.section = FALSE, !.cursor = i] \in Selection
        BY <1>2 DEF Selection
    <2> QED
        BY <2>1, <2>2, <2>3, <2>4 DEF Rows
<1>4. PICK effects : effects = <<>>
    OBVIOUS
<1>5. Short(effects) /\ Elements(effects) = {} /\ Handle(effects)
    BY <1>1, <1>4, RefreshEffectsAre
<1>6. \A c \in OnItsWay : c \in OnItsWay'
    BY <1>5, HandlerKeepsComing DEF PreviewInv, Typed, Short
<1>7. CASE UNCHANGED <<generation, panes, due>>
    <2>1. /\ LaneTypeOK(Command, Event)' /\ LanesInv' /\ PanesInv' /\ panes' \in [Views -> Pane]
        BY <1>1, <1>5, <1>6, <1>7, SamePanes, SameKeeps DEF PreviewInv, Typed
    <2>2. Counted'
        BY <1>1, <1>7 DEF PreviewInv, Counted
    <2> QED
        BY <1>1, <1>2, <1>3, <1>7, <2>1, <2>2 DEF PreviewInv, Typed
<1>8. CASE /\ generation' = Following(generation)
           /\ Show([Reset(pane) EXCEPT !.document_loading = FALSE, !.document = Blank])
           /\ due' = [due EXCEPT !.preview = TRUE]
    <2>1. PICK q : q = [Reset(pane) EXCEPT !.document_loading = FALSE, !.document = Blank]
        OBVIOUS
    <2>2. Show(q) /\ Good(q) /\ Idle(q) /\ ~ q.document_loading
        BY <1>2, <1>8, <2>1, ClearedKeeps
    <2>3. generation' = generation + 1 /\ generation' \in Generation
        BY <1>2, <1>8, FollowingIsNext
    <2>4. /\ LaneTypeOK(Command, Event)' /\ LanesInv' /\ PanesInv' /\ panes' \in [Views -> Pane]
        BY <1>1, <1>2, <1>5, <2>2, <2>3, ShowKeeps DEF PreviewInv, Idle
    <2>5. Counted'
        <3>1. due \in [refresh : BOOLEAN, preview : BOOLEAN]
            BY DEF PreviewInv, Counted
        <3>2. due' \in [refresh : BOOLEAN, preview : BOOLEAN] /\ due'.refresh = due.refresh
            BY <1>8, <3>1
        <3> QED
            BY <1>1, <3>2 DEF PreviewInv, Counted
    <2> QED
        BY <1>1, <1>2, <1>3, <2>3, <2>4, <2>5 DEF PreviewInv, Typed
<1> QED
    BY <1>7, <1>8 DEF Select
-----------------------------------------------------------------------------
(* A key that unfolds files begins to read one of them.                       *)
LEMMA ReadingKeeps ==
    ASSUME Typed, LanesInv, PanesInv, UNCHANGED <<session, view, generation>>,
           NEW q, Good(q), SameWork(pane, q), q.document_loading = pane.document_loading,
           pane.loading # NoFile => q.loading = pane.loading,
           Show(q), Handle(FileEffects(pane, q, generation))
    PROVE  /\ LaneTypeOK(Command, Event)' /\ LanesInv' /\ PanesInv' /\ panes' \in [Views -> Pane]
           /\ view' \in Views /\ UNCHANGED session
<1>1. PICK e : e = FileEffects(pane, q, generation)
    OBVIOUS
<1>2. view \in Views /\ generation \in Generation /\ Good(pane) /\ q \in Pane
    BY DEF Typed, PanesInv, PanesAreGood, Good, pane
<1>3. /\ Short(e) /\ Handle(e)
      /\ \A c \in Elements(e) : /\ Load(c) /\ ~ Prepare(c) /\ c.generation = generation
                                /\ c.workspace = q.workspace /\ c.path = q.loading
                                /\ q.loading # NoFile
      /\ q.loading \notin {NoFile, pane.loading} => \E c \in Elements(e) : TRUE
    BY <1>1, <1>2, FileEffectsAre
<1>4. /\ Elements(e) \subseteq OnItsWay'
      /\ \A c \in OnItsWay : c \in OnItsWay'
    BY <1>3, HandlerKeepsComing DEF Typed, Short
<1>5. \A c \in Elements(e) : Awaited(c, q, view, generation)
    BY <1>3, GoodWhenLoading DEF Awaited
<1>6. q.workspace # 0 => Fits(view, q)
    BY <1>2, StillFits DEF PanesInv, pane, SameWork
<1>7. \A c \in OnItsWay : Prepare(c) /\ c.generation = generation =>
                             q.workspace = 0 /\ q.request = pane.request
    BY DEF PanesInv, IndexIsAwaited, SameWork
<1>8. q.document_loading => IF q.indexed THEN q.loading # NoFile
                            ELSE \E c \in OnItsWay' : Prepare(c) /\ c.generation = generation
    BY <1>4 DEF PanesInv, PreviewIsOwed, Prepare, SameWork
<1>9. q.loading # NoFile =>
         \E c \in OnItsWay' : /\ Load(c) /\ c.generation = generation
                              /\ c.workspace = q.workspace /\ c.path = q.loading
    <2>1. CASE q.loading = pane.loading
        BY <1>4, <2>1 DEF PanesInv, PreviewIsOwed, Load, SameWork
    <2>2. CASE q.loading # NoFile /\ q.loading # pane.loading
        <3>1. PICK c \in Elements(e) : TRUE
            BY <1>3, <2>2
        <3> QED
            BY <1>3, <1>4, <3>1
    <2> QED
        BY <2>1, <2>2
<1>10. generation' = generation
    OBVIOUS
<1> QED
    BY <1>2, <1>3, <1>5, <1>6, <1>7, <1>8, <1>9, <1>10, ShowKeeps

LEMMA ToggleKeeps ==
    ASSUME PreviewInv, NEW f \in Files, Toggle(f)
    PROVE  PreviewInv'
<1>1. PICK q : q = Toggled(pane, f)
    OBVIOUS
<1>2. /\ Show(q) /\ Handle(FileEffects(pane, q, generation))
      /\ UNCHANGED <<tree, noticed, session, status, due, refresh, selection, version, view,
                     generation, folding>>
      /\ used' \in [keys : 0 .. MaxKeys, failures : Nat] /\ used'.keys = used.keys + 1
    BY <1>1, PressCounts DEF Toggle, PreviewInv
<1>3. Good(pane)
    BY DEF PreviewInv, Typed, PanesInv, PanesAreGood, pane
<1>4. /\ Good(q) /\ SameWork(pane, q) /\ q.document_loading = pane.document_loading
      /\ pane.loading # NoFile => q.loading = pane.loading
    BY <1>1, <1>3, ToggledKeeps
<1>5. /\ LaneTypeOK(Command, Event)' /\ LanesInv' /\ PanesInv' /\ panes' \in [Views -> Pane]
    BY <1>2, <1>4, ReadingKeeps DEF PreviewInv
<1>6. Counted'
    BY <1>2 DEF PreviewInv, Counted
<1> QED
    BY <1>2, <1>5, <1>6 DEF PreviewInv, Typed

LEMMA ToggleAllKeeps ==
    ASSUME PreviewInv, ToggleAll
    PROVE  PreviewInv'
<1>1. PICK q : q = AllToggled(pane, folding')
    OBVIOUS
<1>2. /\ Show(q) /\ Handle(FileEffects(pane, q, generation))
      /\ UNCHANGED <<tree, noticed, session, status, due, refresh, selection, version, view, generation>>
      /\ used' \in [keys : 0 .. MaxKeys, failures : Nat] /\ used'.keys = used.keys + 1
    BY <1>1, PressCounts DEF ToggleAll, PreviewInv
<1>3. Good(pane)
    BY DEF PreviewInv, Typed, PanesInv, PanesAreGood, pane
<1>4. /\ Good(q) /\ SameWork(pane, q) /\ q.document_loading = pane.document_loading
      /\ pane.loading # NoFile => q.loading = pane.loading
    BY <1>1, <1>3, AllToggledKeeps
<1>5. /\ LaneTypeOK(Command, Event)' /\ LanesInv' /\ PanesInv' /\ panes' \in [Views -> Pane]
    BY <1>2, <1>4, ReadingKeeps DEF PreviewInv
<1>6. folding' \in Folding
    BY DEF ToggleAll, Folding
<1>7. Counted'
    BY <1>2 DEF PreviewInv, Counted
<1> QED
    BY <1>2, <1>5, <1>6, <1>7 DEF PreviewInv, Typed

LEMMA SwitchKeeps ==
    ASSUME PreviewInv, NeverWraps, NEW v \in Views, Switch(v)
    PROVE  PreviewInv'
<1>1. PICK left, q, g : left = Left(pane) /\ q = Resumed(panes[v]) /\ g = generation'
    OBVIOUS
<1>2. PICK e : e = FileEffects(panes[v], q, g)
    OBVIOUS
<1>3. /\ v # view /\ view' = v /\ Handle(e)
      /\ panes' = [panes EXCEPT ![view] = left, ![v] = q] /\ due' = [due EXCEPT !.preview = TRUE]
      /\ UNCHANGED <<tree, noticed, session, status, refresh, selection, version, folding>>
      /\ used' \in [keys : 0 .. MaxKeys, failures : Nat] /\ used'.keys = used.keys + 1
    BY <1>1, <1>2, PressCounts DEF Switch, PreviewInv, pane
<1>4. /\ view \in Views /\ panes \in [Views -> Pane] /\ generation \in Generation
      /\ generation \in Nat /\ Good(pane) /\ pane = panes[view]
      /\ Good(panes[v]) /\ panes[v].loading = NoFile
    BY <1>3 DEF PreviewInv, Typed, PanesInv, PanesAreGood, pane, Generation
<1>5. Good(left) /\ SameWork(pane, left) /\ left.loading = NoFile
    BY <1>1, <1>4, LeftKeeps
<1>6. Good(q) /\ SameWork(panes[v], q) /\ ~ q.document_loading
    BY <1>1, <1>4, ResumedKeeps
<1>7. g = generation + 1 /\ g \in Generation
    BY <1>1, <1>4, FollowingIsNext DEF Switch
<1>8. /\ Short(e)
      /\ \A c \in Elements(e) : /\ Load(c) /\ ~ Prepare(c) /\ c.generation = g
                                /\ c.workspace = q.workspace /\ c.path = q.loading
                                /\ q.loading # NoFile
      /\ q.loading # NoFile => \E c \in Elements(e) : TRUE
    BY <1>2, <1>4, <1>6, <1>7, FileEffectsAre DEF Good
<1>9. \A w \in Views : panes'[w] = IF w = v THEN q ELSE IF w = view THEN left ELSE panes[w]
    BY <1>3, <1>4
<1>10. panes' \in [Views -> Pane] /\ pane' = q
    BY <1>3, <1>4, <1>5, <1>6, <1>9 DEF Good, pane
<1>11. \A w \in Views : panes'[w].workspace # 0 => Fits(w, panes'[w])
    <2> SUFFICES ASSUME NEW w \in Views, panes'[w].workspace # 0 PROVE Fits(w, panes'[w])
        OBVIOUS
    <2>1. SameWork(panes[w], panes'[w])
        BY <1>4, <1>5, <1>6, <1>9 DEF SameWork
    <2> QED
        BY <2>1, StillFits DEF PreviewInv, PanesInv, SameWork
<1>12. \A c \in Elements(e) : Awaited(c, q, v, g)
    BY <1>6, <1>8, GoodWhenLoading DEF Awaited
<1>13. /\ LaneTypeOK(Command, Event)' /\ LanesInv'
       /\ SentIsAwaited' /\ IndexIsAwaited' /\ WorkspacesAreLatest'
    <2>1. /\ g = generation' /\ v = view' /\ q = pane' /\ view' \in Views /\ UNCHANGED session
          /\ generation' \in {generation, generation + 1} /\ Handle(e)
          /\ e \in Seq(Command) /\ Len(e) <= 1
        BY <1>1, <1>3, <1>7, <1>8, <1>10 DEF Short
    <2>2. \A c \in OnItsWay \cap OnItsWay' :
             Prepare(c) /\ c.generation = g /\ g = generation =>
                v = view /\ q.workspace = 0 /\ q.request = pane.request
        BY <1>4, <1>7
    <2>3. /\ LaneTypeOK(Command, Event) /\ LanesInv /\ PanesInv /\ generation \in Generation
          /\ session \in [Views -> [generation : 0 .. Wrap - 1, request : LocalDiffRequest]]
        BY DEF PreviewInv, Typed
    <2> HIDE DEF PreviewInv
    <2> QED
        BY <1>11, <1>12, <2>1, <2>2, <2>3, HandlerKeepsPanes
<1>14. PanesAreGood'
    BY <1>3, <1>4, <1>5, <1>6, <1>9 DEF PreviewInv, PanesInv, PanesAreGood
<1>15. PreviewIsOwed'
    <2>1. Elements(e) \subseteq OnItsWay'
        BY <1>3, <1>8, HandlerKeepsComing DEF PreviewInv, Typed, Short
    <2>2. q.loading # NoFile =>
             \E c \in OnItsWay' : /\ Load(c) /\ c.generation = g
                                  /\ c.workspace = q.workspace /\ c.path = q.loading
        BY <1>8, <2>1
    <2> QED
        BY <1>1, <1>6, <1>10, <2>2 DEF PreviewIsOwed, Load
<1>16. Counted'
    <2>1. due \in [refresh : BOOLEAN, preview : BOOLEAN]
        BY DEF PreviewInv, Counted
    <2>2. due' \in [refresh : BOOLEAN, preview : BOOLEAN] /\ due'.refresh = due.refresh
        BY <1>3, <2>1
    <2> QED
        BY <1>3, <2>2 DEF PreviewInv, Counted
<1> QED
    BY <1>1, <1>3, <1>7, <1>10, <1>13, <1>14, <1>15, <1>16 DEF PreviewInv, Typed, PanesInv
-----------------------------------------------------------------------------
(* The answers. *)

(* The files that the answer makes a pane read are asked for. *)
LEMMA AnswerReads ==
    ASSUME Typed, LanesInv, PanesInv, UNCHANGED <<session, view, generation>>,
           NEW p, p.loading = NoFile, NEW q, Good(q), Show(q),
           answers # <<>>, HandleAnswer(FileEffects(p, q, generation)),
           q.workspace # 0 => Fits(view, q),
           q.document_loading => q.indexed /\ q.loading # NoFile,
           \A c \in OnItsWay \cap OnItsWay' :
               ~ (Prepare(c) /\ c.generation = generation)
    PROVE  /\ LaneTypeOK(Command, Event)' /\ LanesInv' /\ PanesInv' /\ panes' \in [Views -> Pane]
           /\ view' \in Views /\ UNCHANGED session
<1>1. PICK e : e = FileEffects(p, q, generation)
    OBVIOUS
<1>2. view \in Views /\ generation \in Generation /\ q \in Pane
    BY DEF Typed, Good
<1>3. /\ Short(e) /\ HandleAnswer(e)
      /\ \A c \in Elements(e) : /\ Load(c) /\ ~ Prepare(c) /\ c.generation = generation
                                /\ c.workspace = q.workspace /\ c.path = q.loading
                                /\ q.loading # NoFile
      /\ q.loading # NoFile => \E c \in Elements(e) : TRUE
    BY <1>1, <1>2, FileEffectsAre
<1>4. Elements(e) \subseteq OnItsWay'
    BY <1>3, HandlerKeepsComing DEF Typed, Short
<1>5. \A c \in Elements(e) : Awaited(c, q, view, generation)
    BY <1>3, GoodWhenLoading DEF Awaited
<1>6. q.loading # NoFile =>
         \E c \in OnItsWay' : /\ Load(c) /\ c.generation = generation
                              /\ c.workspace = q.workspace /\ c.path = q.loading
    BY <1>3, <1>4
<1>7. generation' = generation
    OBVIOUS
<1> QED
    BY <1>2, <1>3, <1>5, <1>6, <1>7, ShowKeeps

(* No other index is of the generation of an answer that has come.            *)
LEMMA HeadIsAlone ==
    ASSUME LaneTypeOK(Command, Event), LanesInv, answers # <<>>,
           NEW a, a = Head(answers), Prepare(a.command),
           NEW p, NEW q, HandleAnswer(FileEffects(p, q, generation)), q \in Pane,
           generation \in Generation
    PROVE  /\ a \in Elements(answers) /\ a \in Event /\ a.command \in OnItsWay
           /\ \A d \in Unanswered : Prepare(d) => a.command.generation < d.generation
           /\ \A c \in OnItsWay' : Prepare(c) => c.generation # a.command.generation
<1>1. PICK e : e = FileEffects(p, q, generation)
    OBVIOUS
<1>2. Short(e) /\ HandleAnswer(e) /\ \A c \in Elements(e) : ~ Prepare(c)
    BY <1>1, FileEffectsAre
<1>3. /\ answers \in Seq(Event) /\ answers' = Tail(answers) /\ outbox = <<>> /\ outbox' = e
      /\ UNCHANGED <<mailbox, executing>>
    BY <1>2 DEF LaneTypeOK, HandleAnswer, Free
<1>4. /\ Len(answers') = Len(answers) - 1 /\ Len(answers) \in Nat \ {0}
      /\ \A k \in 1 .. Len(answers') : answers'[k] = answers[k + 1]
      /\ DOMAIN answers' = 1 .. Len(answers') /\ DOMAIN answers = 1 .. Len(answers)
      /\ a = answers[1]
    <2>1. answers' \in Seq(Event)
        BY <1>3, TailElements
    <2> QED
        BY <1>3, <2>1, HeadTailProperties, EmptySeq, LenProperties
<1>5. a \in Elements(answers) /\ a \in Event /\ a.command \in OnItsWay /\ a.command \in Answered
    <2>1. a \in Elements(answers) /\ a \in Event
        BY <1>3, TailElements
    <2> QED
        BY <1>4, <2>1 DEF OnItsWay, Answered
<1>6. \A d \in Unanswered : Prepare(d) => a.command.generation < d.generation
    BY <1>5 DEF LanesInv, PreparedInOrder, Before
<1>7. OnItsWay \subseteq Command
    BY StagesTyped
<1>8. ASSUME NEW c \in OnItsWay', Prepare(c) PROVE c.generation # a.command.generation
    <2>1. Sent' = Elements(e) /\ Waits' = Waits /\ Runs' = Runs
        BY <1>3 DEF Sent, Elements, Waits, Runs
    <2>2. CASE c \in Waits \cup Runs
        <3>1. c \in Unanswered /\ c \in OnItsWay
            BY <2>2, Stages DEF Unanswered
        <3>2. a.command.generation < c.generation
            BY <1>6, <1>8, <3>1
        <3>3. a.command.generation \in Int /\ c.generation \in Int
            BY <1>5, <1>7, <3>1, PreviewAssumption DEF Command
        <3> QED
            BY <3>2, <3>3
    <2>3. CASE c \in Answered'
        <3>1. PICK i \in DOMAIN answers' : c = answers'[i].command
            BY <2>3 DEF Answered
        <3>2. 1 \in DOMAIN answers /\ i + 1 \in DOMAIN answers /\ 1 < i + 1
              /\ c = answers[i + 1].command
            BY <1>4, <3>1
        <3>3. a.command.generation < c.generation
            BY <1>4, <1>8, <3>2 DEF LanesInv, PreparedInOrder
        <3>4. c \in OnItsWay
            BY <3>2 DEF OnItsWay
        <3>5. a.command.generation \in Int /\ c.generation \in Int
            BY <1>5, <1>7, <3>4, PreviewAssumption DEF Command
        <3> QED
            BY <3>3, <3>5
    <2>4. c \in Sent' \cup Waits' \cup Runs' \cup Answered'
        BY DEF OnItsWay, Sent, Elements, Waits, Runs, Answered
    <2> QED
        BY <1>2, <1>8, <2>1, <2>2, <2>3, <2>4
<1> QED
    BY <1>5, <1>6, <1>8

LEMMA HearIndexKeeps ==
    ASSUME PreviewInv, NEW e, HearIndex(e)
    PROVE  PreviewInv'
<1>1. PICK p : p = IF e.ok THEN Indexed(pane, e.command.request.files, folding)
                   ELSE IF pane.preserving THEN Aborted(pane)
                   ELSE [Reset(pane) EXCEPT !.document_loading = FALSE, !.document = Blank]
    OBVIOUS
<1>2. PICK b : b = [pane EXCEPT !.loading = NoFile]
    OBVIOUS
<1>3. /\ answers # <<>> /\ e = Head(answers) /\ Prepare(e.command)
      /\ e.command.generation = generation
      /\ Show(p) /\ HandleAnswer(FileEffects(b, p, generation))
      /\ UNCHANGED <<tree, noticed, session, due, status, refresh, selection, version, view,
                     generation, folding, used>>
    BY <1>1, <1>2 DEF HearIndex, Hears, Current, Prepare, outside
<1>4. /\ Good(pane) /\ pane \in Pane /\ view \in Views /\ generation \in Generation
      /\ pane = panes[view]
    BY DEF PreviewInv, Typed, PanesInv, PanesAreGood, pane, Good
<1>5. b.loading = NoFile
    BY <1>2, <1>4 DEF Pane
<1>6. e \in Event /\ e \in Elements(answers) /\ e.command \in OnItsWay
    <2>1. answers \in Seq(Event)
        BY DEF PreviewInv, Typed, LaneTypeOK
    <2>2. e \in Event /\ e \in Elements(answers)
        BY <1>3, <2>1, TailElements
    <2> QED
        BY <2>2 DEF OnItsWay, Elements
<1>7. pane.workspace = 0 /\ pane.request = e.command.request /\ SlotOfRequest(e.command.request) = view
    BY <1>3, <1>6 DEF PreviewInv, PanesInv, IndexIsAwaited
<1>8. e.command.request.files \in Seq(Files)
    BY <1>6 DEF Event, Command, LocalDiffRequest
<1>9. /\ Good(p)
      /\ p.document_loading => p.indexed /\ p.loading # NoFile
      /\ p.workspace # 0 => /\ e.ok /\ p.workspace = generation
                            /\ p.index = e.command.request.files /\ p.request = pane.request
    <2>1. CASE e.ok
        <3>1. /\ Good(p) /\ p.workspace = generation /\ p.index = e.command.request.files
              /\ p.request = pane.request
              /\ p.document_loading => p.loading # NoFile
            BY <1>1, <1>4, <1>7, <1>8, <2>1, IndexedKeeps
        <3> QED
            BY <2>1, <3>1, GoodWhenLoading
    <2>2. CASE ~ e.ok /\ pane.preserving
        <3>1. Good(p) /\ Idle(p) /\ ~ p.document_loading
            BY <1>1, <1>4, <2>2, AbortedKeeps
        <3> QED
            BY <3>1 DEF Idle
    <2>3. CASE ~ e.ok /\ ~ pane.preserving
        <3>1. Good(p) /\ Idle(p) /\ ~ p.document_loading
            BY <1>1, <1>4, <2>3, ClearedKeeps
        <3> QED
            BY <3>1 DEF Idle
    <2> QED
        BY <2>1, <2>2, <2>3
<1>10. p \in Pane
    BY <1>9 DEF Good
<1>11. /\ \A d \in Unanswered : Prepare(d) => generation < d.generation
       /\ \A c \in OnItsWay' : Prepare(c) => c.generation # generation
    BY <1>3, <1>4, <1>10, HeadIsAlone DEF PreviewInv, Typed
<1>12. ASSUME p.workspace # 0 PROVE Fits(view, p)
    <2>1. e.ok /\ p.workspace = generation /\ p.index = e.command.request.files
          /\ p.request = e.command.request
        BY <1>7, <1>9, <1>12
    <2>2. /\ generation <= session[view].generation
          /\ generation = session[view].generation => session[view].request = e.command.request
        BY <1>3, <1>6, <1>7, <2>1 DEF PreviewInv, LanesInv, SessionsAreLatest
    <2>3. session[view].generation \in 0 .. generation /\ generation \in Nat
        BY <1>4 DEF PreviewInv, LanesInv, SessionsAreLatest, Generation
    <2>4. session[view].generation = generation
        BY <2>2, <2>3
    <2>5. \A d \in Unanswered : ~ Prepare(d)
        <3> SUFFICES ASSUME NEW d \in Unanswered, Prepare(d) PROVE FALSE
            OBVIOUS
        <3>1. d.generation \in 1 .. generation
            BY Stages DEF PreviewInv, LanesInv, NoneIsAhead
        <3> QED
            BY <1>11, <2>3, <3>1
    <2> QED
        BY <2>1, <2>2, <2>4, <2>5 DEF Fits
<1>13. /\ LaneTypeOK(Command, Event)' /\ LanesInv' /\ PanesInv' /\ panes' \in [Views -> Pane]
    BY <1>3, <1>5, <1>9, <1>11, <1>12, AnswerReads DEF PreviewInv
<1>14. Counted'
    BY <1>3 DEF PreviewInv, Counted
<1> QED
    BY <1>3, <1>13, <1>14 DEF PreviewInv, Typed

LEMMA HearFileKeeps ==
    ASSUME PreviewInv, NEW e, HearFile(e)
    PROVE  PreviewInv'
<1>1. PICK p : p = FileHeard(pane, e)
    OBVIOUS
<1>2. PICK q : q = WithNextFile(p, folding)
    OBVIOUS
<1>3. /\ answers # <<>> /\ e = Head(answers) /\ Load(e.command)
      /\ e.command.workspace = pane.workspace
      /\ e.command.path = pane.loading /\ e.command.path \in ToSet(pane.index)
      /\ Show(q) /\ HandleAnswer(FileEffects(p, q, generation))
      /\ UNCHANGED <<tree, noticed, session, due, status, refresh, selection, version, view,
                     generation, folding, used>>
    BY <1>1, <1>2 DEF HearFile, Hears, Current, Load, outside
<1>4. /\ Good(pane) /\ pane \in Pane /\ view \in Views /\ generation \in Generation
      /\ pane = panes[view]
    BY DEF PreviewInv, Typed, PanesInv, PanesAreGood, pane, Good
<1>5. e \in Event /\ e \in Elements(answers) /\ e.command \in OnItsWay /\ e.patch \in Patch
    <2>1. answers \in Seq(Event)
        BY DEF PreviewInv, Typed, LaneTypeOK
    <2>2. e \in Event /\ e \in Elements(answers)
        BY <1>3, <2>1, TailElements
    <2> QED
        BY <2>2 DEF OnItsWay, Elements, Event
<1>6. pane.workspace # 0
    <2>1. NoFile \notin ToSet(pane.index)
        BY <1>4, FilesOfList DEF Pane
    <2> QED
        BY <1>3, <1>4, <2>1, GoodWhenLoading
<1>7. e.ok /\ e.patch # Failed /\ pane.request # NoRequest
         => e.patch.kind = pane.request.kind /\ e.patch.name = pane.request.name
    <2>1. session[view].generation = pane.workspace
          /\ pane.request \in {session[view].request, NoRequest}
        BY <1>4, <1>6 DEF PreviewInv, PanesInv, WorkspacesAreLatest, WorkspacesAreKept
    <2>2. e.ok => e.patch.kind = session[view].request.kind /\ e.patch.name = session[view].request.name
        BY <1>3, <1>4, <1>5, <2>1 DEF PreviewInv, LanesInv, PatchesAreOfTheWorkspace
    <2> QED
        BY <2>1, <2>2
<1>8. /\ Good(p) /\ p.loading = NoFile
      /\ p.request \in {pane.request, NoRequest}
      /\ \/ p.workspace = pane.workspace /\ p.index = pane.index
         \/ p.workspace = 0 /\ ~ p.document_loading
    BY <1>1, <1>3, <1>4, <1>5, <1>7, FileHeardKeeps
<1>9. /\ Good(q) /\ SameWork(p, q)
      /\ q.document_loading => p.document_loading
      /\ q.document_loading /\ q.indexed => q.loading # NoFile
    BY <1>2, <1>8, NextFileReads
<1>10. q.document_loading => q.indexed /\ q.loading # NoFile
    BY <1>6, <1>8, <1>9, GoodWhenLoading DEF SameWork
<1>11. q.workspace # 0 => Fits(view, q)
    BY <1>4, <1>6, <1>8, <1>9, StillFits DEF PreviewInv, PanesInv, SameWork
<1>12. \A c \in OnItsWay : ~ (Prepare(c) /\ c.generation = generation)
    BY <1>6 DEF PreviewInv, PanesInv, IndexIsAwaited
<1>13. /\ LaneTypeOK(Command, Event)' /\ LanesInv' /\ PanesInv' /\ panes' \in [Views -> Pane]
    BY <1>3, <1>8, <1>9, <1>10, <1>11, <1>12, AnswerReads DEF PreviewInv
<1>14. Counted'
    BY <1>3 DEF PreviewInv, Counted
<1> QED
    BY <1>3, <1>13, <1>14 DEF PreviewInv, Typed

LEMMA RestoredTyped ==
    ASSUME selection \in Selection, NEW st \in Seq(Files)
    PROVE  RestoredSelection(st) \in Selection
<1> DEFINE now == IF ~ selection.section /\ selection.cursor \in DOMAIN status
                  THEN status[selection.cursor] ELSE NoFile
           test(f) == f = now
           there == SelectInSeq(st, test)
           I == {i \in 1 .. Len(st) : test(st[i])}
           clamped(i) == IF i > Len(st) THEN IF st = <<>> THEN 1 ELSE Len(st) ELSE i
<1>1. Len(st) \in Nat /\ (st # <<>> => Len(st) # 0)
    BY EmptySeq, LenProperties
<1>2. there # 0 => there \in Nat \ {0}
    <2>1. CASE I = {}
        BY <2>1 DEF SelectInSeq
    <2>2. CASE I # {}
        <3>1. \E n \in I : \A m \in I : n <= m
            <4>1. I \in SUBSET Nat
                BY <1>1
            <4> HIDE DEF I
            <4> QED
                BY <2>2, <4>1, LeastNatural
        <3>2. there = CHOOSE x \in I : \A y \in I : x <= y
            BY <2>2 DEF SelectInSeq, Min
        <3>3. there \in I
            BY <3>1, <3>2
        <3> QED
            BY <1>1, <3>3
    <2> QED
        BY <2>1, <2>2
<1>3. \A i \in Nat \ {0} : clamped(i) \in Nat \ {0}
    BY <1>1
<1>4. selection.cursor \in Nat \ {0} /\ selection.section \in BOOLEAN
    BY DEF Selection
<1>5. clamped(selection.cursor) \in Nat \ {0}
    BY <1>3, <1>4
<1>6. RestoredSelection(st) =
        IF there # 0 THEN [selection EXCEPT !.cursor = there]
        ELSE [selection EXCEPT
                !.section = @ \/ (selection.cursor \notin DOMAIN st /\ st # <<>>),
                !.cursor = clamped(@)]
    BY DEF RestoredSelection
<1> HIDE DEF there, clamped
<1>7. CASE there # 0
    BY <1>2, <1>6, <1>7 DEF Selection
<1>8. CASE there = 0
    <2>1. PICK section \in BOOLEAN :
             section = (selection.section \/ (selection.cursor \notin DOMAIN st /\ st # <<>>))
        BY <1>4
    <2>2. RestoredSelection(st) =
            [selection EXCEPT !.section = section, !.cursor = clamped(selection.cursor)]
        BY <1>6, <1>8, <2>1 DEF Selection
    <2> QED
        BY <1>5, <2>1, <2>2 DEF Selection
<1> QED
    BY <1>7, <1>8

(* The status asks for its next read or for a preview, never for both.        *)
LEMMA HearStatusKeeps ==
    ASSUME PreviewInv, NeverWraps, NEW e, HearStatus(e)
    PROVE  PreviewInv'
<1> DEFINE again == refresh.again
           shown == e.ok /\ view = "Changes" /\ ~ again
<1>1. PICK heard : heard = [refresh EXCEPT !.loading = FALSE, !.again = FALSE, !.failed = ~ e.ok]
    OBVIOUS
<1>2. PICK r : r = IF again THEN RequestRefresh(heard) ELSE heard
    OBVIOUS
<1>3. PICK st, sel : st = (IF e.ok THEN e.files ELSE status)
                     /\ sel = (IF e.ok THEN RestoredSelection(st) ELSE selection)
    <2>1. PICK st : st = (IF e.ok THEN e.files ELSE status)
        OBVIOUS
    <2> QED
        BY <2>1
<1>4. PICK p : p = IF ~ e.ok /\ pane.preserving /\ ~ pane.document_loading
                   THEN Aborted(pane) ELSE pane
    OBVIOUS
<1>5. PICK ask : ask = IF shown THEN RequestEffects(p, st, sel, version, generation) ELSE <<>>
    OBVIOUS
<1>6. /\ answers # <<>> /\ e = Head(answers) /\ e.command.kind = "Refresh"
      /\ refresh' = r /\ status' = st /\ selection' = sel
      /\ due' = [due EXCEPT !.preview = @ /\ ~ shown]
      /\ Show(IF shown THEN Request(p, st, sel, version) ELSE p)
      /\ generation' = GenerationAfter(ask, generation)
      /\ HandleAnswer(ask \o RefreshEffects(heard, r))
      /\ UNCHANGED <<tree, noticed, session, version, view, folding, used>>
    BY <1>1, <1>2, <1>3, <1>4, <1>5 DEF HearStatus, Hears, outside
<1>7. /\ Good(pane) /\ view \in Views /\ generation \in Generation /\ pane = panes[view]
      /\ selection \in Selection /\ version \in Nat /\ status \in Seq(Files)
    BY StatusIsList
       DEF PreviewInv, Typed, Counted, PanesInv, PanesAreGood, pane
<1>8. e \in Event /\ e.ok \in BOOLEAN
    <2>1. answers \in Seq(Event)
        BY DEF PreviewInv, Typed, LaneTypeOK
    <2>2. e \in Event
        BY <1>6, <2>1, TailElements
    <2> QED
        BY <2>2 DEF Event
<1>9. st \in Trees \cup {<<>>} /\ st \in Seq(Files) /\ sel \in Selection
    <2>1. st \in Trees \cup {<<>>}
        BY <1>3, <1>8 DEF Event, PreviewInv, Typed
    <2>2. st \in Seq(Files)
        BY <2>1, NothingTyped, PreviewAssumption
    <2> QED
        BY <1>3, <1>7, <2>1, <2>2, RestoredTyped
<1>10. refresh' \in [loading : BOOLEAN, again : BOOLEAN, failed : BOOLEAN]
    <2>1. heard \in [loading : BOOLEAN, again : BOOLEAN, failed : BOOLEAN]
        BY <1>1, <1>8 DEF PreviewInv, Typed
    <2> QED
        BY <1>2, <1>6, <2>1, RefreshTyped
<1>11. /\ LaneTypeOK(Command, Event)' /\ LanesInv' /\ PanesInv' /\ panes' \in [Views -> Pane]
       /\ generation' \in Generation
    <2>1. CASE shown
        <3>1. p = pane /\ r = heard /\ ask = RequestEffects(pane, st, sel, version, generation)
            BY <1>2, <1>4, <1>5, <2>1
        <3>2. Short(ask)
            BY <1>7, <1>9, <3>1, RequestKeeps DEF PreviewInv
        <3>3. ask \o RefreshEffects(heard, r) = ask
            BY <3>1, <3>2, ConcatEmptySeq DEF RefreshEffects, Short
        <3>4. HandleAnswer(ask) /\ Show(Request(pane, st, sel, version))
            BY <1>6, <2>1, <3>1, <3>3
        <3>5. \A c \in OnItsWay : Wanted(c) => c \in OnItsWay'
            BY <1>6, <3>2, <3>4, HandlerKeepsComing
               DEF PreviewInv, Typed, Short, Wanted, Prepare, Load
        <3>6. SameReads(pane, pane)
            BY DEF SameReads
        <3> QED
            BY <1>6, <1>7, <1>9, <3>1, <3>4, <3>5, <3>6, RequestedKeeps DEF PreviewInv
    <2>2. CASE ~ shown
        <3>1. PICK f : f = RefreshEffects(heard, r)
            OBVIOUS
        <3>2. Short(f) /\ \A c \in Elements(f) : ~ Prepare(c) /\ ~ Load(c)
            BY <3>1, RefreshEffectsAre
        <3>3. ask = <<>> /\ ask \o f = f
            BY <1>5, <2>2, <3>2, ConcatEmptySeq DEF Short
        <3>4. generation' = generation /\ HandleAnswer(f) /\ Show(p)
            <4>1. DOMAIN <<>> = {}
                OBVIOUS
            <4>2. GenerationAfter(<<>>, generation) = generation
                BY <4>1 DEF GenerationAfter
            <4> QED
                BY <1>6, <2>2, <3>1, <3>3, <4>2
        <3>5. \A c \in OnItsWay : Wanted(c) => c \in OnItsWay'
            BY <1>6, <3>2, <3>4, HandlerKeepsComing
               DEF PreviewInv, Typed, Short, Wanted, Prepare, Load
        <3>6. CASE p = pane
            <4>1. panes' = panes
                BY <1>7, <3>4, <3>6 DEF Show, PreviewInv, Typed
            <4> QED
                BY <1>6, <1>7, <3>2, <3>4, <3>5, <4>1, SamePanes, SameKeeps DEF PreviewInv, Typed
        <3>7. CASE p = Aborted(pane)
            <4>1. /\ Good(p) /\ Idle(p) /\ ~ p.document_loading /\ p.request = pane.request
                BY <1>7, <3>7, AbortedKeeps
            <4>2. \A c \in Elements(f) : Awaited(c, p, view, generation)
                BY <3>2 DEF Awaited
            <4> QED
                BY <1>6, <1>7, <3>2, <3>4, <4>1, <4>2, ShowKeeps DEF PreviewInv, Idle
        <3> QED
            BY <1>4, <3>6, <3>7
    <2> QED
        BY <2>1, <2>2
<1>12. Counted'
    <2>1. due \in [refresh : BOOLEAN, preview : BOOLEAN]
        BY DEF PreviewInv, Counted
    <2>2. due' \in [refresh : BOOLEAN, preview : BOOLEAN] /\ due'.refresh = due.refresh
        BY <1>6, <2>1
    <2> QED
        BY <1>6, <2>2 DEF PreviewInv, Counted
<1> QED
    BY <1>6, <1>9, <1>10, <1>11, <1>12 DEF PreviewInv, Typed

LEMMA ServingKeeps ==
    ASSUME PreviewInv, Serving
    PROVE  PreviewInv'
<1>1. /\ Serve
      /\ UNCHANGED <<tree, noticed, session, due, status, refresh, selection, version, view, panes,
                     generation, folding, used>>
    BY DEF Serving, outside, preview
<1>2. LaneTypeOK(Command, Event)' /\ LanesInv'
    BY <1>1, ServeKeepsLanes DEF PreviewInv, Typed
<1>3. PanesInv'
    BY <1>1, ServeKeepsPanes DEF PreviewInv, Typed
<1>4. Counted'
    BY <1>1 DEF PreviewInv, Counted
<1> QED
    BY <1>1, <1>2, <1>3, <1>4 DEF PreviewInv, Typed

LEMMA ExecuteKeeps ==
    ASSUME PreviewInv, NEW l \in Lanes, Execute(l)
    PROVE  PreviewInv'
<1>1. UNCHANGED <<tree, noticed, due, status, refresh, selection, version, view, panes,
                  generation, folding>>
    BY DEF Execute, outside, preview
<1>2. tree \in [version : 1 .. MaxChanges + 1, files : Trees]
    BY DEF PreviewInv, Counted
<1>3. PICK event \in Event : Answers(l, event)
    BY <1>2, ExecuteAnswers DEF PreviewInv, Typed
<1>4. /\ LaneTypeOK(Command, Event)' /\ LanesInv'
      /\ session' \in [Views -> [generation : 0 .. Wrap - 1, request : LocalDiffRequest]]
    BY <1>1, <1>3, ExecuteKeepsLanes DEF PreviewInv, Typed
<1>5. PanesInv'
    BY <1>1, <1>3, ExecuteKeepsPanes DEF PreviewInv, Typed
<1>6. used' \in [keys : 0 .. MaxKeys, failures : Nat] /\ used'.keys = used.keys
    <2>1. \E n \in {0, 1} : used' = [used EXCEPT !.failures = @ + n]
        BY DEF Execute
    <2>2. used \in [keys : 0 .. MaxKeys, failures : Nat]
        BY DEF PreviewInv, Counted
    <2> QED
        BY <2>1, <2>2
<1>7. Counted'
    BY <1>1, <1>6 DEF PreviewInv, Counted
<1> QED
    BY <1>1, <1>4, <1>5, <1>7 DEF PreviewInv, Typed

LEMMA NewPaneIsIdle == NewPane \in Pane /\ Idle(NewPane) /\ Good(NewPane) /\ ~ NewPane.document_loading
<1>1. PICK nothing, patches, blank, none :
         nothing = <<>> /\ patches = NoPatches /\ blank = Blank /\ none = NoRequest
    <2>1. PICK nothing, patches : nothing = <<>> /\ patches = NoPatches
        OBVIOUS
    <2>2. PICK blank, none : blank = Blank /\ none = NoRequest
        OBVIOUS
    <2> QED
        BY <2>1, <2>2
<1>2. /\ nothing \in Seq(Files) /\ patches \in Patches
      /\ blank \in [headers : Seq(Files), open : SUBSET Files, patches : Patches]
      /\ DOMAIN blank.patches = {} /\ none \in LocalDiffRequest /\ Titled(none)
    BY <1>1, NothingTyped, NoPatchesTyped, BlankTyped, NoRequestTyped
<1>3. PICK p : p = NewPane
    OBVIOUS
<1>4. p = [request |-> none, preserving |-> FALSE, preserved |-> {}, workspace |-> 0,
           indexed |-> FALSE, index |-> nothing, documents |-> patches, loading |-> NoFile,
           pending |-> nothing, document_loading |-> FALSE, document |-> blank, collapsed |-> {},
           expanded |-> {}, selected |-> NoFile, comparing |-> FALSE, cut |-> FALSE]
    BY <1>1, <1>3 DEF NewPane
<1>5. p \in Pane
    BY <1>2, <1>4 DEF Pane
<1>6. Idle(p) /\ p.request = none /\ p.document = blank /\ ~ p.document_loading
    BY <1>1, <1>4 DEF Idle
<1>7. Good(p)
    BY <1>1, <1>2, <1>5, <1>6, IdleIsGood
<1> QED
    BY <1>3, <1>5, <1>6, <1>7

LEMMA InitIsSound == Init => PreviewInv
<1> SUFFICES ASSUME Init PROVE PreviewInv
    OBVIOUS
<1>1. PICK c, none : c = Asks("Refresh", 0, NoRequest, 0, NoFile) /\ none = NoRequest
    OBVIOUS
<1>2. c \in Command /\ c # NoCommand /\ ~ Prepare(c) /\ ~ Load(c) /\ none \in LocalDiffRequest
    BY <1>1, NoRequestTyped, PreviewAssumption DEF Asks, Command, Prepare, Load
<1>3. /\ outbox = <<c>> /\ mailbox = [l \in Lanes |-> NewMailbox]
      /\ executing = [l \in Lanes |-> NoCommand] /\ answers = <<>>
    BY <1>1 DEF Init, InitLane
<1>4. /\ outbox \in Seq(Command) /\ Len(outbox) = 1 /\ Sent = {c}
      /\ answers \in Seq(Event) /\ DOMAIN answers = {}
    BY <1>2, <1>3, Singletons, NothingTyped DEF Sent
<1>5. \A l \in Lanes : mailbox[l].operations = <<>> /\ Full(mailbox[l]) = {}
                       /\ Waiting(mailbox[l]) = {} /\ executing[l] = NoCommand
    BY <1>3, NothingTyped DEF NewMailbox, Full, Waiting
<1>6. LaneTypeOK(Command, Event)
    BY <1>3, <1>4 DEF LaneTypeOK, NewMailbox, MailboxOf
<1>7. Waits = {} /\ Runs = {} /\ Answered = {} /\ Unanswered = {c} /\ OnItsWay = {c}
    <2>1. Waits = {} /\ Runs = {} /\ Answered = {}
        BY <1>4, <1>5 DEF Waits, Runs, Answered
    <2> QED
        BY <1>4, <2>1, Stages DEF Unanswered
<1>8. /\ view = "Changes" /\ view \in Views /\ generation = 1 /\ generation \in Generation
      /\ \A v \in Views : panes[v] = NewPane /\ session[v] = [generation |-> 0, request |-> none]
    BY <1>1, PreviewAssumption DEF Init, Views, Generation
<1>9. NewPane \in Pane /\ Good(NewPane) /\ Idle(NewPane) /\ ~ NewPane.document_loading
    BY NewPaneIsIdle
<1> HIDE DEF NewPane
<1>10. Typed
    <2>1. session \in [Views -> [generation : 0 .. Wrap - 1, request : LocalDiffRequest]]
        BY <1>1, <1>2, PreviewAssumption DEF Init
    <2>2. selection \in Selection
        BY PreviewAssumption DEF Init, Selection
    <2>3. panes \in [Views -> Pane]
        BY <1>9 DEF Init
    <2> QED
        BY <1>6, <1>8, <2>1, <2>2, <2>3 DEF Init, Typed, Folding
<1>11. Counted
    <2>1. /\ tree \in [version : {1}, files : Trees] /\ ~ noticed /\ noticed \in BOOLEAN
          /\ due \in [refresh : BOOLEAN, preview : BOOLEAN] /\ ~ due.refresh /\ version = 0
          /\ used \in [keys : 0 .. MaxKeys, failures : Nat] /\ used.keys = 0
        <3>1. /\ tree \in [version : {1}, files : Trees] /\ noticed = FALSE
              /\ due = [refresh |-> FALSE, preview |-> FALSE] /\ version = 0
              /\ used = [keys |-> 0, failures |-> 0]
            BY DEF Init
        <3>2. MaxKeys \in Nat
            BY PreviewAssumption
        <3>3. due \in [refresh : BOOLEAN, preview : BOOLEAN] /\ ~ due.refresh
            BY <3>1
        <3>4. used \in [keys : 0 .. MaxKeys, failures : Nat] /\ used.keys = 0
            BY <3>1, <3>2
        <3> QED
            BY <3>1, <3>3, <3>4
    <2> QED
        BY <2>1, PreviewAssumption DEF Counted
<1>12. LanesInv
    <2>1. InTheirLanes
        BY <1>5 DEF InTheirLanes
    <2>2. PreparedInOrder
        BY <1>2, <1>4, <1>7 DEF PreparedInOrder, Before
    <2>3. NoneIsAhead
        BY <1>2, <1>7 DEF NoneIsAhead
    <2>4. SessionsAreLatest
        <3>1. \A v \in Views : session[v].generation = 0
            BY <1>8
        <3>2. 0 \in 0 .. generation /\ Elements(answers) = {}
            BY <1>4, <1>8 DEF Elements
        <3>3. \A d \in Unanswered : ~ Prepare(d)
            BY <1>2, <1>7
        <3> QED
            BY <3>1, <3>2, <3>3 DEF SessionsAreLatest
    <2>5. PatchesAreOfTheWorkspace
        BY <1>4 DEF PatchesAreOfTheWorkspace, Elements
    <2> QED
        BY <2>1, <2>2, <2>3, <2>4, <2>5 DEF LanesInv
<1>13. PanesInv
    <2>1. PanesAreGood
        BY <1>8, <1>9 DEF PanesAreGood, Idle
    <2>2. SentIsAwaited /\ IndexIsAwaited
        BY <1>2, <1>4, <1>7 DEF SentIsAwaited, IndexIsAwaited
    <2>3. WorkspacesAreLatest
        BY <1>8, <1>9 DEF WorkspacesAreLatest, WorkspacesAreKept, Idle
    <2>4. PreviewIsOwed
        BY <1>8, <1>9 DEF PreviewIsOwed, pane, Idle
    <2> QED
        BY <2>1, <2>2, <2>3, <2>4 DEF PanesInv
<1> QED
    BY <1>10, <1>11, <1>12, <1>13 DEF PreviewInv

LEMMA NextKeeps ==
    ASSUME PreviewInv, NeverWraps, [Next]_vars
    PROVE  PreviewInv'
<1>1. CASE OutsideChange \/ Notice \/ Heartbeat \/ Serving
    BY <1>1, OutsideKeeps, NoticeKeeps, HeartbeatKeeps, ServingKeeps
<1>2. CASE Tick
    BY <1>2, SettleKeeps, PreviewKeeps DEF Tick
<1>3. CASE User
    BY <1>3, ActiveRefreshKeeps, CompareKeeps, ToggleAllKeeps, SelectKeeps, SwitchKeeps, ToggleKeeps
       DEF User
<1>4. CASE Hear
    BY <1>4, IgnoreKeeps, HearStatusKeeps, HearIndexKeeps, HearFileKeeps DEF Hear
<1>5. CASE \E l \in Lanes : Execute(l)
    BY <1>5, ExecuteKeeps
<1>6. CASE UNCHANGED vars
    <2>1. UNCHANGED <<lane, tree, noticed, session, due, status, refresh, selection, version, view,
                      panes, generation, folding, used>>
        BY <1>6 DEF vars, outside, preview
    <2>2. LaneTypeOK(Command, Event)' /\ LanesInv' /\ PanesInv'
        BY <2>1, LanesStay DEF PreviewInv, Typed
    <2>3. Counted'
        BY <2>1 DEF PreviewInv, Counted
    <2> QED
        BY <2>1, <2>2, <2>3 DEF PreviewInv, Typed
<1> QED
    BY <1>1, <1>2, <1>3, <1>4, <1>5, <1>6 DEF Next

LEMMA PreviewStaysSound == Safe /\ []NeverWraps => []PreviewInv
<1>1. Init => PreviewInv
    BY InitIsSound
<1>2. PreviewInv /\ NeverWraps /\ [Next]_vars => PreviewInv'
    BY NextKeeps
<1> QED
    BY <1>1, <1>2, PTL DEF Safe
-----------------------------------------------------------------------------
(* The theorems.  The generations of the code are 64 bits wide and never      *)
(* return to one that was used; where the model bounds them, the theorems say *)
(* what holds until the bound is reached.                                     *)

(* Every pane, command, answer and counter keeps its type: a pane only ever   *)
(* reads and keeps files of its index, and shows patches of unfolded files.   *)
THEOREM PreviewIsTyped == Safe /\ []NeverWraps => []TypeOK
<1>1. PreviewInv => TypeOK
    <2> SUFFICES ASSUME PreviewInv PROVE TypeOK
        OBVIOUS
    <2>1. version \in 0 .. MaxChanges + MaxKeys
        <3>1. /\ version \in Nat /\ tree.version \in 1 .. MaxChanges + 1 /\ used.keys \in 0 .. MaxKeys
              /\ version <= tree.version - 1 + used.keys
            BY PreviewAssumption DEF PreviewInv, Counted
        <3> QED
            BY <3>1, PreviewAssumption
    <2>2. ASSUME NEW v \in Views
          PROVE  /\ panes[v].request \in LocalDiffRequest
                 /\ Range(panes[v].documents) \cup Range(panes[v].document.patches) \subseteq Patch
                 /\ DOMAIN panes[v].documents \subseteq ToSet(panes[v].index)
                 /\ DOMAIN panes[v].document.patches \subseteq panes[v].document.open
                 /\ panes[v].workspace \in Generation \cup {0}
                 /\ ToSet(panes[v].pending) \cup (({panes[v].loading} \ {NoFile}))
                       \subseteq ToSet(panes[v].index)
        <3>1. Good(panes[v]) /\ panes[v] \in Pane
            BY DEF PreviewInv, PanesInv, PanesAreGood, Good
        <3>2. panes[v].documents \in Patches /\ panes[v].document.patches \in Patches
              /\ panes[v].request \in LocalDiffRequest /\ panes[v].workspace \in Generation \cup {0}
            BY <3>1 DEF Pane
        <3>3. Range(panes[v].documents) \cup Range(panes[v].document.patches) \subseteq Patch
            BY <3>2, PatchesAreFunctions DEF Range
        <3> QED
            BY <3>1, <3>2, <3>3 DEF Good, Kept, Queued
    <2> QED
        BY <2>1, <2>2 DEF TypeOK, PreviewInv, Typed, Counted, Selection
<1> QED
    BY <1>1, PreviewStaysSound, PTL

(* The workspace that a view reads files from is never displaced by another   *)
(* preparation while the view still shows it, whether the view is on display  *)
(* or was left.                                                               *)
THEOREM WorkspacesStayKept == Safe /\ []NeverWraps => []WorkspacesAreKept
<1>1. PreviewInv => WorkspacesAreKept
    BY DEF PreviewInv, PanesInv, WorkspacesAreLatest
<1> QED
    BY <1>1, PreviewStaysSound, PTL

(* A preview that says that it is loading has the answer it waits for on its  *)
(* way, though every newer command takes the place of an older in the slot    *)
(* they share.                                                                *)
THEOREM PreviewStaysOwed == Safe /\ []NeverWraps => []PreviewIsOwed
<1>1. PreviewInv => PreviewIsOwed
    BY DEF PreviewInv, PanesInv
<1> QED
    BY <1>1, PreviewStaysSound, PTL

(* No patch is shown under the title of another diff.                         *)
THEOREM PatchesStayOfTheSubject == Safe /\ []NeverWraps => []PatchesAreOfTheSubject
<1>1. PreviewInv => PatchesAreOfTheSubject
    BY DEF PreviewInv, PanesInv, PanesAreGood, Good, Kept, OfSubject, PatchesAreOfTheSubject
<1> QED
    BY <1>1, PreviewStaysSound, PTL
-----------------------------------------------------------------------------
(* What is shown during a refresh.                                            *)

(* The shape of a pane: while it preserves a document, or prepares another,   *)
(* it knows the files that it shows; else they are those of its index, and    *)
(* each patch on display has been read from its workspace.                    *)
Shape(p) ==
    /\ IsInjective(p.request.files) /\ IsInjective(p.index) /\ IsInjective(p.document.headers)
    /\ IsFiniteSet(p.preserved)
    /\ DOMAIN p.document.patches \subseteq ToSet(p.document.headers)
    /\ p.indexed /\ ~ p.preserving =>
          /\ ~ p.document_loading /\ p.preserved = {}
          /\ ToSet(p.document.headers) \subseteq ToSet(p.index)
          /\ Len(p.index) > 1 => DOMAIN p.document.patches \subseteq DOMAIN p.documents
    /\ ~ p.indexed \/ p.preserving => ToSet(p.document.headers) \subseteq p.preserved

Reached(p, f) == f \in DOMAIN p.documents \/ f = p.loading \/ f \in ToSet(p.pending)

(* The files that a refresh has to read before it replaces the document: those *)
(* that are on display and unfolded, and are still part of the diff.          *)
Refreshes(p, fold) ==
    p.preserving /\ p.indexed /\ p.document_loading /\ Len(p.document.headers) > 1 =>
        \A f \in ToSet(p.document.headers) \cap ToSet(p.index) :
            Collapsed(p, fold, f) \/ Reached(p, f)

SameShown(p, q) ==
    /\ q.request = p.request /\ q.workspace = p.workspace
    /\ q.indexed = p.indexed /\ q.index = p.index
    /\ q.preserving = p.preserving /\ q.preserved = p.preserved
    /\ q.documents = p.documents /\ q.document = p.document
    /\ q.collapsed = p.collapsed /\ q.expanded = p.expanded

LEMMA ReadsShown ==
    ASSUME NEW p \in Pane, NEW q, OnlyReads(p, q)
    PROVE  SameShown(p, q) /\ q.document_loading = p.document_loading
<1>1. PICK l, w : q = [p EXCEPT !.loading = l, !.pending = w]
    BY DEF OnlyReads
<1>2. /\ q.request = p.request /\ q.workspace = p.workspace
      /\ q.indexed = p.indexed /\ q.index = p.index
      /\ q.preserving = p.preserving /\ q.preserved = p.preserved
    BY <1>1 DEF Pane
<1>3. /\ q.documents = p.documents /\ q.document = p.document
      /\ q.collapsed = p.collapsed /\ q.expanded = p.expanded
      /\ q.document_loading = p.document_loading
    BY <1>1 DEF Pane
<1> QED
    BY <1>2, <1>3 DEF SameShown

LEMMA ShapeStays ==
    ASSUME NEW p, Shape(p), NEW q, SameShown(p, q), q.document_loading => p.document_loading
    PROVE  Shape(q)
BY DEF Shape, SameShown

LEMMA CollapsedStays ==
    ASSUME NEW p, NEW q, SameShown(p, q), NEW fold, NEW f
    PROVE  Collapsed(q, fold, f) <=> Collapsed(p, fold, f)
BY DEF Collapsed, Collapsible, SameShown

LEMMA RefreshesStays ==
    ASSUME NEW p, NEW q, SameShown(p, q), NEW fold, Refreshes(p, fold),
           q.document_loading => p.document_loading,
           \A f \in ToSet(p.index) : Reached(p, f) => Collapsed(p, fold, f) \/ Reached(q, f)
    PROVE  Refreshes(q, fold)
<1>1. \A f : Collapsed(q, fold, f) <=> Collapsed(p, fold, f)
    BY CollapsedStays
<1> QED
    BY <1>1 DEF Refreshes, SameShown

LEMMA WithFileReaches ==
    ASSUME NEW p, Good(p), NEW f
    PROVE  /\ \A g \in Files : Reached(p, g) => Reached(WithFile(p, f), g)
           /\ p.workspace # 0 /\ f \in ToSet(p.index) => Reached(WithFile(p, f), f)
<1> DEFINE q == WithFile(p, f)
           refused == \/ p.workspace = 0 \/ f \notin ToSet(p.index) \/ f \in DOMAIN p.documents
                      \/ f = p.loading \/ f \in ToSet(p.pending)
<1>0. p \in Pane /\ p.pending \in Seq(Files) /\ ToSet(p.index) \in SUBSET Files
      /\ NoFile \notin Files
    BY FilesOfList, PreviewAssumption DEF Good, Pane
<1>1. CASE refused
    <2>1. q = p
        BY <1>1 DEF WithFile
    <2> QED
        BY <1>1, <2>1 DEF Reached
<1>2. CASE ~ refused /\ p.loading # NoFile
    <2>1. q = [p EXCEPT !.pending = Append(p.pending, f)] /\ f \in Files
        BY <1>0, <1>2 DEF WithFile
    <2>2. /\ DOMAIN Append(p.pending, f) = 1 .. Len(p.pending) + 1
          /\ \A i \in 1 .. Len(p.pending) : Append(p.pending, f)[i] = p.pending[i]
          /\ Append(p.pending, f)[Len(p.pending) + 1] = f
          /\ DOMAIN p.pending = 1 .. Len(p.pending) /\ Len(p.pending) \in Nat
          /\ Append(p.pending, f) \in Seq(Files)
        BY <1>0, <2>1, AppendProperties, LenProperties
    <2>3. ToSet(Append(p.pending, f)) = ToSet(p.pending) \cup {f}
        BY <2>2 DEF ToSet
    <2>4. q.pending = Append(p.pending, f) /\ q.loading = p.loading /\ q.documents = p.documents
        BY <1>0, <2>1, <2>2 DEF Pane
    <2> QED
        BY <2>3, <2>4 DEF Reached
<1>3. CASE ~ refused /\ p.loading = NoFile
    <2>1. q = [p EXCEPT !.loading = f]
        BY <1>3 DEF WithFile
    <2>2. q.pending = p.pending /\ q.loading = f /\ q.documents = p.documents
        BY <1>0, <2>1 DEF Pane
    <2> QED
        BY <1>0, <1>3, <2>2 DEF Reached
<1> QED
    BY <1>1, <1>2, <1>3

(* By induction on the length of the list. *)
LEMMA WithFilesReaches ==
    ASSUME NEW p, Good(p), NEW files \in Seq(Files), NEW S
    PROVE  /\ \A g \in Files : Reached(p, g) => Reached(WithFiles(p, files, S), g)
           /\ p.workspace # 0 => \A g \in S : g \in ToSet(files) /\ g \in ToSet(p.index) =>
                 Reached(WithFiles(p, files, S), g)
<1>0. Len(files) \in Nat /\ DOMAIN files = 1 .. Len(files)
    BY LenProperties
<1>1. PICK f : WithSome(p, files, S, f) /\ WithFiles(p, files, S) = f[Len(files)]
    BY <1>0, WithFilesIsLast
<1> DEFINE Listed(i, g) == \E j \in 1 .. i : g = files[j]
           Due(i, g) ==
               \/ Reached(p, g)
               \/ p.workspace # 0 /\ g \in S /\ g \in ToSet(p.index) /\ Listed(i, g)
           Does(i) ==
               /\ Good(f[i]) /\ OnlyReads(p, f[i])
               /\ \A g \in Files : Due(i, g) => Reached(f[i], g)
           Bad == {i \in 0 .. Len(files) : ~ Does(i)}
<1>2. Bad = {}
    <2> SUFFICES ASSUME Bad # {} PROVE FALSE
        OBVIOUS
    <2>0. Bad \in SUBSET Nat
        BY <1>0
    <2>1. PICK n \in Bad : \A m \in Bad : n <= m
        <3> HIDE DEF Bad
        <3> QED
            BY <2>0, LeastNatural
    <2>2. n # 0
        <3>1. f[0] = p
            BY <1>0, <1>1 DEF WithSome
        <3>2. OnlyReads(p, p)
            BY DEF OnlyReads, Good, Pane
        <3>3. Does(0)
            BY <3>1, <3>2
        <3> QED
            BY <2>1, <3>3
    <2>3. n \in 1 .. Len(files) /\ n - 1 \in 0 .. Len(files) /\ n - 1 \notin Bad
        BY <1>0, <2>1, <2>2
    <2>4. Does(n - 1)
        BY <2>3
    <2>5. f[n] = IF files[n] \in S THEN WithFile(f[n - 1], files[n]) ELSE f[n - 1]
        BY <1>0, <1>1, <2>3 DEF WithSome
    <2>6. PICK q, r, file : q = f[n - 1] /\ r = f[n] /\ file = files[n]
        OBVIOUS
    <2>7. Good(q) /\ OnlyReads(p, q) /\ (\A g \in Files : Due(n - 1, g) => Reached(q, g))
        BY <2>4, <2>6
    <2> HIDE DEF Due
    <2>8. Good(r) /\ OnlyReads(q, r)
        <3>1. OnlyReads(q, q)
            BY <2>7 DEF OnlyReads, Good, Pane
        <3> QED
            BY <2>5, <2>6, <2>7, <3>1, WithFileReads
    <2>9. OnlyReads(p, r)
        BY <2>7, <2>8, ReadsAgain DEF Good
    <2>10. q.workspace = p.workspace /\ q.index = p.index
        BY <2>7, ReadsShown DEF Good, SameShown
    <2>11. /\ \A g \in Files : Reached(q, g) => Reached(r, g)
           /\ file \in S /\ p.workspace # 0 /\ file \in ToSet(p.index) => Reached(r, file)
        BY <2>5, <2>6, <2>7, <2>10, WithFileReaches
    <2>12. ASSUME NEW g \in Files, Due(n, g) PROVE Reached(r, g)
        <3>1. Due(n - 1, g) \/ (g = file /\ p.workspace # 0 /\ file \in S /\ file \in ToSet(p.index))
            <4>1. \A j \in 1 .. n : j \in 1 .. n - 1 \/ j = n
                BY <2>3
            <4> QED
                BY <2>6, <2>12, <4>1 DEF Due
        <3> QED
            BY <2>7, <2>11, <3>1
    <2>13. Does(n)
        BY <2>6, <2>8, <2>9, <2>12
    <2> QED
        BY <2>1, <2>13
<1>3. Does(Len(files))
    BY <1>0, <1>2
<1>4. ASSUME NEW g \in ToSet(files) PROVE g \in Files /\ \E j \in 1 .. Len(files) : g = files[j]
    BY <1>0, <1>4, FilesOfList DEF ToSet
<1> QED
    BY <1>1, <1>3, <1>4

LEMMA ListIsFinite ==
    ASSUME NEW s \in Seq(Files)
    PROVE  IsFiniteSet(ToSet(s))
<1>1. DOMAIN s = 1 .. Len(s) /\ Len(s) \in Int
    BY LenProperties
<1>2. IsFiniteSet(1 .. Len(s))
    BY <1>1, FS_Interval
<1>3. s \in Surjection(1 .. Len(s), ToSet(s))
    BY <1>1 DEF Surjection, ToSet
<1> QED
    BY <1>2, <1>3, FS_Surjection

LEMMA TwoFiles ==
    ASSUME NEW s \in Seq(Files), IsInjective(s), Len(s) > 1,
           NEW S, IsFiniteSet(S), ToSet(s) \subseteq S
    PROVE  ~ (Cardinality(S) <= 1)
<1>1. DOMAIN s = 1 .. Len(s) /\ Len(s) \in Nat
    BY LenProperties
<1>2. s[1] \in S /\ s[2] \in S /\ s[1] # s[2]
    BY <1>1 DEF ToSet, IsInjective
<1>3. IsFiniteSet({s[1]}) /\ Cardinality({s[1]}) = 1
    BY FS_Singleton
<1>4. Cardinality({s[1]} \cup {s[2]}) = 2
    <2>1. PICK a : a = s[1]
        OBVIOUS
    <2>2. PICK b : b = s[2]
        OBVIOUS
    <2>3. b \notin {a} /\ IsFiniteSet({a}) /\ Cardinality({a}) = 1
        BY <1>2, <1>3, <2>1, <2>2
    <2>4. Cardinality({a} \cup {b}) = Cardinality({a}) + 1
        BY <2>3, FS_AddElement
    <2> QED
        BY <2>1, <2>2, <2>3, <2>4
<1>5. Cardinality({s[1]} \cup {s[2]}) <= Cardinality(S) /\ Cardinality(S) \in Nat
    <2>1. {s[1]} \cup {s[2]} \in SUBSET S
        BY <1>2
    <2> QED
        BY <2>1, FS_Subset, FS_CardinalityType
<1> QED
    BY <1>4, <1>5

LEMMA RebuiltShows ==
    ASSUME NEW p, Good(p), NEW fold
    PROVE  LET q == Rebuilt(p, fold) IN
           /\ q.document.headers = p.index
           /\ DOMAIN q.document.patches = Open(p, fold) \cap DOMAIN p.documents
           /\ q.preserved = p.preserved /\ q.documents = p.documents
<1> DEFINE S == Open(p, fold) \cap DOMAIN p.documents
           d == [headers |-> p.index, open |-> Open(p, fold), patches |-> Restrict(p.documents, S)]
<1>1. d.headers = p.index /\ DOMAIN d.patches = S
    BY DEF Restrict
<1>2. Rebuilt(p, fold) = [p EXCEPT !.document = d] /\ p \in Pane
    BY DEF Rebuilt, Good
<1> HIDE DEF d
<1> QED
    BY <1>1, <1>2 DEF Pane

(* A file that is unfolded when its document is replaced stays open, unless   *)
(* it was shown alone.                                                        *)
LEMMA FinalizedShows ==
    ASSUME NEW p, Good(p), NEW fold
    PROVE  LET q == Finalized(p, fold) IN
           /\ q.preserved = {} /\ q.documents = p.documents /\ q.document = p.document
           /\ \A f \in ToSet(p.index) :
                 /\ IF fold.all THEN f \in p.expanded ELSE f \notin p.collapsed
                 /\ f \in p.preserved /\ ~ (Cardinality(p.preserved) <= 1)
                 => f \in Open(q, fold)
<1> DEFINE files == ToSet(p.index)
           new   == IF fold.all \/ fold.preferred \/ Len(p.index) <= 1 THEN {}
                    ELSE IF Cardinality(p.preserved) <= 1 THEN files ELSE files \ p.preserved
           first == IF p.selected \in files THEN p.selected
                    ELSE IF p.index = <<>> THEN NoFile ELSE p.index[1]
           coll  == (p.collapsed \cap files) \cup new
           exp   == p.expanded \cap files
           q     == Finalized(p, fold)
<1>0. p \in Pane
    BY DEF Good
<1>1. q = [p EXCEPT !.collapsed = coll, !.expanded = exp, !.selected = first,
                    !.preserving = FALSE, !.preserved = {}]
    BY <1>0 DEF Finalized, Pane
<1>2. ASSUME NEW f \in files,
             IF fold.all THEN f \in p.expanded ELSE f \notin p.collapsed,
             f \in p.preserved, ~ (Cardinality(p.preserved) <= 1)
      PROVE  IF fold.all THEN f \in exp ELSE f \notin coll
    BY <1>2
<1> HIDE DEF coll, exp, first, new, files, q
<1>3. /\ q.preserved = {} /\ q.documents = p.documents /\ q.document = p.document
      /\ q.index = p.index /\ q.collapsed = coll /\ q.expanded = exp
    BY <1>0, <1>1 DEF Pane
<1>4. ASSUME NEW f \in files,
             IF fold.all THEN f \in p.expanded ELSE f \notin p.collapsed,
             f \in p.preserved, ~ (Cardinality(p.preserved) <= 1)
      PROVE  f \in Open(q, fold)
    BY <1>2, <1>3, <1>4 DEF Open, files
<1> QED
    BY <1>3, <1>4 DEF q, files

LEMMA OpenIsListed ==
    ASSUME NEW p, NEW fold
    PROVE  Open(p, fold) \subseteq ToSet(p.index)
BY DEF Open

LEMMA RebuiltShapes ==
    ASSUME NEW p, Good(p), NEW fold, IsInjective(p.request.files), IsInjective(p.index),
           ~ p.preserving, ~ p.document_loading, p.preserved = {}, p.indexed
    PROVE  Shape(Rebuilt(p, fold)) /\ Refreshes(Rebuilt(p, fold), fold)
<1> DEFINE q == Rebuilt(p, fold)
<1>1. /\ q.document.headers = p.index
      /\ DOMAIN q.document.patches = Open(p, fold) \cap DOMAIN p.documents
      /\ q.preserved = p.preserved /\ q.documents = p.documents
      /\ SameWork(p, q) /\ SameReads(p, q) /\ q.preserving = p.preserving
    BY RebuiltShows, RebuiltKeeps
<1>2. IsFiniteSet(q.preserved)
    BY <1>1, FS_EmptySet
<1> HIDE DEF q
<1>3. Shape(q) /\ Refreshes(q, fold)
    BY <1>1, <1>2, OpenIsListed DEF Shape, Refreshes, SameWork, SameReads
<1> QED
    BY <1>3 DEF q

(* What a step may do to the patches on display, of the files of a list.      *)
Stays(p, q, fold, files) ==
    \A f \in DOMAIN p.document.patches :
        \/ f \notin ToSet(files)
        \/ Collapsed(p, fold, f)
        \/ Len(p.document.headers) = 1 /\ Len(files) > 1
        \/ f \in DOMAIN q.document.patches

(* Once all files are read, a refresh replaces the document.                  *)
LEMMA NextFileShows ==
    ASSUME NEW p, Good(p), Shape(p), p.loading = NoFile, NEW fold,
           p.document_loading => Len(p.index) # 1
    PROVE  LET q == WithNextFile(p, fold) IN
           /\ Shape(q)
           /\ Refreshes(p, fold) => Refreshes(q, fold) /\ Stays(p, q, fold, p.index)
           /\ ~ p.document_loading \/ ~ p.indexed => q.document = p.document
<1> DEFINE wanted(f) == ~ Collapsed(p, fold, f) /\ f \notin DOMAIN p.documents
           I == {i \in 1 .. Len(p.pending) : wanted(p.pending[i])}
           i == SelectInSeq(p.pending, wanted)
           q == WithNextFile(p, fold)
<1>0. /\ p \in Pane /\ p.pending \in Seq(Files) /\ p.index \in Seq(Files)
      /\ p.document.headers \in Seq(Files)
      /\ Kept(p) /\ Queued(p)
      /\ DOMAIN p.pending = 1 .. Len(p.pending) /\ Len(p.pending) \in Nat
      /\ NoFile \notin ToSet(p.index)
    BY LenProperties, FilesOfList DEF Good, Pane
<1>1. CASE I # {}
    <2>1. \E n \in I : \A m \in I : n <= m
        <3>1. I \in SUBSET Nat
            BY <1>0
        <3> HIDE DEF I
        <3> QED
            BY <1>1, <3>1, LeastNatural
    <2>2. i = CHOOSE x \in I : \A y \in I : x <= y
        BY <1>1 DEF SelectInSeq, Min
    <2>3. i \in I /\ \A m \in I : i <= m
        BY <2>1, <2>2
    <2>4. i \in DOMAIN p.pending /\ i # 0 /\ wanted(p.pending[i])
        BY <1>0, <2>3
    <2> DEFINE rest == SubSeq(p.pending, i + 1, Len(p.pending))
               r == [p EXCEPT !.pending = rest]
               f == p.pending[i]
    <2>5. q = WithFile(r, f)
        BY <2>4 DEF WithNextFile
    <2>6. f \notin DOMAIN p.documents
        BY <2>4
    <2>7. \A g \in ToSet(p.pending) :
             g = f \/ g \in ToSet(rest) \/ Collapsed(p, fold, g) \/ g \in DOMAIN p.documents
        <3>1. PICK n : n = Len(p.pending)
            OBVIOUS
        <3>2. PICK j : j = i
            OBVIOUS
        <3>3. PICK tail : tail = rest
            OBVIOUS
        <3>4. n \in Nat /\ DOMAIN p.pending = 1 .. n /\ j \in 1 .. n /\ f = p.pending[j]
            BY <1>0, <2>4, <3>1, <3>2
        <3>5. tail = SubSeq(p.pending, j + 1, n)
            BY <3>1, <3>2, <3>3
        <3>6. \A k \in 1 .. n : wanted(p.pending[k]) => j <= k
            BY <2>3, <3>1, <3>2
        <3> HIDE DEF i, I, rest
        <3>7. ASSUME NEW k \in 1 .. n, k > j
              PROVE  p.pending[k] \in ToSet(tail)
            <4>1. PICK d : d = k - j
                OBVIOUS
            <4>2. d \in 1 .. n - (j + 1) + 1 /\ (j + 1) + d - 1 = k /\ j + 1 \in Int /\ n \in Int
                BY <3>4, <3>7, <4>1
            <4>3. \A m \in j + 1 .. n : p.pending[m] \in Files
                BY <1>0, <3>4
            <4>4. /\ tail \in Seq(Files)
                  /\ Len(tail) = IF j + 1 <= n THEN n - (j + 1) + 1 ELSE 0
                  /\ \A m \in 1 .. n - (j + 1) + 1 : tail[m] = p.pending[(j + 1) + m - 1]
                BY <3>5, <4>2, <4>3, SubSeqProperties
            <4>5. Len(tail) = n - (j + 1) + 1
                BY <3>4, <3>7, <4>4
            <4>6. DOMAIN tail = 1 .. n - (j + 1) + 1
                BY <4>4, <4>5, LenProperties
            <4>7. tail[d] = p.pending[k] /\ d \in DOMAIN tail
                BY <4>2, <4>4, <4>6
            <4> QED
                BY <4>7 DEF ToSet
        <3>8. ASSUME NEW k \in 1 .. n
              PROVE  \/ p.pending[k] = f \/ p.pending[k] \in ToSet(tail)
                     \/ ~ wanted(p.pending[k])
            <4>1. CASE k < j
                BY <3>4, <3>6, <4>1
            <4>2. CASE k = j
                BY <3>4, <4>2
            <4>3. CASE k > j
                BY <3>7, <4>3
            <4> QED
                BY <3>4, <4>1, <4>2, <4>3
        <3>9. ASSUME NEW g \in ToSet(p.pending)
              PROVE  \/ g = f \/ g \in ToSet(tail)
                     \/ Collapsed(p, fold, g) \/ g \in DOMAIN p.documents
            <4>1. PICK k \in 1 .. n : g = p.pending[k]
                BY <3>4 DEF ToSet
            <4>2. g = f \/ g \in ToSet(tail) \/ ~ wanted(g)
                BY <3>8, <4>1
            <4> QED
                BY <4>2
        <3> QED
            BY <3>3, <3>9
    <2> HIDE DEF q, I
    <2>61. /\ rest \in Seq(Files) /\ ToSet(rest) \subseteq ToSet(p.pending)
           /\ f \in ToSet(p.pending) /\ f \notin ToSet(rest)
           /\ \A j, k \in DOMAIN rest : rest[j] = rest[k] => j = k
        <3> HIDE DEF i
        <3> QED
            BY <1>0, <2>4, RestOfList DEF Queued
    <2> HIDE DEF i, rest, f
    <2>8. /\ r \in Pane /\ r.pending = rest /\ SameWork(p, r) /\ SameShown(p, r)
          /\ r.loading = p.loading /\ r.document_loading = p.document_loading
        BY <1>0, <2>61 DEF Pane, SameWork, SameShown
    <2> HIDE DEF r
    <2>9. Good(r)
        BY <1>0, <2>61, <2>8 DEF Good, Kept, Queued, SameWork, SameShown
    <2>10. Good(q) /\ OnlyReads(r, q)
        BY <2>5, <2>9, WithFileReads
    <2>11. SameShown(r, q) /\ q.document_loading = r.document_loading
        BY <2>8, <2>10, ReadsShown
    <2>12. SameShown(p, q) /\ q.document_loading = p.document_loading
        BY <2>8, <2>11 DEF SameShown
    <2>13. f \in ToSet(p.index) /\ f # NoFile /\ p.workspace # 0
        BY <1>0, <2>61, FilesOfList DEF Queued, Kept
    <2>14. /\ \A g \in Files : Reached(r, g) => Reached(q, g)
           /\ Reached(q, f)
        BY <2>5, <2>8, <2>9, <2>13, WithFileReaches DEF SameWork
    <2>15. ASSUME NEW g \in ToSet(p.index), Reached(p, g)
           PROVE  Collapsed(p, fold, g) \/ Reached(q, g)
        <3>1. g \in Files /\ g # NoFile
            BY <1>0, FilesOfList
        <3>2. g \in DOMAIN p.documents => Reached(r, g)
            BY <2>8 DEF Reached, SameShown
        <3>3. g \in ToSet(rest) => Reached(r, g)
            BY <2>8 DEF Reached
        <3>4. g \in DOMAIN p.documents \/ g \in ToSet(p.pending)
            BY <2>15, <3>1 DEF Reached
        <3> QED
            BY <2>7, <2>14, <3>1, <3>2, <3>3, <3>4
    <2>16. Refreshes(p, fold) => Refreshes(q, fold)
        BY <2>12, <2>15, RefreshesStays
    <2>17. Shape(q) /\ q.document = p.document
        BY <2>12, ShapeStays DEF SameShown
    <2> QED
        BY <2>16, <2>17 DEF Stays, q
<1>2. CASE I = {}
    <2> DEFINE r == [p EXCEPT !.pending = <<>>]
               t == IF p.preserving THEN Finalized(r, fold) ELSE r
               u == [t EXCEPT !.document_loading = FALSE]
    <2>1. i = 0
        BY <1>2 DEF SelectInSeq
    <2>2. q = IF r.document_loading /\ r.indexed THEN Rebuilt(u, fold) ELSE r
        BY <2>1 DEF WithNextFile
    <2>20. \A g \in ToSet(p.pending) : Collapsed(p, fold, g) \/ g \in DOMAIN p.documents
        <3>1. \A k \in DOMAIN p.pending : ~ wanted(p.pending[k])
            BY <1>0, <1>2
        <3> QED
            BY <3>1 DEF ToSet
    <2> HIDE DEF i, I, q
    <2> DEFINE nothing == <<>>
    <2>31. nothing \in Seq(Files)
        OBVIOUS
    <2>32. r = [p EXCEPT !.pending = nothing]
        OBVIOUS
    <2>33. r.pending = <<>>
        BY <1>0 DEF Pane
    <2> HIDE DEF nothing, r
    <2>3. /\ r \in Pane /\ r.pending = <<>> /\ SameWork(p, r) /\ SameShown(p, r)
          /\ r.loading = p.loading /\ r.document_loading = p.document_loading
        BY <1>0, <2>31, <2>32, <2>33 DEF Pane, SameWork, SameShown
    <2>4. ToSet(r.pending) = {}
        BY <2>3 DEF ToSet
    <2>5. Good(r)
        BY <1>0, <2>3, <2>4 DEF Good, Kept, Queued, SameWork, SameShown
    <2>6. ASSUME NEW g \in ToSet(p.index), Reached(p, g)
          PROVE  Collapsed(p, fold, g) \/ g \in DOMAIN p.documents
        <3>1. g # NoFile
            BY <1>0
        <3> QED
            BY <2>6, <2>20, <3>1 DEF Reached
    <2>7. CASE ~ (r.document_loading /\ r.indexed)
        <3>1. q = r
            BY <2>2, <2>7
        <3>2. Refreshes(p, fold) => Refreshes(q, fold)
            BY <2>3, <2>7, <3>1 DEF Refreshes
        <3>3. Shape(q) /\ q.document = p.document
            BY <2>3, <3>1, ShapeStays DEF SameShown
        <3> QED
            BY <3>2, <3>3 DEF Stays, q
    <2>8. CASE r.document_loading /\ r.indexed
        <3>0. p.preserving /\ p.indexed /\ p.document_loading /\ Len(p.index) # 1
            BY <2>3, <2>8 DEF Shape, SameShown
        <3>1. /\ Good(t) /\ SameWork(r, t) /\ ~ t.preserving /\ t.preserved = {}
              /\ t.documents = p.documents
              /\ \A f \in ToSet(p.index) :
                    /\ IF fold.all THEN f \in p.expanded ELSE f \notin p.collapsed
                    /\ f \in p.preserved /\ ~ (Cardinality(p.preserved) <= 1)
                    => f \in Open(t, fold)
            <4>1. t = Finalized(r, fold)
                BY <3>0
            <4>2. PICK z : z = Finalized(r, fold)
                OBVIOUS
            <4>3. Good(z) /\ SameWork(r, z) /\ ~ z.preserving
                BY <2>5, <4>2, FinalizedKeeps
            <4>4. /\ z.preserved = {} /\ z.documents = r.documents
                  /\ \A f \in ToSet(r.index) :
                        /\ IF fold.all THEN f \in r.expanded ELSE f \notin r.collapsed
                        /\ f \in r.preserved /\ ~ (Cardinality(r.preserved) <= 1)
                        => f \in Open(z, fold)
                BY <2>5, <4>2, FinalizedShows
            <4>5. /\ r.index = p.index /\ r.documents = p.documents /\ r.preserved = p.preserved
                  /\ r.expanded = p.expanded /\ r.collapsed = p.collapsed
                BY <2>3 DEF SameShown
            <4>6. t = z
                BY <4>1, <4>2
            <4> HIDE DEF t
            <4> QED
                BY <4>3, <4>4, <4>5, <4>6
        <3> HIDE DEF t
        <3>2. /\ u \in Pane /\ SameWork(t, u) /\ u.loading = t.loading /\ u.pending = t.pending
              /\ ~ u.document_loading /\ u.documents = t.documents /\ u.document = t.document
              /\ ~ u.preserving /\ u.preserved = {} /\ u.collapsed = t.collapsed
              /\ u.expanded = t.expanded
            <4>1. t \in Pane
                BY <3>1 DEF Good
            <4>2. u \in Pane /\ ~ u.document_loading
                BY <4>1 DEF Pane
            <4>3. SameWork(t, u) /\ u.loading = t.loading /\ u.pending = t.pending
                BY <4>1 DEF Pane, SameWork
            <4>4. /\ u.documents = t.documents /\ u.document = t.document
                  /\ u.preserving = t.preserving /\ u.preserved = t.preserved
                  /\ u.collapsed = t.collapsed /\ u.expanded = t.expanded
                BY <4>1 DEF Pane
            <4> QED
                BY <3>1, <4>2, <4>3, <4>4
        <3> HIDE DEF u
        <3>3. Good(u)
            BY <3>1, <3>2 DEF Good, Kept, Queued, SameWork
        <3>4. q = Rebuilt(u, fold) /\ u.index = p.index /\ u.request = p.request /\ u.indexed
            BY <2>2, <2>3, <2>8, <3>0, <3>1, <3>2 DEF SameWork
        <3>5. Shape(q) /\ Refreshes(q, fold)
            BY <3>2, <3>3, <3>4, RebuiltShapes DEF Shape
        <3>6. DOMAIN q.document.patches = Open(u, fold) \cap DOMAIN p.documents
            BY <3>1, <3>2, <3>3, <3>4, RebuiltShows
        <3>7. Open(u, fold) = Open(t, fold)
            BY <3>1, <3>2 DEF Open, SameWork
        <3>8. ASSUME Refreshes(p, fold) PROVE Stays(p, q, fold, p.index)
            <4> SUFFICES ASSUME NEW f \in DOMAIN p.document.patches, f \in ToSet(p.index),
                                ~ Collapsed(p, fold, f),
                                ~ (Len(p.document.headers) = 1 /\ Len(p.index) > 1)
                         PROVE  f \in DOMAIN q.document.patches
                BY DEF Stays
            <4>1. f \in ToSet(p.document.headers) /\ f \in p.preserved
                BY <3>0 DEF Shape
            <4>2. Len(p.document.headers) > 1
                <5>1. Len(p.index) \in Nat /\ Len(p.document.headers) \in Nat
                    BY <1>0, LenProperties
                <5>2. Len(p.index) # 0 /\ Len(p.document.headers) # 0
                    <6>1. DOMAIN p.index = 1 .. Len(p.index)
                          /\ DOMAIN p.document.headers = 1 .. Len(p.document.headers)
                        BY <1>0, LenProperties
                    <6>2. DOMAIN p.index # {} /\ DOMAIN p.document.headers # {}
                        BY <3>8, <4>1 DEF ToSet
                    <6> QED
                        BY <6>1, <6>2
                <5>3. PICK m, n : m = Len(p.index) /\ n = Len(p.document.headers)
                    OBVIOUS
                <5>4. m \in Nat \ {0, 1} /\ n \in Nat \ {0} /\ ~ (n = 1 /\ m > 1)
                    BY <3>0, <3>8, <5>1, <5>2, <5>3
                <5>5. n > 1
                    BY <5>4
                <5> QED
                    BY <5>3, <5>5
            <4>3. f \in DOMAIN p.documents
                BY <2>6, <3>0, <3>8, <4>1, <4>2 DEF Refreshes
            <4>4. IF fold.all THEN f \in p.expanded ELSE f \notin p.collapsed
                BY <3>0, <4>2 DEF Collapsed, Collapsible
            <4>5. ~ (Cardinality(p.preserved) <= 1)
                BY <1>0, <3>0, <4>2, TwoFiles DEF Shape
            <4> QED
                BY <3>1, <3>6, <3>7, <4>1, <4>3, <4>4, <4>5
        <3> QED
            BY <3>0, <3>5, <3>8 DEF q
    <2> QED
        BY <2>7, <2>8
<1> QED
    BY <1>1, <1>2

(* An index: a refresh begins to read what is unfolded on display, and a new  *)
(* document is shown at once.                                                 *)
LEMMA IndexedShows ==
    ASSUME NEW p, Good(p), Shape(p), p.workspace = 0, generation \in Generation,
           NEW files \in Seq(Files), IsInjective(files),
           p.preserving \/ p.preserved = {}, NEW fold
    PROVE  LET q == Indexed(p, files, fold) IN
           /\ Shape(q) /\ Refreshes(q, fold)
           /\ \A f \in DOMAIN p.document.patches :
                 f \notin ToSet(files) \/ f \in DOMAIN q.document.patches
<1> DEFINE one == IF p.selected \in ToSet(files) THEN p.selected
                  ELSE IF files = <<>> THEN NoFile ELSE files[1]
           q == [p EXCEPT !.workspace = generation, !.indexed = TRUE, !.index = files,
                          !.documents = NoPatches, !.loading = NoFile]
           closed == IF Len(files) > 1 /\ ~ fold.all /\ ~ fold.preferred
                     THEN ToSet(files) ELSE {}
           new == [q EXCEPT !.document_loading = FALSE, !.selected = one, !.expanded = {},
                            !.collapsed = closed]
           r == IF p.preserving THEN q ELSE Rebuilt(new, fold)
           opens == {f \in ToSet(files) : IF p.preserving THEN ~ WillBeCollapsed(r, fold, f)
                                          ELSE ~ Collapsed(r, fold, f)}
           t == IF one \in opens \cup {NoFile} THEN r ELSE WithFile(r, one)
           s == WithFiles(t, files, opens)
           z == Indexed(p, files, fold)
<1>1. z = IF s.loading = NoFile /\ s.pending = <<>> THEN WithNextFile(s, fold) ELSE s
    BY DEF Indexed
<1>2. /\ p \in Pane /\ Idle(p) /\ ToSet(files) \in SUBSET Files /\ generation # 0
      /\ DOMAIN files = 1 .. Len(files) /\ Len(files) \in Nat
      /\ NoPatches \in Patches /\ DOMAIN NoPatches = {} /\ NoFile \notin ToSet(files)
    BY GoodWhenIdle, FilesOfList, NoPatchesTyped DEF Good, Generation
<1>3. one \in Files \cup {NoFile} /\ closed \in SUBSET Files
    BY <1>2, EmptySeq DEF Pane
<1>31. files # <<>> => one \in ToSet(files)
    BY <1>2, EmptySeq DEF ToSet
<1> HIDE DEF z, s, t, r, new, closed, one
<1>4. q \in Pane
    BY <1>2 DEF Pane
<1>5. /\ q.workspace = generation /\ q.indexed /\ q.index = files /\ q.documents = NoPatches
      /\ q.loading = NoFile /\ q.pending = <<>> /\ q.request = p.request
      /\ q.comparing = p.comparing /\ q.document = p.document
      /\ q.preserving = p.preserving /\ q.preserved = p.preserved
      /\ q.collapsed = p.collapsed /\ q.expanded = p.expanded
    BY <1>2 DEF Pane, Idle
<1> HIDE DEF q
<1>6. Kept(q)
    BY <1>2, <1>5 DEF Good, Kept, OfSubject
<1>7. Queued(q)
    <2>1. ToSet(q.pending) = {} /\ DOMAIN q.pending = {}
        BY <1>5, NothingTyped
    <2> QED
        BY <1>5, <2>1 DEF Queued
<1>8. Good(q)
    BY <1>4, <1>6, <1>7 DEF Good
<1>9. new \in Pane /\ SameWork(q, new) /\ new.loading = NoFile /\ new.pending = <<>>
      /\ new.documents = q.documents /\ new.document = q.document /\ ~ new.document_loading
      /\ new.preserving = p.preserving /\ new.preserved = p.preserved
    BY <1>3, <1>4, <1>5 DEF Pane, SameWork, new
<1>10. Good(new)
    BY <1>5, <1>6, <1>7, <1>9 DEF Good, Kept, Queued, SameWork
<1>11. /\ Good(r) /\ SameWork(q, r) /\ r.loading = NoFile /\ r.pending = <<>>
       /\ r.documents = NoPatches /\ r.preserving = p.preserving
       /\ p.preserving => r = q
       /\ ~ p.preserving => ~ r.document_loading
       /\ Shape(r)
    <2>1. CASE p.preserving
        <3>1. r = q
            BY <2>1 DEF r
        <3>2. Shape(q)
            BY <1>5, <2>1 DEF Shape
        <3> QED
            BY <1>5, <1>8, <2>1, <3>1, <3>2 DEF SameWork
    <2>2. CASE ~ p.preserving
        <3>1. r = Rebuilt(new, fold)
            BY <2>2 DEF r
        <3>2. /\ Good(r) /\ SameWork(new, r) /\ SameReads(new, r) /\ r.preserving = new.preserving
              /\ r.documents = new.documents
            BY <1>10, <3>1, RebuiltKeeps, RebuiltShows
        <3>3. Shape(r)
            <4>1. /\ IsInjective(new.request.files) /\ IsInjective(new.index)
                  /\ ~ new.preserving /\ new.preserved = {} /\ new.indexed
                BY <1>5, <1>9, <2>2 DEF Shape, SameWork
            <4> QED
                BY <1>9, <1>10, <3>1, <4>1, RebuiltShapes
        <3> QED
            BY <1>5, <1>9, <2>2, <3>2, <3>3 DEF SameWork, SameReads
    <2> QED
        BY <2>1, <2>2
<1>12. /\ Good(t) /\ OnlyReads(r, t) /\ (\A g \in Files : Reached(r, g) => Reached(t, g))
       /\ one \in ToSet(files) /\ one \notin opens => Reached(t, one)
    <2> HIDE DEF opens
    <2>1. CASE one \in opens \cup {NoFile}
        <3>1. t = r
            BY <2>1 DEF t
        <3>2. OnlyReads(r, r)
            BY <1>11 DEF OnlyReads, Good, Pane
        <3> QED
            BY <1>2, <1>11, <2>1, <3>1, <3>2
    <2>2. CASE one \notin opens \cup {NoFile}
        <3>1. t = WithFile(r, one)
            BY <2>2 DEF t
        <3>2. r.workspace # 0 /\ r.index = files
            BY <1>2, <1>5, <1>11 DEF SameWork
        <3> QED
            BY <1>11, <3>1, <3>2, WithFileReads, WithFileReaches
    <2> QED
        BY <2>1, <2>2
<1>13. SameShown(r, t) /\ t.document_loading = r.document_loading
    BY <1>11, <1>12, ReadsShown DEF Good
<1>14. /\ Good(s) /\ OnlyReads(t, s) /\ SameShown(t, s) /\ s.document_loading = t.document_loading
       /\ \A g \in Files : Reached(t, g) => Reached(s, g)
       /\ \A g \in opens : Reached(s, g)
    <2> DEFINE S == opens
    <2>1. \A g \in S : g \in ToSet(files)
        OBVIOUS
    <2> HIDE DEF opens
    <2>2. Good(s) /\ OnlyReads(t, s)
        BY <1>12, WithFilesReads DEF s
    <2>3. SameShown(t, s) /\ s.document_loading = t.document_loading
        BY <1>12, <2>2, ReadsShown DEF Good
    <2>4. t.workspace # 0 /\ t.index = files
        BY <1>2, <1>5, <1>11, <1>13 DEF SameShown, SameWork
    <2> QED
        BY <1>12, <2>1, <2>2, <2>3, <2>4, WithFilesReaches DEF s
<1>15. SameShown(r, s) /\ s.document_loading = r.document_loading
    BY <1>13, <1>14 DEF SameShown
<1>16. Shape(s)
    BY <1>11, <1>15, ShapeStays
<1>17. Refreshes(s, fold)
    <2> SUFFICES ASSUME s.preserving, Len(s.document.headers) > 1,
                        NEW f \in ToSet(s.document.headers), f \in ToSet(s.index),
                        ~ Collapsed(s, fold, f)
                 PROVE  Reached(s, f)
        BY DEF Refreshes
    <2>1. p.preserving /\ r = q
        BY <1>11, <1>15 DEF SameShown
    <2>2. /\ s.document = p.document /\ s.index = files /\ s.preserved = p.preserved
          /\ s.collapsed = p.collapsed /\ s.expanded = p.expanded
          /\ r.index = files /\ r.preserved = p.preserved
          /\ r.collapsed = p.collapsed /\ r.expanded = p.expanded
        BY <1>5, <1>15, <2>1 DEF SameShown
    <2>3. f \in p.preserved /\ ~ (Cardinality(p.preserved) <= 1)
        <3>1. p.document.headers \in Seq(Files)
            BY <1>2 DEF Pane
        <3> QED
            BY <2>1, <2>2, <3>1, TwoFiles DEF Shape
    <2>4. IF fold.all THEN f \in s.expanded ELSE f \notin s.collapsed
        BY DEF Collapsed, Collapsible
    <2>5. ~ WillBeCollapsed(r, fold, f)
        BY <2>2, <2>3, <2>4 DEF WillBeCollapsed
    <2>6. f \in opens
        BY <2>1, <2>2, <2>5
    <2> QED
        BY <1>14, <2>6
<1>18. s.document = r.document /\ (p.preserving => s.document = p.document)
    BY <1>5, <1>11, <1>15 DEF SameShown
<1>19. ~ p.preserving => DOMAIN p.document.patches = {}
    <2> SUFFICES ASSUME ~ p.preserving PROVE DOMAIN p.document.patches = {}
        OBVIOUS
    <2>1. ToSet(p.document.headers) \subseteq p.preserved /\ p.preserved = {}
        BY <1>2 DEF Shape, Idle
    <2> QED
        BY <2>1 DEF Shape
<1>20. CASE s.loading = NoFile /\ s.pending = <<>>
    <2>1. files = <<>>
        <3> SUFFICES ASSUME files # <<>> PROVE FALSE
            OBVIOUS
        <3>1. one \in ToSet(files) /\ one \in Files /\ one # NoFile
            BY <1>2, <1>31
        <3>2. Reached(s, one)
            BY <1>12, <1>14, <3>1
        <3>3. s.documents = NoPatches /\ ToSet(s.pending) = {}
            BY <1>11, <1>15, <1>20, NothingTyped DEF SameShown
        <3> QED
            BY <1>2, <1>20, <3>1, <3>2, <3>3 DEF Reached
    <2>2. ToSet(files) = {} /\ Len(s.index) # 1
        <3>1. s.index = files
            BY <1>5, <1>11, <1>15 DEF SameShown, SameWork
        <3>2. ToSet(files) = {}
            BY <2>1, NothingTyped
        <3>3. Len(files) # 1
            BY <1>2, <3>2 DEF ToSet
        <3> QED
            BY <3>1, <3>2, <3>3
    <2>3. z = WithNextFile(s, fold)
        BY <1>1, <1>20
    <2>4. Shape(z) /\ Refreshes(z, fold)
        BY <1>14, <1>16, <1>17, <1>20, <2>2, <2>3, NextFileShows
    <2> QED
        BY <2>2, <2>4 DEF z
<1>21. CASE ~ (s.loading = NoFile /\ s.pending = <<>>)
    <2>1. z = s
        BY <1>1, <1>21
    <2> QED
        BY <1>16, <1>17, <1>18, <1>19, <2>1 DEF z
<1> QED
    BY <1>20, <1>21

(* A file that has been read.                                                 *)
LEMMA StoredShows ==
    ASSUME NEW p, Good(p), Shape(p), p.indexed, NEW fold, NEW f \in ToSet(p.index),
           NEW patch \in Patch,
           patch # Failed /\ p.request # NoRequest
              => patch.kind = p.request.kind /\ patch.name = p.request.name
    PROVE  LET q == Stored(p, fold, f, patch) IN
           /\ Shape(q)
           /\ \/ /\ ~ q.preserving /\ ~ q.document_loading
                 /\ patch # Failed => Stays(p, q, fold, p.index)
              \/ /\ Len(p.index) # 1
                 /\ SameShown(p, [q EXCEPT !.documents = p.documents])
                 /\ SameReads(p, q) /\ DOMAIN q.documents = DOMAIN p.documents \cup {f}
<1>0. p \in Pane /\ f \in Files /\ p.documents \in Patches /\ p.index \in Seq(Files)
      /\ DOMAIN p.index = 1 .. Len(p.index) /\ Len(p.index) \in Nat
    BY FilesOfList DEF Good, Pane
<1>1. CASE Len(p.index) = 1
    <2> DEFINE q == Stored(p, fold, f, patch)
               r == IF p.preserving THEN Finalized(p, fold) ELSE p
               one == [g \in {f} |-> patch]
               list == <<f>>
               alone == [headers |-> list, open |-> {f}, patches |-> one]
               d == IF patch = Failed THEN Blank ELSE alone
    <2>1. ToSet(p.index) = {f}
        BY <1>0, <1>1 DEF ToSet
    <2>2. q = [r EXCEPT !.document_loading = FALSE, !.document = d]
        BY <1>1 DEF Stored
    <2>3. DOMAIN one = {f}
        OBVIOUS
    <2>4. ToSet(list) = {f} /\ IsInjective(list)
        <3>1. DOMAIN list = {1} /\ list[1] = f
            OBVIOUS
        <3> HIDE DEF list
        <3> QED
            BY <3>1 DEF ToSet, IsInjective
    <2>5. /\ IsInjective(d.headers) /\ ToSet(d.headers) \subseteq {f}
          /\ DOMAIN d.patches \subseteq ToSet(d.headers)
          /\ patch # Failed => DOMAIN d.patches = {f}
        <3> HIDE DEF one, list
        <3>1. CASE patch = Failed
            <4>1. d.headers = <<>> /\ DOMAIN d.patches = {}
                BY <3>1, BlankTyped
            <4> HIDE DEF d
            <4> QED
                BY <3>1, <4>1, NothingTyped DEF IsInjective
        <3>2. CASE patch # Failed
            <4>1. d.headers = list /\ d.patches = one
                BY <3>2
            <4> HIDE DEF d
            <4> QED
                BY <2>3, <2>4, <4>1
        <3> QED
            BY <3>1, <3>2
    <2>6. /\ r \in Pane /\ SameWork(p, r) /\ ~ r.preserving /\ r.preserved = {}
        <3>1. CASE p.preserving
            <4>1. r = Finalized(p, fold)
                BY <3>1
            <4> HIDE DEF r
            <4> QED
                BY <4>1, FinalizedKeeps, FinalizedShows DEF Good
        <3>2. CASE ~ p.preserving
            BY <1>0, <3>2 DEF SameWork, Shape
        <3> QED
            BY <3>1, <3>2
    <2> HIDE DEF q, r, one, list, alone, d
    <2>7. /\ SameWork(r, q) /\ ~ q.document_loading /\ q.document = d
          /\ ~ q.preserving /\ q.preserved = {}
        BY <2>2, <2>6 DEF Pane, SameWork
    <2>8. SameWork(p, q)
        BY <2>6, <2>7 DEF SameWork
    <2>9. IsFiniteSet(q.preserved)
        BY <2>7, FS_EmptySet
    <2>10. Shape(q)
        <3>1. q.request = p.request /\ q.indexed = p.indexed /\ q.index = p.index
            BY <2>8 DEF SameWork
        <3>2. IsInjective(q.request.files) /\ IsInjective(q.index) /\ IsInjective(q.document.headers)
            BY <2>5, <2>7, <3>1 DEF Shape
        <3>3. /\ DOMAIN q.document.patches \subseteq ToSet(q.document.headers)
              /\ ToSet(q.document.headers) \subseteq ToSet(q.index)
            BY <2>1, <2>5, <2>7, <3>1
        <3>4. ~ (Len(q.index) > 1)
            <4>1. PICK n : n = Len(q.index)
                OBVIOUS
            <4>2. n = 1
                BY <1>1, <3>1, <4>1
            <4>3. ~ (n > 1)
                BY <4>2
            <4> QED
                BY <4>1, <4>3
        <3> QED
            BY <2>7, <2>9, <3>1, <3>2, <3>3, <3>4 DEF Shape
    <2>11. patch # Failed => Stays(p, q, fold, p.index)
        BY <2>1, <2>5, <2>7 DEF Stays
    <2> QED
        BY <2>7, <2>10, <2>11 DEF q
<1>2. CASE Len(p.index) # 1
    <2> DEFINE q == Stored(p, fold, f, patch)
               all == [g \in DOMAIN p.documents \cup {f} |->
                          IF g = f THEN patch ELSE p.documents[g]]
               r == [p EXCEPT !.documents = all]
    <2>1. q = IF r.document_loading \/ r.preserving THEN r ELSE Rebuilt(r, fold)
        BY <1>0, <1>2 DEF Stored, Pane
    <2>2. /\ DOMAIN p.documents \cup {f} \in SUBSET Files
          /\ \A g \in DOMAIN p.documents : p.documents[g] \in Patch
        BY <1>0, PatchesAreFunctions
    <2>3. /\ all \in [DOMAIN p.documents \cup {f} -> Patch]
          /\ DOMAIN all = DOMAIN p.documents \cup {f}
          /\ all[f] = patch /\ \A g \in DOMAIN p.documents : all[g] \in {patch, p.documents[g]}
        BY <2>2
    <2>4. all \in Patches
        <3> HIDE DEF all
        <3> QED
            BY <2>2, <2>3, FunctionsArePatches
    <2>5. p.request # NoRequest => OfSubject(all, p.request)
        <3> HIDE DEF all
        <3> QED
            BY <2>3 DEF Good, Kept, OfSubject
    <2>51. DOMAIN all \subseteq ToSet(p.index)
        <3> HIDE DEF all
        <3> QED
            BY <2>3 DEF Good, Kept
    <2> HIDE DEF all, q
    <2>6. /\ r \in Pane /\ SameWork(p, r) /\ SameReads(p, r) /\ r.documents = all
          /\ r.document = p.document /\ r.preserving = p.preserving
          /\ r.preserved = p.preserved /\ r.collapsed = p.collapsed /\ r.expanded = p.expanded
          /\ [r EXCEPT !.documents = p.documents] = p
        BY <1>0, <2>4 DEF Pane, SameWork, SameReads
    <2> HIDE DEF r
    <2>7. CASE r.document_loading \/ r.preserving
        <3>1. q = r
            BY <2>1, <2>7
        <3>2. Shape(r)
            BY <2>3, <2>6 DEF Shape, SameWork, SameReads
        <3>3. SameShown(p, p)
            BY DEF SameShown
        <3> QED
            BY <1>2, <2>3, <2>6, <3>1, <3>2, <3>3 DEF q
    <2>8. CASE ~ r.document_loading /\ ~ r.preserving
        <3>1. q = Rebuilt(r, fold)
            BY <2>1, <2>8
        <3>2. Good(r)
            <4>1. Kept(r)
                BY <2>5, <2>51, <2>6 DEF Good, Kept, SameWork
            <4>2. Queued(r)
                BY <2>6 DEF Good, Queued, SameWork, SameReads
            <4> QED
                BY <2>6, <4>1, <4>2 DEF Good
        <3>3. r.preserved = {} /\ r.indexed /\ IsInjective(r.request.files) /\ IsInjective(r.index)
            BY <2>6, <2>8 DEF Shape, SameWork
        <3>4. Shape(q) /\ ~ q.preserving /\ ~ q.document_loading
            BY <2>8, <3>1, <3>2, <3>3, RebuiltShapes, RebuiltKeeps DEF SameReads
        <3>5. Len(p.index) > 1 /\ DOMAIN p.document.patches \subseteq DOMAIN p.documents
            <4>1. Len(p.index) # 0
                <5>1. DOMAIN p.index # {}
                    BY DEF ToSet
                <5> QED
                    BY <1>0, <5>1
            <4>2. PICK n : n = Len(p.index)
                OBVIOUS
            <4>3. n \in Nat \ {0, 1}
                BY <1>0, <1>2, <4>1, <4>2
            <4>4. n > 1
                BY <4>3
            <4> QED
                BY <2>6, <2>8, <4>2, <4>4 DEF Shape
        <3>6. DOMAIN q.document.patches = Open(r, fold) \cap (DOMAIN p.documents \cup {f})
            BY <2>3, <2>6, <3>1, <3>2, RebuiltShows
        <3>7. ASSUME NEW g \in ToSet(p.index), ~ Collapsed(p, fold, g) PROVE g \in Open(r, fold)
            <4>1. IF fold.all THEN g \in p.expanded ELSE g \notin p.collapsed
                BY <2>6, <2>8, <3>5, <3>7 DEF Collapsed, Collapsible
            <4> QED
                BY <2>6, <3>5, <4>1 DEF Open, SameWork
        <3>8. Stays(p, q, fold, p.index)
            BY <3>5, <3>6, <3>7 DEF Stays
        <3> QED
            BY <3>4, <3>8 DEF q
    <2> QED
        BY <2>7, <2>8
<1> QED
    BY <1>1, <1>2

LEMMA AbortedShows ==
    ASSUME NEW p, Good(p), Shape(p), p.preserving, NEW fold
    PROVE  Shape(Aborted(p)) /\ Refreshes(Aborted(p), fold)
<1>1. PICK nothing : nothing = <<>>
    OBVIOUS
<1>2. PICK q : q = Aborted(p)
    OBVIOUS
<1>3. q = [p EXCEPT !.document_loading = FALSE, !.preserving = FALSE, !.workspace = 0,
              !.indexed = FALSE, !.index = nothing, !.documents = NoPatches, !.loading = NoFile,
              !.pending = nothing]
    BY <1>1, <1>2 DEF Aborted
<1>4. /\ q.document = p.document /\ q.preserved = p.preserved /\ q.request = p.request
      /\ q.index = nothing /\ ~ q.indexed /\ ~ q.preserving
    BY <1>3 DEF Good, Pane
<1>5. IsInjective(nothing)
    BY <1>1, NothingTyped DEF IsInjective
<1> QED
    BY <1>2, <1>4, <1>5 DEF Shape, Refreshes

LEMMA FileHeardShows ==
    ASSUME NEW p, Good(p), Shape(p), p.workspace # 0, NEW e, e.command.path = p.loading,
           e.command.path \in ToSet(p.index), e.patch \in Patch,
           e.ok /\ e.patch # Failed /\ p.request # NoRequest
              => e.patch.kind = p.request.kind /\ e.patch.name = p.request.name
    PROVE  LET z == FileHeard(p, e) IN
           /\ Shape(z)
           /\ Refreshes(p, folding) => Refreshes(z, folding)
           /\ z.document_loading => Len(z.index) # 1
           /\ e.ok /\ e.patch # Failed =>
                 \/ ~ z.document_loading /\ Stays(p, z, folding, p.index)
                 \/ /\ z.document = p.document /\ z.index = p.index
                    /\ \A g : Collapsed(z, folding, g) <=> Collapsed(p, folding, g)
<1> DEFINE q == [p EXCEPT !.loading = NoFile]
           f == e.command.path
           z == FileHeard(p, e)
           good == Stored(q, folding, f, e.patch)
           bad == Stored(q, folding, f, Failed)
<1>1. z = IF e.ok THEN good ELSE IF q.preserving THEN Aborted(q)
          ELSE [bad EXCEPT !.request = NoRequest]
    BY DEF FileHeard
<1>2. p \in Pane /\ Failed \in Patch /\ p.indexed
    BY NoPatchesTyped DEF Good, Kept
<1>3. /\ q \in Pane /\ SameWork(p, q) /\ SameShown(p, q)
      /\ q.loading = NoFile /\ q.pending = p.pending
      /\ q.document_loading = p.document_loading
    BY <1>2 DEF Pane, SameWork, SameShown
<1> HIDE DEF q, z, f, good, bad
<1>4. Good(q)
    <2>1. ToSet(p.pending) \subseteq ToSet(p.index) /\ NoFile \notin ToSet(p.pending)
        BY <1>2, FilesOfList DEF Good, Queued, Pane
    <2> QED
        BY <1>3, <2>1 DEF Good, Kept, Queued, SameWork, SameShown
<1>5. f \in ToSet(q.index) /\ q.request = p.request /\ q.indexed
    BY <1>2, <1>3 DEF SameWork, f
<1>6. Shape(q) /\ \A g : Collapsed(q, folding, g) <=> Collapsed(p, folding, g)
    BY <1>3, ShapeStays, CollapsedStays
<1>7. CASE e.ok
    <2>1. /\ Shape(good) /\ Good(good)
          /\ \/ /\ ~ good.preserving /\ ~ good.document_loading
                /\ e.patch # Failed => Stays(q, good, folding, q.index)
             \/ /\ Len(q.index) # 1
                /\ SameShown(q, [good EXCEPT !.documents = q.documents])
                /\ SameReads(q, good) /\ DOMAIN good.documents = DOMAIN q.documents \cup {f}
        <3>1. /\ e.patch \in Patch
              /\ e.patch # Failed /\ q.request # NoRequest
                    => e.patch.kind = q.request.kind /\ e.patch.name = q.request.name
            BY <1>2, <1>5, <1>7
        <3>2. Shape(q)
            BY <1>6
        <3>3. Good(good)
            BY <1>4, <1>5, <3>1, StoredKeeps DEF good
        <3> QED
            BY <1>4, <1>5, <3>1, <3>2, <3>3, StoredShows DEF good
    <2>2. z = good
        BY <1>1, <1>7
    <2>3. CASE /\ ~ good.preserving /\ ~ good.document_loading
               /\ e.patch # Failed => Stays(q, good, folding, q.index)
        <3>1. Refreshes(good, folding)
            BY <2>3 DEF Refreshes
        <3>2. Stays(q, good, folding, q.index) => Stays(p, good, folding, p.index)
            BY <1>3, <1>6 DEF Stays, SameShown
        <3> QED
            BY <2>1, <2>2, <2>3, <3>1, <3>2 DEF z
    <2>4. CASE /\ Len(q.index) # 1
               /\ SameShown(q, [good EXCEPT !.documents = q.documents])
               /\ SameReads(q, good) /\ DOMAIN good.documents = DOMAIN q.documents \cup {f}
        <3>1. good \in Pane
            BY <2>1 DEF Good
        <3>2. /\ good.document = p.document /\ good.index = p.index /\ good.indexed = p.indexed
              /\ good.preserving = p.preserving /\ good.collapsed = p.collapsed
              /\ good.expanded = p.expanded
              /\ good.pending = p.pending /\ good.document_loading = p.document_loading
            BY <1>3, <2>4, <3>1 DEF SameShown, SameReads, Pane
        <3>3. \A g : Collapsed(good, folding, g) <=> Collapsed(p, folding, g)
            BY <3>2 DEF Collapsed, Collapsible
        <3>4. \A g : Reached(p, g) => Reached(good, g)
            BY <1>3, <2>4, <3>2 DEF Reached, SameShown, f
        <3>5. Refreshes(p, folding) => Refreshes(good, folding)
            BY <3>2, <3>3, <3>4 DEF Refreshes
        <3>6. Len(good.index) # 1
            BY <1>3, <2>4, <3>2 DEF SameShown
        <3> QED
            BY <2>1, <2>2, <3>2, <3>3, <3>5, <3>6 DEF z
    <2> QED
        BY <2>1, <2>3, <2>4
<1>8. CASE ~ e.ok /\ q.preserving
    <2>1. z = Aborted(q)
        BY <1>1, <1>8
    <2>2. Shape(z) /\ Refreshes(z, folding) /\ ~ z.document_loading
        BY <1>4, <1>6, <1>8, <2>1, AbortedKeeps, AbortedShows
    <2> QED
        BY <1>8, <2>2 DEF z
<1>9. CASE ~ e.ok /\ ~ q.preserving
    <2>1. /\ Shape(bad) /\ Good(bad)
          /\ \/ ~ bad.preserving /\ ~ bad.document_loading
             \/ /\ SameShown(q, [bad EXCEPT !.documents = q.documents])
                /\ SameReads(q, bad)
        BY <1>2, <1>4, <1>5, <1>6, StoredShows, StoredKeeps DEF bad
    <2>2. ~ q.document_loading
        BY <1>5, <1>6, <1>9 DEF Shape
    <2>3. ~ bad.preserving /\ ~ bad.document_loading /\ bad \in Pane
        <3>1. bad \in Pane
            BY <2>1 DEF Good
        <3> QED
            BY <1>9, <2>1, <2>2, <3>1 DEF SameShown, SameReads, Pane
    <2>4. z = [bad EXCEPT !.request = NoRequest]
        BY <1>1, <1>9
    <2>5. /\ z.request = NoRequest /\ z.index = bad.index /\ z.indexed = bad.indexed
          /\ z.documents = bad.documents /\ z.document = bad.document
          /\ z.document_loading = bad.document_loading /\ z.preserving = bad.preserving
          /\ z.preserved = bad.preserved
        BY <2>3, <2>4 DEF Pane
    <2>6. IsInjective(NoRequest.files)
        <3>1. NoRequest.files = <<>>
            BY DEF NoRequest
        <3> QED
            BY <3>1, NothingTyped DEF IsInjective
    <2>7. Shape(z)
        BY <2>1, <2>5, <2>6 DEF Shape
    <2>8. Refreshes(z, folding)
        BY <2>3, <2>5 DEF Refreshes
    <2> QED
        BY <1>9, <2>3, <2>5, <2>7, <2>8 DEF z
<1> QED
    BY <1>7, <1>8, <1>9

(* The answer to a file leaves what is shown, or shows it again.              *)
LEMMA HearFileShows ==
    ASSUME NEW p, Good(p), Shape(p), p.workspace # 0, NEW e, e.command.path = p.loading,
           e.command.path \in ToSet(p.index), e.patch \in Patch,
           e.ok /\ e.patch # Failed /\ p.request # NoRequest
              => e.patch.kind = p.request.kind /\ e.patch.name = p.request.name
    PROVE  LET w == WithNextFile(FileHeard(p, e), folding) IN
           /\ Shape(w)
           /\ Refreshes(p, folding) => Refreshes(w, folding)
           /\ e.ok /\ e.patch # Failed /\ Refreshes(p, folding) => Stays(p, w, folding, p.index)
<1>1. PICK z : z = FileHeard(p, e)
    OBVIOUS
<1>2. PICK w : w = WithNextFile(z, folding)
    OBVIOUS
<1>3. Good(z) /\ z.loading = NoFile
    BY <1>1, FileHeardKeeps
<1>4. /\ Shape(z)
      /\ Refreshes(p, folding) => Refreshes(z, folding)
      /\ z.document_loading => Len(z.index) # 1
      /\ e.ok /\ e.patch # Failed =>
            \/ ~ z.document_loading /\ Stays(p, z, folding, p.index)
            \/ /\ z.document = p.document /\ z.index = p.index
               /\ \A g : Collapsed(z, folding, g) <=> Collapsed(p, folding, g)
    BY <1>1, FileHeardShows
<1>5. /\ Shape(w)
      /\ Refreshes(z, folding) => Refreshes(w, folding) /\ Stays(z, w, folding, z.index)
      /\ ~ z.document_loading => w.document = z.document
    BY <1>2, <1>3, <1>4, NextFileShows
<1>6. ASSUME e.ok, e.patch # Failed, Refreshes(p, folding) PROVE Stays(p, w, folding, p.index)
    <2>1. CASE ~ z.document_loading /\ Stays(p, z, folding, p.index)
        BY <1>5, <2>1 DEF Stays
    <2>2. CASE /\ z.document = p.document /\ z.index = p.index
               /\ \A g : Collapsed(z, folding, g) <=> Collapsed(p, folding, g)
        BY <1>4, <1>5, <1>6, <2>2 DEF Stays
    <2> QED
        BY <1>4, <1>6, <2>1, <2>2
<1> QED
    BY <1>1, <1>2, <1>4, <1>5, <1>6
-----------------------------------------------------------------------------
LEMMA BlankIsInjective ==
    IsInjective(NoRequest.files) /\ IsInjective(Blank.headers) /\ IsInjective(<<>>)
<1>1. NoRequest.files = <<>> /\ Blank.headers = <<>>
    BY DEF NoRequest, Blank
<1> QED
    BY <1>1, NothingTyped DEF IsInjective

LEMMA ClearedShows ==
    ASSUME NEW p, Good(p), NEW fold
    PROVE  LET q == [Reset(p) EXCEPT !.document_loading = FALSE, !.document = Blank] IN
           Shape(q) /\ Refreshes(q, fold)
<1>1. PICK r : r = Reset(p)
    OBVIOUS
<1>2. PICK blank : blank = Blank
    OBVIOUS
<1>3. PICK q : q = [r EXCEPT !.document_loading = FALSE, !.document = blank]
    OBVIOUS
<1>4. r.preserved = {}
    BY <1>1, AbortedKeeps DEF Reset, Good, Pane
<1>5. Idle(r) /\ ~ r.preserving /\ r.request = NoRequest /\ r \in Pane
    BY <1>1, ResetKeeps DEF Good
<1>6. /\ q.request = NoRequest /\ q.index = <<>> /\ q.document = blank /\ q.preserved = {}
      /\ ~ q.indexed /\ ~ q.preserving
    BY <1>3, <1>4, <1>5 DEF Idle, Pane
<1>7. IsInjective(q.request.files) /\ IsInjective(q.index) /\ IsInjective(q.document.headers)
    BY <1>2, <1>6, BlankIsInjective
<1>8. ToSet(q.document.headers) = {} /\ DOMAIN q.document.patches = {}
    BY <1>2, <1>6, BlankTyped, NothingTyped
<1>9. IsFiniteSet(q.preserved)
    BY <1>6, FS_EmptySet
<1> QED
    BY <1>1, <1>2, <1>3, <1>6, <1>7, <1>8, <1>9 DEF Shape, Refreshes

(* What is prepared of the subject that is shown stays on display.            *)
LEMMA PreparedShows ==
    ASSUME NEW p, Good(p), Shape(p), NEW r \in LocalDiffRequest, IsInjective(r.files),
           r.kind # "none", Titled(r), Prepares(p, r), NEW fold
    PROVE  LET q == Prepared(p, r) IN
           /\ Shape(q) /\ Refreshes(q, fold)
           /\ q.preserving \/ q.preserved = {}
           /\ SameChanges(p.request, r) /\ DOMAIN p.document.patches # {}
                 => q.document = p.document
<1> DEFINE a == Reset(p)
           q == Prepared(p, r)
           preserve == SameChanges(p.request, r) /\ p.document.headers # <<>>
           kept == IF ~ preserve THEN {} ELSE IF p.preserved = {} THEN ToSet(p.index) ELSE p.preserved
           d == IF preserve THEN a.document ELSE Blank
           coll == IF preserve THEN a.collapsed ELSE {}
           exp == IF preserve THEN a.expanded ELSE {}
           one == IF preserve THEN a.selected ELSE NoFile
<1>1. /\ Good(a) /\ Idle(a) /\ a.document = p.document /\ a \in Pane
    BY ResetKeeps DEF Good
<1>2. q = [a EXCEPT
            !.request = r, !.preserving = preserve, !.preserved = kept, !.document_loading = TRUE,
            !.document = d, !.collapsed = coll, !.expanded = exp, !.selected = one, !.cut = FALSE]
    BY <1>1 DEF Prepared, Pane
<1>3. p \in Pane /\ p.index \in Seq(Files)
    BY DEF Good, Pane
<1>4. IsFiniteSet(kept)
    <2>1. IsFiniteSet({}) /\ IsFiniteSet(ToSet(p.index)) /\ IsFiniteSet(p.preserved)
        BY <1>3, FS_EmptySet, ListIsFinite DEF Shape
    <2> QED
        BY <2>1
<1>5. /\ IsInjective(d.headers) /\ DOMAIN d.patches \subseteq ToSet(d.headers)
      /\ ToSet(d.headers) \subseteq kept
    <2>1. CASE preserve
        <3>1. d = p.document
            BY <1>1, <2>1
        <3>2. kept = IF p.preserved = {} THEN ToSet(p.index) ELSE p.preserved
            BY <2>1
        <3> HIDE DEF d, kept, preserve
        <3>3. ToSet(p.document.headers) \subseteq kept
            BY <3>2 DEF Shape
        <3> QED
            BY <3>1, <3>3 DEF Shape
    <2>2. CASE ~ preserve
        <3>1. d = Blank
            BY <2>2
        <3> HIDE DEF d, kept, preserve
        <3> QED
            BY <3>1, BlankTyped, BlankIsInjective, NothingTyped
    <2> QED
        BY <2>1, <2>2
<1>6. preserve \/ kept = {}
    OBVIOUS
<1>7. SameChanges(p.request, r) /\ DOMAIN p.document.patches # {} => d = p.document
    <2>1. DOMAIN p.document.patches # {} => p.document.headers # <<>>
        BY NothingTyped DEF Shape
    <2> QED
        BY <1>1, <2>1
<1>71. preserve \in BOOLEAN
    BY DEF SameChanges
<1> HIDE DEF a, q, preserve, kept, d, coll, exp, one
<1>8. /\ q.request = r /\ q.index = <<>> /\ ~ q.indexed /\ q.document = d
      /\ q.preserving = preserve /\ q.preserved = kept
    BY <1>1, <1>2 DEF Pane, Idle
<1>9. IsInjective(q.index)
    BY <1>8, BlankIsInjective
<1>10. Shape(q) /\ Refreshes(q, fold)
    BY <1>4, <1>5, <1>8, <1>9 DEF Shape, Refreshes
<1> QED
    BY <1>6, <1>7, <1>8, <1>10 DEF q

LEMMA InvalidatedShows ==
    ASSUME NEW p, Good(p), Shape(p), NEW fold
    PROVE  LET q == Invalidated(p) IN
           Shape(q) /\ Refreshes(q, fold) /\ q.document = p.document
<1>1. PICK nothing : nothing = <<>>
    OBVIOUS
<1>2. PICK q : q = Invalidated(p)
    OBVIOUS
<1>3. q = [p EXCEPT !.document_loading = FALSE, !.loading = NoFile, !.pending = nothing]
    BY <1>1, <1>2 DEF Invalidated
<1>4. SameShown(p, q) /\ ~ q.document_loading
    BY <1>3 DEF Good, Pane, SameShown
<1>5. Shape(q) /\ Refreshes(q, fold)
    BY <1>4, ShapeStays DEF Refreshes
<1> QED
    BY <1>2, <1>4, <1>5 DEF SameShown

LEMMA LeftShows ==
    ASSUME NEW p, Good(p), Shape(p)
    PROVE  Shape(Left(p))
<1> DEFINE all == (IF p.loading = NoFile THEN <<>> ELSE <<p.loading>>) \o p.pending
           left == p.cut \/ p.loading # NoFile \/ p.preserving
           q == Left(p)
<1>1. q = [p EXCEPT !.pending = all, !.loading = NoFile, !.cut = left]
    BY DEF Left, Good, Pane
<1> HIDE DEF all, left, q
<1>2. SameShown(p, q) /\ q.document_loading = p.document_loading
    BY <1>1 DEF Good, Pane, SameShown
<1> QED
    BY <1>2, ShapeStays DEF q

LEMMA ResumedShows ==
    ASSUME NEW p, Good(p), Shape(p), p.loading = NoFile, NEW fold
    PROVE  Shape(Resumed(p)) /\ Refreshes(Resumed(p), fold)
<1> DEFINE e == Entered(p)
<1>1. e = [p EXCEPT !.document_loading = FALSE] /\ p \in Pane
    BY DEF Entered, Good
<1> HIDE DEF e
<1>2. /\ e \in Pane /\ SameWork(p, e) /\ e.loading = NoFile /\ e.pending = p.pending
      /\ ~ e.document_loading /\ SameShown(p, e)
    BY <1>1 DEF Pane, SameWork, SameShown
<1>3. Good(e)
    BY <1>2 DEF Good, Kept, Queued, SameWork, SameShown
<1>4. Shape(e)
    BY <1>2, ShapeStays
<1>5. Shape(WithNextFile(e, folding))
    BY <1>2, <1>3, <1>4, NextFileShows
<1>6. ~ Resumed(p).document_loading
    BY ResumedKeeps
<1>7. Resumed(p) \in {e, WithNextFile(e, folding)}
    BY DEF Resumed, e
<1> QED
    BY <1>4, <1>5, <1>6, <1>7 DEF Refreshes

(* What the user folds and unfolds.                                           *)
LEMMA ToggledShows ==
    ASSUME NEW p, Good(p), Shape(p), Refreshes(p, folding), NEW f \in Files
    PROVE  LET q == Toggled(p, f) IN
           /\ Shape(q) /\ Refreshes(q, folding)
           /\ q.preserving = p.preserving /\ q.preserved = p.preserved
<1> DEFINE coll == IF folding.all THEN p.collapsed
                   ELSE IF f \in p.collapsed THEN p.collapsed \ {f} ELSE p.collapsed \cup {f}
           exp == IF ~ folding.all THEN p.expanded
                  ELSE IF f \in p.expanded THEN p.expanded \ {f} ELSE p.expanded \cup {f}
           t == [p EXCEPT !.collapsed = coll, !.expanded = exp, !.selected = f]
           r == Refolded(t, folding)
           q == Toggled(p, f)
<1>0. p \in Pane
    BY DEF Good
<1>1. q = IF Collapsed(p, folding, f) /\ ~ Collapsed(r, folding, f) THEN WithFile(r, f) ELSE r
    BY <1>0 DEF Toggled, Pane
<1>2. /\ coll \in SUBSET Files /\ exp \in SUBSET Files
      /\ \A g : g # f => (g \in coll <=> g \in p.collapsed) /\ (g \in exp <=> g \in p.expanded)
    BY <1>0 DEF Pane
<1> HIDE DEF q, r, coll, exp
<1>3. /\ t \in Pane /\ SameWork(p, t) /\ SameReads(p, t)
      /\ t.documents = p.documents /\ t.document = p.document
      /\ t.preserving = p.preserving /\ t.preserved = p.preserved
      /\ t.collapsed = coll /\ t.expanded = exp
    BY <1>0, <1>2 DEF Pane, SameWork, SameReads
<1> HIDE DEF t
<1>4. Good(t)
    BY <1>3 DEF Good, Kept, Queued, SameWork, SameReads
<1>5. Shape(t)
    BY <1>3 DEF Shape, SameWork, SameReads
<1>6. Good(r) /\ SameWork(t, r) /\ SameReads(t, r)
    BY <1>4, RefoldedKeeps DEF r
<1>7. CASE t.indexed /\ ~ t.preserving
    <2>1. r = Rebuilt(t, folding)
        BY <1>7 DEF r, Refolded
    <2>2. /\ Shape(r) /\ ~ r.preserving
          /\ r.preserving = t.preserving /\ r.preserved = t.preserved
        <3>1. ~ t.document_loading /\ t.preserved = {} /\ IsInjective(t.request.files)
              /\ IsInjective(t.index)
            BY <1>5, <1>7 DEF Shape
        <3> QED
            BY <1>4, <1>7, <2>1, <3>1, RebuiltShapes, RebuiltShows, RebuiltKeeps
    <2>3. SameShown(r, WithFile(r, f)) /\ WithFile(r, f).document_loading = r.document_loading
        BY <1>6, WithFileReads, ReadsShown DEF Good
    <2>4. Shape(WithFile(r, f))
        BY <2>2, <2>3, ShapeStays
    <2>5. q \in {r, WithFile(r, f)}
        BY <1>1
    <2>6. /\ Shape(q) /\ ~ q.preserving
          /\ q.preserving = t.preserving /\ q.preserved = t.preserved
        BY <2>2, <2>3, <2>4, <2>5 DEF SameShown
    <2>7. Refreshes(q, folding)
        BY <2>6 DEF Refreshes
    <2>8. q.preserving = p.preserving /\ q.preserved = p.preserved
        BY <1>3, <1>7, <2>6
    <2> QED
        BY <2>6, <2>7, <2>8 DEF q
<1>8. CASE ~ (t.indexed /\ ~ t.preserving)
    <2>1. r = t
        BY <1>8 DEF r, Refolded
    <2>2. SameShown(t, WithFile(t, f)) /\ WithFile(t, f).document_loading = t.document_loading
        BY <1>4, WithFileReads, ReadsShown DEF Good
    <2>3. q \in {t, WithFile(t, f)}
        BY <1>1, <2>1
    <2>4. SameShown(t, q) /\ q.document_loading = t.document_loading
        <3>1. SameShown(t, t)
            BY DEF SameShown
        <3> QED
            BY <2>2, <2>3, <3>1
    <2>5. Shape(q)
        BY <1>5, <2>4, ShapeStays
    <2>6. ASSUME NEW g \in ToSet(t.document.headers), g \in ToSet(t.index), t.preserving,
                 t.indexed, t.document_loading, Len(t.document.headers) > 1
          PROVE  Collapsed(t, folding, g) \/ Reached(q, g)
        <3>1. t.index \in Seq(Files)
            BY <1>3 DEF Pane
        <3>2. g \in Files /\ t.workspace # 0
            BY <1>4, <2>6, <3>1, FilesOfList DEF Good, Kept
        <3>3. Collapsed(p, folding, g) \/ Reached(t, g)
            BY <1>3, <2>6 DEF Refreshes, Reached, SameWork, SameReads
        <3>4. Reached(t, g) => Reached(q, g)
            BY <1>4, <2>3, <3>2, WithFileReaches
        <3>5. CASE g # f
            <4>1. Collapsed(t, folding, g) <=> Collapsed(p, folding, g)
                BY <1>2, <1>3, <3>5 DEF Collapsed, Collapsible, SameWork
            <4> QED
                BY <3>3, <3>4, <4>1
        <3>6. CASE g = f
            <4>1. Reached(WithFile(t, f), f)
                BY <1>4, <2>6, <3>2, <3>6, WithFileReaches
            <4> QED
                BY <1>1, <2>1, <3>3, <3>4, <3>6, <4>1
        <3> QED
            BY <3>5, <3>6
    <2>7. Refreshes(q, folding)
        <3>1. \A g : Collapsed(q, folding, g) <=> Collapsed(t, folding, g)
            BY <2>4, CollapsedStays
        <3> QED
            BY <2>4, <2>6, <3>1 DEF Refreshes, SameShown
    <2> QED
        BY <1>3, <2>4, <2>5, <2>7 DEF SameShown, q
<1> QED
    BY <1>7, <1>8

LEMMA AllToggledShows ==
    ASSUME NEW p, Good(p), Shape(p), NEW fold
    PROVE  LET q == AllToggled(p, fold) IN
           /\ Shape(q) /\ Refreshes(q, fold)
           /\ q.preserving = p.preserving /\ q.preserved = p.preserved
<1> DEFINE t == [p EXCEPT !.collapsed = {}, !.expanded = {}]
           r == Refolded(t, fold)
           nothing == <<>>
           none == [r EXCEPT !.pending = nothing]
           files == IF r.preserving /\ r.indexed THEN r.index ELSE r.document.headers
           some == WithFiles(r, files, ToSet(files))
           q == AllToggled(p, fold)
<1>0. p \in Pane
    BY DEF Good
<1>1. q = IF fold.all THEN none ELSE some
    BY DEF AllToggled
<1> HIDE DEF q, r, none, some, files, nothing
<1>2. /\ t \in Pane /\ SameWork(p, t) /\ SameReads(p, t)
      /\ t.documents = p.documents /\ t.document = p.document
      /\ t.preserving = p.preserving /\ t.preserved = p.preserved
      /\ t.collapsed = {} /\ t.expanded = {}
    BY <1>0 DEF Pane, SameWork, SameReads
<1> HIDE DEF t
<1>3. Good(t)
    BY <1>2 DEF Good, Kept, Queued, SameWork, SameReads
<1>4. Shape(t)
    BY <1>2 DEF Shape, SameWork, SameReads
<1>5. Good(r) /\ SameWork(t, r) /\ SameReads(t, r) /\ r \in Pane
    BY <1>3, RefoldedKeeps DEF r, Good
<1>6. /\ Shape(r) /\ r.preserving = p.preserving /\ r.preserved = p.preserved
      /\ r.preserving => r = t
    <2>1. CASE t.indexed /\ ~ t.preserving
        <3>1. r = Rebuilt(t, fold)
            BY <2>1 DEF r, Refolded
        <3>2. ~ t.document_loading /\ t.preserved = {} /\ IsInjective(t.request.files)
              /\ IsInjective(t.index)
            BY <1>4, <2>1 DEF Shape
        <3>3. Shape(r) /\ r.preserving = t.preserving /\ r.preserved = t.preserved
            BY <1>3, <2>1, <3>1, <3>2, RebuiltShapes, RebuiltShows, RebuiltKeeps
        <3> QED
            BY <1>2, <2>1, <3>3
    <2>2. CASE ~ (t.indexed /\ ~ t.preserving)
        <3>1. r = t
            BY <2>2 DEF r, Refolded
        <3> QED
            BY <1>2, <1>4, <3>1
    <2> QED
        BY <2>1, <2>2
<1>7. SameShown(r, none) /\ none.document_loading = r.document_loading
    BY <1>5 DEF none, Pane, SameShown
<1>8. files \in Seq(Files)
    BY <1>5 DEF files, Pane
<1>9. SameShown(r, some) /\ some.document_loading = r.document_loading
    BY <1>5, <1>8, WithFilesReads, ReadsShown DEF some, Good
<1>10. SameShown(r, q) /\ q.document_loading = r.document_loading
    BY <1>1, <1>7, <1>9
<1>11. Shape(q) /\ q.preserving = p.preserving /\ q.preserved = p.preserved
    BY <1>6, <1>10, ShapeStays DEF SameShown
<1>12. Refreshes(q, fold)
    <2> SUFFICES ASSUME q.preserving, q.indexed, Len(q.document.headers) > 1,
                        NEW g \in ToSet(q.document.headers), g \in ToSet(q.index),
                        ~ Collapsed(q, fold, g)
                 PROVE  Reached(q, g)
        BY DEF Refreshes
    <2>1. q.expanded = {} /\ q.index = r.index /\ r.preserving /\ r.indexed
        BY <1>2, <1>6, <1>10 DEF SameShown
    <2>2. ~ fold.all
        BY <2>1 DEF Collapsed, Collapsible
    <2>3. q = some /\ files = r.index
        BY <1>1, <2>1, <2>2 DEF files
    <2>4. g \in Files /\ r.workspace # 0
        BY <1>5, <1>8, <2>1, <2>3, FilesOfList DEF Good, Kept
    <2> QED
        BY <1>5, <1>8, <2>1, <2>3, <2>4, WithFilesReaches DEF some
<1> QED
    BY <1>11, <1>12 DEF q
-----------------------------------------------------------------------------
(* The steps.  An index that is still to come is one that the pane on display *)
(* waits for, and it knows the files that it preserves.                       *)
Owes(p) == p.document_loading /\ (p.preserving \/ p.preserved = {})

IndexPreserves == \A c \in OnItsWay : Prepare(c) /\ c.generation = generation => Owes(pane)

ShownInv ==
    /\ \A v \in Views : Shape(panes[v])
    /\ Refreshes(pane, folding)
    /\ IndexPreserves

LEMMA HandlerSends ==
    ASSUME LaneTypeOK(Command, Event), NEW effects \in Seq(Command),
           Handle(effects) \/ (answers # <<>> /\ HandleAnswer(effects))
    PROVE  OnItsWay' \subseteq OnItsWay \cup Elements(effects)
<1>1. /\ outbox' = effects /\ UNCHANGED <<mailbox, executing>> /\ answers \in Seq(Event)
      /\ answers' = answers \/ (answers # <<>> /\ answers' = Tail(answers))
    BY DEF Handle, HandleAnswer, LaneTypeOK
<1>2. Sent' = Elements(effects) /\ Waits' = Waits /\ Runs' = Runs
    BY <1>1 DEF Sent, Elements, Waits, Runs
<1>3. Answered' \subseteq Answered
    <2>1. CASE answers' = answers
        BY <2>1 DEF Answered
    <2>2. CASE answers # <<>> /\ answers' = Tail(answers)
        <3>1. /\ Len(answers') = Len(answers) - 1 /\ Len(answers) \in Nat \ {0}
              /\ \A k \in 1 .. Len(answers') : answers'[k] = answers[k + 1]
              /\ DOMAIN answers' = 1 .. Len(answers') /\ DOMAIN answers = 1 .. Len(answers)
            <4>1. answers' \in Seq(Event)
                BY <1>1, <2>2, TailElements
            <4> QED
                BY <1>1, <2>2, <4>1, HeadTailProperties, EmptySeq, LenProperties
        <3>2. \A k \in DOMAIN answers' : k + 1 \in DOMAIN answers /\ answers'[k] = answers[k + 1]
            BY <3>1
        <3> QED
            BY <3>2 DEF Answered
    <2> QED
        BY <1>1, <2>1, <2>2
<1>4. OnItsWay' = Sent' \cup Waits' \cup Runs' \cup Answered'
    BY DEF OnItsWay, Sent, Elements, Waits, Runs, Answered
<1>5. Waits \subseteq OnItsWay /\ Runs \subseteq OnItsWay /\ Answered \subseteq OnItsWay
    BY Stages DEF Unanswered
<1> QED
    BY <1>2, <1>3, <1>4, <1>5

LEMMA HandlerKeepsShown ==
    ASSUME PreviewInv, ShownInv, UNCHANGED view, NEW q, Show(q),
           NEW fold, fold = folding', Shape(q), Refreshes(q, fold),
           NEW g, g = generation', g \in {generation, generation + 1},
           NEW effects, Short(effects),
           Handle(effects) \/ (answers # <<>> /\ HandleAnswer(effects)),
           \A c \in Elements(effects) : Prepare(c) => Owes(q),
           g = generation =>
              \A c \in OnItsWay \cap OnItsWay' : Prepare(c) /\ c.generation = generation => Owes(q)
    PROVE  ShownInv'
<1>1. view \in Views /\ panes \in [Views -> Pane] /\ generation \in Nat
    BY DEF PreviewInv, Typed, Generation
<1>2. pane' = q /\ \A v \in Views : panes'[v] = IF v = view THEN q ELSE panes[v]
    BY <1>1 DEF Show, pane
<1>3. \A v \in Views : Shape(panes'[v])
    BY <1>1, <1>2 DEF ShownInv
<1>4. OnItsWay' \subseteq OnItsWay \cup Elements(effects)
    BY HandlerSends DEF Short, PreviewInv, Typed
<1>5. ASSUME NEW c \in OnItsWay', Prepare(c), c.generation = g PROVE Owes(q)
    <2>1. CASE c \in Elements(effects)
        BY <1>5, <2>1
    <2>2. CASE c \in OnItsWay
        <3>1. c.generation \in 1 .. generation
            BY <1>5, <2>2 DEF PreviewInv, LanesInv, NoneIsAhead
        <3>2. g = generation
            BY <1>1, <1>5, <3>1
        <3> QED
            BY <1>5, <2>2, <3>2
    <2> QED
        BY <1>4, <2>1, <2>2
<1>6. IndexPreserves'
    BY <1>2, <1>5 DEF IndexPreserves
<1>7. Refreshes(pane', folding')
    BY <1>2
<1> QED
    BY <1>3, <1>6, <1>7 DEF ShownInv

LEMMA ShownStays ==
    ASSUME ShownInv, UNCHANGED <<view, panes, generation, folding>>,
           \A c \in OnItsWay' : Prepare(c) => c \in OnItsWay
    PROVE  ShownInv'
<1>1. UNCHANGED pane
    BY DEF pane
<1>2. IndexPreserves'
    BY <1>1 DEF ShownInv, IndexPreserves
<1> QED
    BY <1>1, <1>2 DEF ShownInv

(* A handler that asks for nothing but a status. *)
LEMMA RefreshingKeepsShown ==
    ASSUME PreviewInv, ShownInv, UNCHANGED <<view, panes, generation, folding>>,
           NEW effects, Short(effects), \A c \in Elements(effects) : ~ Prepare(c),
           Handle(effects) \/ (answers # <<>> /\ HandleAnswer(effects))
    PROVE  ShownInv'
<1>1. OnItsWay' \subseteq OnItsWay \cup Elements(effects)
    BY HandlerSends DEF Short, PreviewInv, Typed
<1> QED
    BY <1>1, ShownStays


(* Git names no file of a diff twice. *)
LEMMA SubjectIsInjective ==
    ASSUME NEW v \in Views, NEW p, NEW st \in Trees \cup {<<>>}, NEW sel \in Selection, NEW ver
    PROVE  IsInjective(Subject(v, p, st, sel, ver).files)
<1> DEFINE r == Subject(v, p, st, sel, ver)
<1>1. IsInjective(st) /\ IsInjective(FilesOf[sel.commit]) /\ IsInjective(FilesOf["comparison"])
    <2>1. FilesOf[sel.commit] \in Range(FilesOf) /\ FilesOf["comparison"] \in Range(FilesOf)
        BY PreviewAssumption DEF Selection, Range
    <2> QED
        BY <2>1, ListsAssumption, BlankIsInjective
<1>2. CASE v = "History"
    BY <1>1, <1>2 DEF Subject
<1>3. CASE v = "Changes" /\ p.comparing
    BY <1>1, <1>3 DEF Subject
<1>4. CASE v = "Changes" /\ ~ p.comparing /\ sel.section
    BY <1>1, <1>4 DEF Subject
<1>5. CASE v = "Changes" /\ ~ p.comparing /\ ~ sel.section
    <2> DEFINE fs == IF sel.cursor \in DOMAIN st THEN <<st[sel.cursor]>> ELSE <<>>
    <2>1. r.files = fs
        BY <1>5 DEF Subject
    <2>2. IsInjective(fs)
        <3>1. \A x : IsInjective(<<x>>)
            <4> SUFFICES ASSUME NEW x PROVE IsInjective(<<x>>)
                OBVIOUS
            <4>1. DOMAIN <<x>> = {1}
                OBVIOUS
            <4> QED
                BY <4>1 DEF IsInjective
        <3> QED
            BY <3>1, BlankIsInjective
    <2> QED
        BY <2>1, <2>2
<1> QED
    BY <1>2, <1>3, <1>4, <1>5 DEF Views

(* What request_preview makes of what is shown. *)
LEMMA RequestShows ==
    ASSUME generation \in Generation, NeverWraps, view \in Views,
           NEW p, Good(p), Shape(p), Refreshes(p, folding),
           NEW st \in Trees \cup {<<>>}, NEW sel \in Selection, NEW ver \in Nat
    PROVE  LET e == RequestEffects(p, st, sel, ver, generation)
               q == Request(p, st, sel, ver) IN
           /\ Shape(q) /\ Refreshes(q, folding)
           /\ SameChanges(p.request, q.request) =>
                 DOMAIN p.document.patches \subseteq DOMAIN q.document.patches
           /\ \/ e = <<>> /\ q = p /\ GenerationAfter(e, generation) = generation
              \/ Owes(q) /\ GenerationAfter(e, generation) = generation + 1
<1> DEFINE e == RequestEffects(p, st, sel, ver, generation)
           q == Request(p, st, sel, ver)
           r == Subject(view, p, st, sel, ver)
<1>0. st \in Seq(Files)
    BY NothingTyped, PreviewAssumption
<1>1. r \in LocalDiffRequest /\ r.kind # "none" /\ Titled(r) /\ IsInjective(r.files)
    BY <1>0, SubjectTyped, SubjectIsInjective
<1>2. \/ e = <<>> /\ q = p /\ GenerationAfter(e, generation) = generation
      \/ /\ q.document_loading /\ GenerationAfter(e, generation) = generation + 1
         /\ \E c \in Elements(e) : TRUE
    BY <1>0, RequestKeeps
<1>3. q = Prepared(p, r) /\ (~ Prepares(p, r) => e = <<>>)
    BY DEF Request, RequestEffects
<1>4. Elements(<<>>) = {}
    BY RefreshEffectsAre
<1> HIDE DEF e, q, r
<1>5. CASE Prepares(p, r)
    <2>1. /\ Shape(q) /\ Refreshes(q, folding) /\ (q.preserving \/ q.preserved = {})
          /\ SameChanges(p.request, r) /\ DOMAIN p.document.patches # {}
                => q.document = p.document
          /\ q.request = r /\ q.document_loading
        BY <1>1, <1>3, <1>5, PreparedShows, PreparedKeeps
    <2>2. SameChanges(p.request, q.request) =>
             DOMAIN p.document.patches \subseteq DOMAIN q.document.patches
        BY <2>1
    <2> QED
        BY <1>2, <2>1, <2>2 DEF Owes, e, q
<1>6. CASE ~ Prepares(p, r)
    <2>1. e = <<>> /\ q = p
        BY <1>2, <1>3, <1>4, <1>6
    <2> QED
        BY <1>2, <1>4, <2>1 DEF e, q
<1> QED
    BY <1>5, <1>6

(* What ShownPatchesStay says of a step, whether or not it is a key.          *)
KeepsShown ==
    /\ answers # <<>> => Head(answers).ok
    /\ pane.request # NoRequest /\ SameChanges(pane.request, pane'.request)
    => Stays(pane, pane', folding, pane'.request.files)

PaneNow ==
    /\ pane = panes[view] /\ view \in Views /\ panes \in [Views -> Pane]
    /\ Good(pane) /\ pane \in Pane /\ Shape(pane) /\ Refreshes(pane, folding)
    /\ generation \in Generation /\ generation \in Nat

LEMMA PaneIsNow ==
    ASSUME PreviewInv, ShownInv
    PROVE  PaneNow
<1>1. /\ pane = panes[view] /\ view \in Views /\ panes \in [Views -> Pane]
      /\ generation \in Generation /\ generation \in Nat
    BY DEF PreviewInv, Typed, pane, Generation
<1>2. Good(pane) /\ pane \in Pane
    BY <1>1 DEF PreviewInv, PanesInv, PanesAreGood, Good
<1>3. Shape(pane) /\ Refreshes(pane, folding)
    BY <1>1 DEF ShownInv
<1> QED
    BY <1>1, <1>2, <1>3 DEF PaneNow

LEMMA ShownIs ==
    ASSUME PaneNow, UNCHANGED view, NEW q, Show(q)
    PROVE  pane' = q
BY DEF PaneNow, Show, pane

LEMMA DocumentStays ==
    ASSUME NEW q, pane' = q, q.document = pane.document
    PROVE  KeepsShown
<1>1. Stays(pane, q, folding, q.request.files)
    BY DEF Stays
<1> QED
    BY <1>1 DEF KeepsShown

LEMMA NothingMoves ==
    ASSUME UNCHANGED <<view, panes>>
    PROVE  KeepsShown
<1>1. pane' = pane
    BY DEF pane
<1> QED
    BY <1>1, DocumentStays

LEMMA KeyCounts ==
    ASSUME PreviewInv, NEW key, Press(key)
    PROVE  used'.keys # used.keys
<1>1. used.keys \in Nat /\ used'.keys = used.keys + 1
    <2>1. Counted /\ used \in [keys : 0 .. MaxKeys, failures : Nat] /\ MaxKeys \in Nat
        BY PreviewAssumption DEF PreviewInv, Counted
    <2> QED
        BY <2>1, PressCounts
<1> QED
    BY <1>1

(* The lanes and the worker leave the panes alone.                            *)
LEMMA OutsideShows ==
    ASSUME PreviewInv, ShownInv,
           OutsideChange \/ Notice \/ Serving \/ (\E l \in Lanes : Execute(l)) \/ UNCHANGED vars
    PROVE  ShownInv' /\ KeepsShown
<1>1. UNCHANGED <<view, panes, generation, folding>>
    BY DEF OutsideChange, Notice, Serving, Execute, vars, preview
<1>2. \A c \in OnItsWay' : c \in OnItsWay
    <2>1. CASE OutsideChange \/ Notice \/ UNCHANGED vars
        <3>1. UNCHANGED <<outbox, mailbox, executing, answers>>
            BY <2>1 DEF OutsideChange, Notice, vars, lane
        <3> QED
            BY <3>1 DEF OnItsWay
    <2>2. CASE Serving
        <3>1. Serve /\ UNCHANGED <<session, generation>>
            BY <2>2 DEF Serving, preview
        <3> QED
            BY <3>1, ServeKeepsLanes DEF PreviewInv, Typed
    <2>3. CASE \E l \in Lanes : Execute(l)
        <3>1. PICK l \in Lanes : Execute(l)
            BY <2>3
        <3>2. tree \in [version : 1 .. MaxChanges + 1, files : Trees]
            BY DEF PreviewInv, Counted
        <3>3. PICK event \in Event : Answers(l, event)
            BY <3>1, <3>2, ExecuteAnswers DEF PreviewInv, Typed
        <3> QED
            BY <1>1, <3>3, ExecuteKeepsLanes DEF PreviewInv, Typed
    <2> QED
        BY <2>1, <2>2, <2>3
<1> QED
    BY <1>1, <1>2, ShownStays, NothingMoves

LEMMA HeartbeatShows ==
    ASSUME PreviewInv, ShownInv, Heartbeat \/ Ignore
    PROVE  ShownInv' /\ KeepsShown
<1>1. UNCHANGED <<view, panes, generation, folding>>
    BY DEF Heartbeat, Ignore, preview
<1>2. PICK e : e = RefreshEffects(refresh, refresh')
    OBVIOUS
<1>3. PICK none : none = <<>>
    OBVIOUS
<1>4. /\ Short(e) /\ (\A c \in Elements(e) : ~ Prepare(c))
      /\ Short(none) /\ (\A c \in Elements(none) : ~ Prepare(c))
    BY <1>2, <1>3, RefreshEffectsAre
<1>5. Handle(e) \/ (answers # <<>> /\ HandleAnswer(none))
    BY <1>2, <1>3 DEF Heartbeat, Ignore
<1>6. ShownInv'
    BY <1>1, <1>4, <1>5, RefreshingKeepsShown
<1> QED
    BY <1>1, <1>6, NothingMoves

LEMMA RenewShows ==
    ASSUME PreviewInv, ShownInv, NeverWraps, Renew, UNCHANGED <<view, folding>>,
           NEW effects, Short(effects), \A c \in Elements(effects) : ~ Prepare(c),
           Handle(effects)
    PROVE  ShownInv' /\ KeepsShown
<1>1. PICK q : q = Invalidated(pane)
    OBVIOUS
<1>2. PICK fold, g : fold = folding' /\ g = generation'
    OBVIOUS
<1>3. PaneNow
    BY PaneIsNow
<1>4. Show(q) /\ g = generation + 1 /\ g \in {generation, generation + 1}
    BY <1>1, <1>2, <1>3, FollowingIsNext DEF Renew, PaneNow
<1>5. Shape(q) /\ Refreshes(q, fold) /\ q.document = pane.document
    BY <1>1, <1>3, InvalidatedShows DEF PaneNow
<1>6. g # generation
    BY <1>3, <1>4 DEF PaneNow
<1>7. ShownInv'
    BY <1>2, <1>4, <1>5, <1>6, HandlerKeepsShown
<1>8. pane' = q
    BY <1>3, <1>4, ShownIs
<1> QED
    BY <1>5, <1>7, <1>8, DocumentStays

LEMMA SettleShows ==
    ASSUME PreviewInv, ShownInv, NeverWraps, Settle
    PROVE  ShownInv' /\ KeepsShown
<1>1. PICK e : e = RefreshEffects(refresh, refresh')
    OBVIOUS
<1>2. Short(e) /\ (\A c \in Elements(e) : ~ Prepare(c)) /\ Handle(e) /\ UNCHANGED <<view, folding>>
    BY <1>1, RefreshEffectsAre DEF Settle
<1>3. CASE ShowsTree
    <2>1. Renew
        BY <1>3 DEF Settle
    <2> QED
        BY <1>2, <2>1, RenewShows
<1>4. CASE ~ ShowsTree
    <2>1. UNCHANGED <<view, panes, generation, folding>>
        BY <1>2, <1>4 DEF Settle
    <2> QED
        BY <1>2, <2>1, RefreshingKeepsShown, NothingMoves
<1> QED
    BY <1>3, <1>4

(* The mark of a preview that was cut shows nothing.                          *)
LEMMA CutShows ==
    ASSUME PreviewInv, ShownInv, UNCHANGED <<view, generation, folding>>,
           NEW cut, panes' = [panes EXCEPT !["Changes"].cut = cut],
           \A c \in OnItsWay' : Prepare(c) => c \in OnItsWay
    PROVE  ShownInv'
<1>1. PaneNow /\ "Changes" \in Views
    BY PaneIsNow DEF Views
<1>2. PICK p : p = panes["Changes"]
    OBVIOUS
<1>3. PICK q : q = [p EXCEPT !.cut = cut]
    OBVIOUS
<1>4. p \in Pane
    BY <1>1, <1>2 DEF PaneNow
<1>5. /\ SameShown(p, q) /\ q.document_loading = p.document_loading
      /\ q.loading = p.loading /\ q.pending = p.pending
    BY <1>3, <1>4 DEF Pane, SameShown
<1>6. \A v \in Views : panes'[v] = IF v = "Changes" THEN q ELSE panes[v]
    BY <1>1, <1>2, <1>3 DEF PaneNow
<1>7. Shape(q)
    BY <1>1, <1>2, <1>5, ShapeStays DEF ShownInv
<1>8. pane' = IF view = "Changes" THEN q ELSE pane
    BY <1>1, <1>6 DEF PaneNow, pane
<1>9. Refreshes(pane', folding)
    <2>1. CASE view = "Changes"
        <3>1. Refreshes(p, folding)
            BY <1>1, <1>2, <2>1 DEF PaneNow
        <3>2. \A f : Reached(p, f) => Reached(q, f)
            BY <1>5 DEF Reached, SameShown
        <3> QED
            BY <1>5, <1>8, <2>1, <3>1, <3>2, RefreshesStays
    <2>2. CASE view # "Changes"
        BY <1>1, <1>8, <2>2 DEF PaneNow
    <2> QED
        BY <2>1, <2>2
<1>10. Owes(pane) => Owes(pane')
    <2>1. CASE view = "Changes"
        BY <1>1, <1>2, <1>5, <1>8, <2>1 DEF PaneNow, Owes, SameShown
    <2>2. CASE view # "Changes"
        BY <1>8, <2>2
    <2> QED
        BY <2>1, <2>2
<1>11. IndexPreserves'
    <2> SUFFICES ASSUME NEW c \in OnItsWay', Prepare(c), c.generation = generation
                 PROVE  Owes(pane')
        BY DEF IndexPreserves
    <2>1. Owes(pane)
        BY DEF ShownInv, IndexPreserves
    <2> QED
        BY <1>10, <2>1
<1>12. \A v \in Views : Shape(panes'[v])
    BY <1>6, <1>7 DEF ShownInv
<1> QED
    BY <1>9, <1>11, <1>12 DEF ShownInv

LEMMA ActiveRefreshShows ==
    ASSUME PreviewInv, ShownInv, NeverWraps, ActiveRefresh
    PROVE  ShownInv' /\ used'.keys # used.keys
<1>1. PICK e : e = RefreshEffects(refresh, refresh')
    OBVIOUS
<1>2. Short(e) /\ (\A c \in Elements(e) : ~ Prepare(c)) /\ Handle(e) /\ UNCHANGED <<view, folding>>
    BY <1>1, RefreshEffectsAre DEF ActiveRefresh
<1>3. used'.keys # used.keys
    BY KeyCounts DEF ActiveRefresh
<1>4. CASE ShowsTree
    <2>1. Renew
        BY <1>4 DEF ActiveRefresh
    <2> QED
        BY <1>2, <1>3, <2>1, RenewShows
<1>5. CASE ~ ShowsTree
    <2>1. UNCHANGED generation
          /\ panes' = [panes EXCEPT !["Changes"].cut = @ \/ (due.refresh /\ view # "Changes")]
        BY <1>5 DEF ActiveRefresh
    <2>2. PICK cut : panes' = [panes EXCEPT !["Changes"].cut = cut]
        <3>1. due.refresh \in BOOLEAN /\ panes["Changes"].cut \in BOOLEAN
            BY DEF PreviewInv, Counted, Typed, Pane, Views
        <3>2. PICK cut \in BOOLEAN : cut = (panes["Changes"].cut \/ (due.refresh /\ view # "Changes"))
            BY <3>1
        <3> QED
            BY <2>1, <3>2
    <2>3. OnItsWay' \subseteq OnItsWay \cup Elements(e)
        BY <1>2, HandlerSends DEF Short, PreviewInv, Typed
    <2>4. ShownInv'
        BY <1>2, <2>1, <2>2, <2>3, CutShows
    <2> QED
        BY <1>3, <2>4
<1> QED
    BY <1>4, <1>5

LEMMA SelectShows ==
    ASSUME PreviewInv, ShownInv, NeverWraps, NEW sel, Select(sel)
    PROVE  ShownInv' /\ used'.keys # used.keys
<1>1. used'.keys # used.keys
    BY KeyCounts DEF Select
<1>2. PICK none, q, fold, g :
         /\ none = <<>> /\ fold = folding' /\ g = generation'
         /\ q = [Reset(pane) EXCEPT !.document_loading = FALSE, !.document = Blank]
    OBVIOUS
<1>3. Short(none) /\ Elements(none) = {} /\ Handle(none) /\ UNCHANGED <<view, folding>>
    BY <1>2, RefreshEffectsAre DEF Select
<1>4. PaneNow
    BY PaneIsNow
<1>5. CASE UNCHANGED <<generation, panes, due>>
    BY <1>1, <1>3, <1>5, RefreshingKeepsShown
<1>6. CASE /\ generation' = Following(generation)
           /\ Show([Reset(pane) EXCEPT !.document_loading = FALSE, !.document = Blank])
           /\ due' = [due EXCEPT !.preview = TRUE]
    <2>1. Show(q) /\ g = generation + 1 /\ g \in {generation, generation + 1}
        BY <1>2, <1>4, <1>6, FollowingIsNext DEF PaneNow
    <2>2. Shape(q) /\ Refreshes(q, fold)
        BY <1>2, <1>4, ClearedShows DEF PaneNow
    <2>3. g # generation
        BY <1>4, <2>1 DEF PaneNow
    <2>4. ShownInv'
        BY <1>2, <1>3, <2>1, <2>2, <2>3, HandlerKeepsShown
    <2> QED
        BY <1>1, <2>4
<1> QED
    BY <1>5, <1>6 DEF Select

(* A subject that is asked for.                                               *)
LEMMA RequestedShows ==
    ASSUME PreviewInv, ShownInv, NeverWraps, UNCHANGED <<view, folding>>,
           NEW p, Good(p), Shape(p), Refreshes(p, folding), Owes(pane) => Owes(p),
           NEW st \in Trees \cup {<<>>}, NEW sel \in Selection, NEW ver \in Nat,
           NEW e, e = RequestEffects(p, st, sel, ver, generation),
           Show(Request(p, st, sel, ver)), generation' = GenerationAfter(e, generation),
           Handle(e) \/ (answers # <<>> /\ HandleAnswer(e))
    PROVE  ShownInv' /\ (p = pane => KeepsShown)
<1>1. PICK q, fold, g : q = Request(p, st, sel, ver) /\ fold = folding' /\ g = generation'
    OBVIOUS
<1>2. PaneNow /\ st \in Seq(Files)
    BY PaneIsNow, NothingTyped, PreviewAssumption
<1>3. /\ Short(e) /\ g \in {generation, generation + 1} /\ Show(q)
    BY <1>1, <1>2, RequestKeeps DEF PaneNow
<1>4. /\ Shape(q) /\ Refreshes(q, folding)
      /\ SameChanges(p.request, q.request) =>
            DOMAIN p.document.patches \subseteq DOMAIN q.document.patches
      /\ \/ e = <<>> /\ q = p /\ g = generation
         \/ Owes(q) /\ g = generation + 1
    BY <1>1, <1>2, RequestShows DEF PaneNow
<1>5. \A c \in Elements(e) : Prepare(c) => Owes(q)
    BY <1>4, RefreshEffectsAre
<1>6. ASSUME g = generation, NEW c \in OnItsWay \cap OnItsWay', Prepare(c), c.generation = generation
      PROVE  Owes(q)
    <2>1. Owes(pane)
        BY <1>6 DEF ShownInv, IndexPreserves
    <2> QED
        BY <1>4, <2>1
<1>7. ShownInv'
    BY <1>1, <1>3, <1>4, <1>5, <1>6, HandlerKeepsShown
<1>8. pane' = q
    BY <1>2, <1>3, ShownIs
<1>9. ASSUME p = pane PROVE KeepsShown
    BY <1>4, <1>8, <1>9 DEF KeepsShown, Stays
<1> QED
    BY <1>7, <1>9

LEMMA PreviewShows ==
    ASSUME PreviewInv, ShownInv, NeverWraps, Preview
    PROVE  ShownInv' /\ KeepsShown
<1>1. PICK e : e = RequestEffects(pane, status, selection, version, generation)
    OBVIOUS
<1>2. /\ Show(Request(pane, status, selection, version))
      /\ generation' = GenerationAfter(e, generation) /\ Handle(e)
      /\ UNCHANGED <<view, folding>>
    BY <1>1 DEF Preview
<1>3. PaneNow /\ selection \in Selection /\ version \in Nat /\ status \in Trees \cup {<<>>}
    BY PaneIsNow DEF PreviewInv, Typed, Counted
<1> QED
    BY <1>1, <1>2, <1>3, RequestedShows DEF PaneNow

LEMMA CompareShows ==
    ASSUME PreviewInv, ShownInv, NeverWraps, Compare
    PROVE  ShownInv' /\ used'.keys # used.keys
<1>1. PICK p : p = [pane EXCEPT !.comparing = ~ @]
    OBVIOUS
<1>2. PICK e : e = RequestEffects(p, status, selection, version, generation)
    OBVIOUS
<1>3. /\ Show(Request(p, status, selection, version))
      /\ generation' = GenerationAfter(e, generation) /\ Handle(e)
      /\ UNCHANGED <<view, folding>> /\ used'.keys # used.keys
    BY <1>1, <1>2, KeyCounts DEF Compare
<1>4. PaneNow /\ selection \in Selection /\ version \in Nat /\ status \in Trees \cup {<<>>}
    BY PaneIsNow DEF PreviewInv, Typed, Counted
<1>5. p = [pane EXCEPT !.comparing = p.comparing] /\ p.comparing \in BOOLEAN
    BY <1>1, <1>4 DEF PaneNow, Pane
<1>6. /\ p \in Pane /\ SameShown(pane, p) /\ SameReads(pane, p)
    <2>1. PICK q, b : q = pane /\ b = p.comparing
        OBVIOUS
    <2>2. q \in Pane /\ b \in BOOLEAN /\ p = [q EXCEPT !.comparing = b]
        BY <1>4, <1>5, <2>1 DEF PaneNow
    <2>3. p \in Pane
        BY <2>2 DEF Pane
    <2>4. SameShown(q, p)
        BY <2>2 DEF Pane, SameShown
    <2>5. SameReads(q, p)
        BY <2>2 DEF Pane, SameReads
    <2> QED
        BY <2>1, <2>3, <2>4, <2>5
<1>7. Good(p)
    BY <1>4, <1>6 DEF PaneNow, Good, Kept, Queued, SameShown, SameReads
<1>8. Shape(p)
    BY <1>4, <1>6, ShapeStays DEF PaneNow, SameReads
<1>9. Refreshes(p, folding)
    <2>1. \A f : Reached(pane, f) => Reached(p, f)
        BY <1>6 DEF Reached, SameShown, SameReads
    <2> QED
        BY <1>4, <1>6, <2>1, RefreshesStays DEF PaneNow, SameReads
<1>10. Owes(pane) => Owes(p)
    BY <1>6 DEF Owes, SameShown, SameReads
<1> QED
    BY <1>2, <1>3, <1>4, <1>7, <1>8, <1>9, <1>10, RequestedShows

(* A handler that reads files of a pane.                                      *)
LEMMA ReadingShows ==
    ASSUME PreviewInv, ShownInv, UNCHANGED <<view, generation>>,
           NEW p, NEW q, Good(q), Show(q),
           NEW fold, fold = folding', Shape(q), Refreshes(q, fold),
           \/ Handle(FileEffects(p, q, generation))
           \/ answers # <<>> /\ HandleAnswer(FileEffects(p, q, generation)),
           \A c \in OnItsWay \cap OnItsWay' : Prepare(c) /\ c.generation = generation => Owes(q)
    PROVE  ShownInv'
<1>1. PICK e : e = FileEffects(p, q, generation)
    OBVIOUS
<1>2. PICK g : g = generation'
    OBVIOUS
<1>3. PaneNow /\ q \in Pane
    BY PaneIsNow DEF Good
<1>4. Short(e) /\ (\A c \in Elements(e) : ~ Prepare(c))
    BY <1>1, <1>3, FileEffectsAre DEF PaneNow
<1>5. g = generation
    BY <1>2
<1> QED
    BY <1>1, <1>2, <1>4, <1>5, HandlerKeepsShown

LEMMA ToggleShows ==
    ASSUME PreviewInv, ShownInv, NEW f \in Files, Toggle(f)
    PROVE  ShownInv' /\ used'.keys # used.keys
<1>1. PICK q, fold : q = Toggled(pane, f) /\ fold = folding'
    OBVIOUS
<1>2. /\ Show(q) /\ Handle(FileEffects(pane, q, generation))
      /\ UNCHANGED <<view, generation, folding>> /\ used'.keys # used.keys
    BY <1>1, KeyCounts DEF Toggle
<1>3. PaneNow
    BY PaneIsNow
<1>4. Good(q) /\ q.document_loading = pane.document_loading
    BY <1>1, <1>3, ToggledKeeps DEF PaneNow
<1>5. /\ Shape(q) /\ Refreshes(q, fold)
      /\ q.preserving = pane.preserving /\ q.preserved = pane.preserved
    BY <1>1, <1>2, <1>3, ToggledShows DEF PaneNow
<1>6. \A c \in OnItsWay : Prepare(c) /\ c.generation = generation => Owes(q)
    BY <1>4, <1>5 DEF ShownInv, IndexPreserves, Owes
<1>7. ShownInv'
    BY <1>1, <1>2, <1>4, <1>5, <1>6, ReadingShows
<1> QED
    BY <1>2, <1>7

LEMMA ToggleAllShows ==
    ASSUME PreviewInv, ShownInv, ToggleAll
    PROVE  ShownInv' /\ used'.keys # used.keys
<1>1. PICK fold : fold = folding'
    OBVIOUS
<1>2. PICK q : q = AllToggled(pane, fold)
    OBVIOUS
<1>3. /\ Show(q) /\ Handle(FileEffects(pane, q, generation))
      /\ UNCHANGED <<view, generation>> /\ used'.keys # used.keys
    BY <1>1, <1>2, KeyCounts DEF ToggleAll
<1>4. PaneNow
    BY PaneIsNow
<1>5. Good(q) /\ q.document_loading = pane.document_loading
    BY <1>2, <1>4, AllToggledKeeps DEF PaneNow
<1>6. /\ Shape(q) /\ Refreshes(q, fold)
      /\ q.preserving = pane.preserving /\ q.preserved = pane.preserved
    BY <1>2, <1>4, AllToggledShows DEF PaneNow
<1>7. \A c \in OnItsWay : Prepare(c) /\ c.generation = generation => Owes(q)
    BY <1>5, <1>6 DEF ShownInv, IndexPreserves, Owes
<1>8. ShownInv'
    BY <1>1, <1>3, <1>5, <1>6, <1>7, ReadingShows
<1> QED
    BY <1>3, <1>8

LEMMA SwitchShows ==
    ASSUME PreviewInv, ShownInv, NeverWraps, NEW v \in Views, Switch(v)
    PROVE  ShownInv' /\ used'.keys # used.keys
<1>1. PICK left, q, g : left = Left(pane) /\ q = Resumed(panes[v]) /\ g = generation'
    OBVIOUS
<1>2. PICK e : e = FileEffects(panes[v], q, g)
    OBVIOUS
<1>3. PaneNow
    BY PaneIsNow
<1>4. /\ v # view /\ view' = v /\ Handle(e) /\ g = Following(generation)
      /\ panes' = [panes EXCEPT ![view] = left, ![v] = q] /\ UNCHANGED folding
      /\ used'.keys # used.keys
    BY <1>1, <1>2, <1>3, KeyCounts DEF Switch, PaneNow
<1>5. Good(panes[v]) /\ panes[v].loading = NoFile /\ Shape(panes[v])
    BY <1>4 DEF PreviewInv, PanesInv, PanesAreGood, ShownInv
<1>6. g = generation + 1 /\ g \in Generation
    BY <1>3, <1>4, FollowingIsNext DEF PaneNow
<1>7. Shape(left)
    BY <1>1, <1>3, LeftShows DEF PaneNow
<1>8. Shape(q) /\ Refreshes(q, folding) /\ q \in Pane
    BY <1>1, <1>5, ResumedShows, ResumedKeeps DEF Good
<1>9. Short(e) /\ \A c \in Elements(e) : ~ Prepare(c)
    BY <1>2, <1>6, <1>8, FileEffectsAre
<1>10. \A w \in Views : panes'[w] = IF w = v THEN q ELSE IF w = view THEN left ELSE panes[w]
    BY <1>3, <1>4 DEF PaneNow
<1>11. pane' = q
    BY <1>4, <1>10 DEF pane
<1>12. \A w \in Views : Shape(panes'[w])
    BY <1>7, <1>8, <1>10 DEF ShownInv
<1>13. Refreshes(pane', folding')
    BY <1>4, <1>8, <1>11
<1>14. OnItsWay' \subseteq OnItsWay \cup Elements(e)
    BY <1>4, <1>9, HandlerSends DEF Short, PreviewInv, Typed
<1>15. ASSUME NEW c \in OnItsWay', Prepare(c), c.generation = g PROVE FALSE
    <2>1. c \in OnItsWay
        BY <1>9, <1>14, <1>15
    <2>2. c.generation \in 1 .. generation
        BY <1>15, <2>1 DEF PreviewInv, LanesInv, NoneIsAhead
    <2> QED
        BY <1>3, <1>6, <1>15, <2>2 DEF PaneNow
<1>16. IndexPreserves'
    BY <1>1, <1>15 DEF IndexPreserves
<1> QED
    BY <1>4, <1>12, <1>13, <1>16 DEF ShownInv

LEMMA HearIndexShows ==
    ASSUME PreviewInv, ShownInv, NEW e, HearIndex(e)
    PROVE  ShownInv' /\ KeepsShown
<1>1. PICK files : files = e.command.request.files
    OBVIOUS
<1>2. PICK q : q = IF e.ok THEN Indexed(pane, files, folding)
                   ELSE IF pane.preserving THEN Aborted(pane)
                   ELSE [Reset(pane) EXCEPT !.document_loading = FALSE, !.document = Blank]
    OBVIOUS
<1>3. PICK b : b = [pane EXCEPT !.loading = NoFile]
    OBVIOUS
<1>4. PICK fold : fold = folding'
    OBVIOUS
<1>5. /\ answers # <<>> /\ e = Head(answers) /\ Prepare(e.command)
      /\ e.command.generation = generation
      /\ Show(q) /\ HandleAnswer(FileEffects(b, q, generation))
      /\ UNCHANGED <<view, generation, folding>>
    BY <1>1, <1>2, <1>3 DEF HearIndex, Hears, Current, Prepare
<1>6. PaneNow
    BY PaneIsNow
<1>7. e \in Event /\ e.command \in OnItsWay
    <2>1. answers \in Seq(Event)
        BY DEF PreviewInv, Typed, LaneTypeOK
    <2>2. e \in Event /\ e \in Elements(answers)
        BY <1>5, <2>1, TailElements
    <2> QED
        BY <2>2 DEF OnItsWay, Elements
<1>8. pane.workspace = 0 /\ pane.request = e.command.request
    BY <1>5, <1>7 DEF PreviewInv, PanesInv, IndexIsAwaited
<1>9. files \in Seq(Files) /\ IsInjective(files) /\ (pane.preserving \/ pane.preserved = {})
    <2>1. files \in Seq(Files)
        BY <1>1, <1>7 DEF Event, Command, LocalDiffRequest
    <2>2. IsInjective(files)
        BY <1>1, <1>6, <1>8 DEF PaneNow, Shape
    <2>3. Owes(pane)
        BY <1>5, <1>7 DEF ShownInv, IndexPreserves
    <2> QED
        BY <2>1, <2>2, <2>3 DEF Owes
<1>10. /\ Good(q) /\ Shape(q) /\ Refreshes(q, folding)
       /\ e.ok => /\ q.request = pane.request
                  /\ \A f \in DOMAIN pane.document.patches :
                        f \notin ToSet(files) \/ f \in DOMAIN q.document.patches
    <2>1. CASE e.ok
        <3>1. q = Indexed(pane, files, folding)
            BY <1>2, <2>1
        <3> QED
            BY <1>6, <1>8, <1>9, <3>1, IndexedShows, IndexedKeeps DEF PaneNow
    <2>2. CASE ~ e.ok /\ pane.preserving
        <3>1. q = Aborted(pane)
            BY <1>2, <2>2
        <3> QED
            BY <1>6, <2>2, <3>1, AbortedShows, AbortedKeeps DEF PaneNow
    <2>3. CASE ~ e.ok /\ ~ pane.preserving
        <3>1. q = [Reset(pane) EXCEPT !.document_loading = FALSE, !.document = Blank]
            BY <1>2, <2>3
        <3> QED
            BY <1>6, <2>3, <3>1, ClearedShows, ClearedKeeps DEF PaneNow
    <2> QED
        BY <2>1, <2>2, <2>3
<1>11. \A c \in OnItsWay' : Prepare(c) => c.generation # generation
    BY <1>5, <1>6, <1>10, HeadIsAlone DEF PreviewInv, Typed, Good, PaneNow
<1>12. ShownInv'
    BY <1>4, <1>5, <1>10, <1>11, ReadingShows
<1>13. pane' = q
    BY <1>5, <1>6, ShownIs
<1>14. KeepsShown
    <2>1. CASE e.ok
        <3>1. q.request.files = files
            BY <1>1, <1>8, <1>10, <2>1
        <3> QED
            BY <1>10, <1>13, <2>1, <3>1 DEF KeepsShown, Stays
    <2>2. CASE ~ e.ok
        BY <1>5, <2>2 DEF KeepsShown
    <2> QED
        BY <2>1, <2>2
<1> QED
    BY <1>12, <1>14

LEMMA HearFileShown ==
    ASSUME PreviewInv, ShownInv, NEW e, HearFile(e)
    PROVE  ShownInv' /\ KeepsShown
<1>1. PICK p : p = FileHeard(pane, e)
    OBVIOUS
<1>2. PICK q, fold : q = WithNextFile(p, folding) /\ fold = folding'
    OBVIOUS
<1>3. /\ answers # <<>> /\ e = Head(answers) /\ Load(e.command)
      /\ e.command.workspace = pane.workspace
      /\ e.command.path = pane.loading /\ e.command.path \in ToSet(pane.index)
      /\ Show(q) /\ HandleAnswer(FileEffects(p, q, generation))
      /\ UNCHANGED <<view, generation, folding>>
    BY <1>1, <1>2 DEF HearFile, Hears, Current, Load
<1>4. PaneNow
    BY PaneIsNow
<1>5. e \in Event /\ e \in Elements(answers) /\ e.patch \in Patch
    <2>1. answers \in Seq(Event)
        BY DEF PreviewInv, Typed, LaneTypeOK
    <2>2. e \in Event /\ e \in Elements(answers)
        BY <1>3, <2>1, TailElements
    <2> QED
        BY <2>2 DEF Event
<1>6. pane.workspace # 0
    <2>1. NoFile \notin ToSet(pane.index)
        BY <1>4, FilesOfList DEF PaneNow, Pane
    <2> QED
        BY <1>3, <1>4, <2>1, GoodWhenLoading DEF PaneNow
<1>7. /\ session[view].generation = pane.workspace
      /\ pane.request \in {session[view].request, NoRequest}
      /\ pane.index = session[view].request.files
    BY <1>4, <1>6 DEF PaneNow, PreviewInv, PanesInv, WorkspacesAreLatest, WorkspacesAreKept
<1>8. e.ok => /\ e.patch.kind = session[view].request.kind
              /\ e.patch.name = session[view].request.name
    BY <1>3, <1>4, <1>5, <1>7 DEF PaneNow, PreviewInv, LanesInv, PatchesAreOfTheWorkspace
<1>9. e.ok /\ e.patch # Failed /\ pane.request # NoRequest
         => e.patch.kind = pane.request.kind /\ e.patch.name = pane.request.name
    BY <1>7, <1>8
<1>10. /\ Good(p) /\ p.loading = NoFile /\ p.request \in {pane.request, NoRequest}
    BY <1>1, <1>3, <1>4, <1>5, <1>9, FileHeardKeeps DEF PaneNow
<1>11. Good(q) /\ q.request = p.request
    BY <1>2, <1>10, NextFileReads DEF SameWork
<1>12. /\ Shape(q) /\ Refreshes(q, folding)
       /\ e.ok /\ e.patch # Failed => Stays(pane, q, folding, pane.index)
    BY <1>1, <1>2, <1>3, <1>4, <1>5, <1>6, <1>9, HearFileShows DEF PaneNow
<1>13. \A c \in OnItsWay : ~ (Prepare(c) /\ c.generation = generation)
    BY <1>6 DEF PreviewInv, PanesInv, IndexIsAwaited
<1>14. ShownInv'
    BY <1>2, <1>3, <1>11, <1>12, <1>13, ReadingShows
<1>15. pane' = q
    BY <1>3, <1>4, ShownIs
<1>16. ASSUME e.ok, pane.request # NoRequest, SameChanges(pane.request, q.request)
       PROVE  Stays(pane, q, folding, q.request.files)
    <2>1. pane.request.kind = q.request.kind /\ pane.request.kind \in {"section", "change"}
        BY <1>16 DEF SameChanges
    <2>2. q.request = pane.request
        BY <1>10, <1>11, <2>1 DEF NoRequest
    <2>3. pane.request = session[view].request
        BY <1>7, <1>16
    <2>4. e.patch # Failed
        BY <1>8, <1>16, <2>1, <2>3 DEF Failed
    <2> QED
        BY <1>7, <1>12, <1>16, <2>2, <2>3, <2>4
<1>17. KeepsShown
    BY <1>3, <1>15, <1>16 DEF KeepsShown
<1> QED
    BY <1>14, <1>17

LEMMA HearStatusShows ==
    ASSUME PreviewInv, ShownInv, NeverWraps, NEW e, HearStatus(e)
    PROVE  ShownInv' /\ KeepsShown
<1> DEFINE again == refresh.again
           shown == e.ok /\ view = "Changes" /\ ~ again
<1>1. PICK heard : heard = [refresh EXCEPT !.loading = FALSE, !.again = FALSE, !.failed = ~ e.ok]
    OBVIOUS
<1>2. PICK r : r = IF again THEN RequestRefresh(heard) ELSE heard
    OBVIOUS
<1>3. PICK st : st = (IF e.ok THEN e.files ELSE status)
    OBVIOUS
<1>4. PICK sel : sel = (IF e.ok THEN RestoredSelection(st) ELSE selection)
    OBVIOUS
<1>5. PICK p : p = IF ~ e.ok /\ pane.preserving /\ ~ pane.document_loading
                   THEN Aborted(pane) ELSE pane
    OBVIOUS
<1>6. PICK ask : ask = IF shown THEN RequestEffects(p, st, sel, version, generation) ELSE <<>>
    OBVIOUS
<1>7. /\ answers # <<>> /\ e = Head(answers)
      /\ Show(IF shown THEN Request(p, st, sel, version) ELSE p)
      /\ generation' = GenerationAfter(ask, generation)
      /\ HandleAnswer(ask \o RefreshEffects(heard, r))
      /\ UNCHANGED <<view, folding>>
    BY <1>1, <1>2, <1>3, <1>4, <1>5, <1>6 DEF HearStatus, Hears
<1>8. PaneNow /\ selection \in Selection /\ version \in Nat
    BY PaneIsNow DEF PreviewInv, Typed, Counted
<1>9. e \in Event
    <2>1. answers \in Seq(Event)
        BY DEF PreviewInv, Typed, LaneTypeOK
    <2> QED
        BY <1>7, <2>1, TailElements
<1>10. st \in Trees \cup {<<>>} /\ st \in Seq(Files) /\ sel \in Selection
    <2>1. st \in Trees \cup {<<>>}
        BY <1>3, <1>9 DEF Event, PreviewInv, Typed
    <2>2. st \in Seq(Files)
        BY <2>1, NothingTyped, PreviewAssumption
    <2> QED
        BY <1>4, <1>8, <2>1, <2>2, RestoredTyped
<1>11. CASE shown
    <2>1. p = pane /\ r = heard /\ ask = RequestEffects(pane, st, sel, version, generation)
        BY <1>2, <1>5, <1>6, <1>11
    <2>2. Short(ask)
        BY <1>8, <1>10, <2>1, RequestKeeps DEF PaneNow
    <2>3. ask \o RefreshEffects(heard, r) = ask
        BY <2>1, <2>2, ConcatEmptySeq DEF RefreshEffects, Short
    <2>4. HandleAnswer(ask) /\ Show(Request(pane, st, sel, version))
        BY <1>7, <1>11, <2>1, <2>3
    <2> QED
        BY <1>7, <1>8, <1>10, <2>1, <2>4, RequestedShows DEF PaneNow
<1>12. CASE ~ shown
    <2>1. PICK f : f = RefreshEffects(heard, r)
        OBVIOUS
    <2>2. Short(f) /\ \A c \in Elements(f) : ~ Prepare(c)
        BY <2>1, RefreshEffectsAre
    <2>3. ask = <<>> /\ ask \o f = f
        BY <1>6, <1>12, <2>2, ConcatEmptySeq DEF Short
    <2>4. generation' = generation /\ HandleAnswer(f) /\ Show(p)
        <3>1. DOMAIN <<>> = {}
            OBVIOUS
        <3>2. GenerationAfter(<<>>, generation) = generation
            BY <3>1 DEF GenerationAfter
        <3> QED
            BY <1>7, <1>12, <2>1, <2>3, <3>2
    <2>5. CASE p = pane
        <3>1. panes' = panes
            BY <1>8, <2>4, <2>5 DEF Show, PaneNow
        <3> QED
            BY <1>7, <2>2, <2>4, <3>1, RefreshingKeepsShown, NothingMoves
    <2>6. CASE p = Aborted(pane) /\ ~ e.ok /\ pane.preserving /\ ~ pane.document_loading
        <3>1. PICK fold, g : fold = folding' /\ g = generation'
            OBVIOUS
        <3>2. Shape(p) /\ Refreshes(p, fold)
            BY <1>8, <2>6, AbortedShows DEF PaneNow
        <3>3. \A c \in OnItsWay : ~ (Prepare(c) /\ c.generation = generation)
            BY <2>6 DEF ShownInv, IndexPreserves, Owes
        <3>4. g = generation
            BY <2>4, <3>1
        <3>5. ShownInv'
            BY <1>7, <2>2, <2>4, <3>1, <3>2, <3>3, <3>4, HandlerKeepsShown
        <3>6. KeepsShown
            BY <1>7, <2>6 DEF KeepsShown
        <3> QED
            BY <3>5, <3>6
    <2> QED
        BY <1>5, <2>5, <2>6
<1> QED
    BY <1>11, <1>12

LEMMA NewPaneShows == Shape(NewPane) /\ \A fold : Refreshes(NewPane, fold)
<1>1. PICK nothing, patches, blank, none :
         nothing = <<>> /\ patches = NoPatches /\ blank = Blank /\ none = NoRequest
    OBVIOUS
<1>2. /\ IsInjective(none.files) /\ IsInjective(blank.headers) /\ IsInjective(nothing)
      /\ DOMAIN blank.patches = {} /\ ToSet(blank.headers) = {}
    BY <1>1, BlankIsInjective, NoPatchesTyped, NothingTyped DEF Blank
<1>3. PICK p : p = NewPane
    OBVIOUS
<1>4. /\ p.request = none /\ p.index = nothing /\ p.document = blank /\ p.preserved = {}
      /\ ~ p.indexed /\ ~ p.preserving
    BY <1>1, <1>3 DEF NewPane
<1>5. IsFiniteSet(p.preserved)
    BY <1>4, FS_EmptySet
<1>6. Shape(p) /\ \A fold : Refreshes(p, fold)
    BY <1>2, <1>4, <1>5 DEF Shape, Refreshes
<1> QED
    BY <1>3, <1>6

LEMMA InitShows == Init => ShownInv
<1> SUFFICES ASSUME Init PROVE ShownInv
    OBVIOUS
<1>1. PICK c : c = Asks("Refresh", 0, NoRequest, 0, NoFile)
    OBVIOUS
<1>2. PICK p : p = NewPane
    OBVIOUS
<1>3. ~ Prepare(c)
    BY <1>1 DEF Asks, Prepare
<1>4. /\ outbox = <<c>> /\ mailbox = [l \in Lanes |-> NewMailbox]
      /\ executing = [l \in Lanes |-> NoCommand] /\ answers = <<>>
      /\ panes = [v \in Views |-> p] /\ view = "Changes"
    BY <1>1, <1>2 DEF Init, InitLane
<1>5. \A d \in OnItsWay : d = c
    <2>1. \A l \in Lanes : Waiting(mailbox[l]) = {}
        <3>1. \A l \in Lanes : mailbox[l].operations = <<>> /\ Full(mailbox[l]) = {}
            BY <1>4 DEF NewMailbox, Full
        <3> QED
            BY <3>1, NothingTyped DEF Waiting
    <2>2. {executing[l] : l \in Lanes} \ {NoCommand} = {}
        BY <1>4
    <2>3. {outbox[i] : i \in DOMAIN outbox} = {c}
        BY <1>4
    <2>4. {answers[i].command : i \in DOMAIN answers} = {}
        BY <1>4, NothingTyped
    <2> QED
        BY <2>1, <2>2, <2>3, <2>4 DEF OnItsWay
<1>6. IndexPreserves
    BY <1>3, <1>5 DEF IndexPreserves
<1>7. Shape(p) /\ \A fold : Refreshes(p, fold)
    BY <1>2, NewPaneShows
<1>8. pane = p /\ \A v \in Views : panes[v] = p
    BY <1>4 DEF pane, Views
<1> QED
    BY <1>6, <1>7, <1>8 DEF ShownInv

LEMMA NextShows ==
    ASSUME PreviewInv, ShownInv, NeverWraps, [Next]_vars
    PROVE  ShownInv' /\ (used'.keys = used.keys => KeepsShown)
<1>1. CASE OutsideChange \/ Notice \/ Serving \/ (\E l \in Lanes : Execute(l)) \/ UNCHANGED vars
    BY <1>1, OutsideShows
<1>2. CASE Heartbeat
    BY <1>2, HeartbeatShows
<1>3. CASE Tick
    BY <1>3, SettleShows, PreviewShows DEF Tick
<1>4. CASE User
    BY <1>4, ActiveRefreshShows, CompareShows, ToggleAllShows, SelectShows, SwitchShows, ToggleShows
       DEF User
<1>5. CASE Hear
    BY <1>5, HeartbeatShows, HearStatusShows, HearIndexShows, HearFileShown DEF Hear
<1> QED
    BY <1>1, <1>2, <1>3, <1>4, <1>5 DEF Next

LEMMA ShownStaysSound == Safe /\ []NeverWraps => []ShownInv
<1>1. Init => ShownInv
    BY InitShows
<1>2. PreviewInv /\ ShownInv /\ NeverWraps /\ [Next]_vars => ShownInv'
    BY NextShows
<1> QED
    BY <1>1, <1>2, PreviewStaysSound, PTL DEF Safe

(* A refresh takes no patch of an unfolded file away: what it reads stays     *)
(* hidden until every file on display is read again, however many trees,      *)
(* files and keys there are.                                                  *)
THEOREM PatchesStayShown == Safe /\ []NeverWraps => ShownPatchesStay
<1>1. PreviewInv /\ ShownInv /\ NeverWraps /\ [Next]_vars =>
        [ /\ used.keys' = used.keys
          /\ answers # <<>> => Head(answers).ok
          /\ pane.request # NoRequest
          /\ SameChanges(pane.request, pane'.request)
          => \A f \in DOMAIN pane.document.patches :
                \/ f \notin ToSet(pane'.request.files)
                \/ Collapsed(pane, folding, f)
                \/ Len(pane.document.headers) = 1 /\ Len(pane'.request.files) > 1
                \/ f \in DOMAIN pane'.document.patches ]_vars
    <2> SUFFICES ASSUME PreviewInv, ShownInv, NeverWraps, [Next]_vars,
                        used'.keys = used.keys, answers # <<>> => Head(answers).ok,
                        pane.request # NoRequest, SameChanges(pane.request, pane'.request)
                 PROVE  Stays(pane, pane', folding, pane'.request.files)
        BY DEF Stays
    <2>1. KeepsShown
        BY NextShows
    <2> QED
        BY <2>1 DEF KeepsShown
<1> QED
    BY <1>1, PreviewStaysSound, ShownStaysSound, PTL DEF Safe, ShownPatchesStay
=============================================================================
