------------------------------ MODULE StateFiles ------------------------------
(***************************************************************************)
(* The files under the state directory: recent projects, recent remotes,   *)
(* the tabs of the last session, the folds of the project picker and the   *)
(* preferences.  Each is read whole, changed and written to a staging file *)
(* next to it, which is renamed into its place.  The staging file has the  *)
(* same name in every process.                                             *)
(*                                                                         *)
(* A file is a name for an inode.  Writing truncates the inode that the    *)
(* staging name has, or makes one, and fills it in a second step: whoever  *)
(* renames between the two renames a torn file.  That takes two writers at *)
(* once, which nothing prevents; what the code guarantees is that a file   *)
(* is torn by nothing else, a crash included, and not for long.            *)
(***************************************************************************)
EXTENDS Naturals, FiniteSets, Sequences, SequencesExt

CONSTANTS
    Writers,       \* the processes
    CommonDirOf,   \* the repository each worktree belongs to
    Targets,       \* machines
    Folders,       \* on machines
    MaxProjects,   \* MAX_RECENT_PROJECTS
    MaxMachines,   \* MAX_SSH_MACHINES
    MaxUses,       \* where the count of uses saturates
    StateBounds,   \* the kind of file, whether calls of two processes overlap,
                   \* and bounds on calls and crashes
    Torn           \* what an inode holds that is not, or not wholly, written

VARIABLES
    inodes,        \* what each inode holds
    names,         \* the inodes of the file and of its staging file, 0 for none
    writers,       \* what each process is doing
    uses,          \* how often each folder was recorded since it came into the list
    done           \* the bounds, the calls and crashes so far, and whether the writer
                   \* that renamed last had company

stateVars == <<inodes, names, writers, uses, done>>

Worktrees == DOMAIN CommonDirOf
Nothing == <<>>

(* What the file of each kind may be asked to record or forget. *)
Calls ==
    CASE done.bounds.kind = "projects" ->
             [call : {"record_recent_project"}, path : Worktrees]
             \cup [call : {"forget_recent_project"}, path : Worktrees]
      [] done.bounds.kind = "remotes" ->
             [call : {"record_recent_remote"}, target : Targets, folder : Folders]
             \cup [call : {"forget_recent_remote"}, target : Targets,
                   folder : Folders \cup {"any"}]
      [] done.bounds.kind = "session" ->
             [call : {"record_project_session"},
              roots : UNION {[1 .. n -> Worktrees] : n \in 0 .. MaxProjects + 1},
              active : Worktrees \cup {"none"}]
      [] OTHER -> [call : {"record_collapsed_project_groups"}, folds : SUBSET Worktrees]

Truncated(s, n) == SubSeq(s, 1, IF Len(s) < n THEN Len(s) ELSE n)

(* Invalid JSON reads as an empty list. *)
Read == IF names.file = 0 \/ inodes[names.file] = Torn THEN Nothing ELSE inodes[names.file]
-----------------------------------------------------------------------------
(* The contents that a call writes, given those it read. *)

RecordProject(list, path) ==
    LET others == SelectSeq(list, LAMBDA e : e.common # CommonDirOf[path]) IN
    Truncated(<<[path |-> path, common |-> CommonDirOf[path]]>> \o others, MaxProjects)

ForgetProject(list, common) == SelectSeq(list, LAMBDA e : e.common # common)

Same(e, target, folder) == e.target = target /\ e.folder = folder

(* Mutant: the count of uses does not saturate. *)
PlainAdd(n, m) == n + m

SaturatingAdd(n, m) == IF n + m > MaxUses THEN MaxUses ELSE n + m

(* Mutant: an entry that is moved to the front starts anew. *)
RecordRemoteAnew(list, target, folder) ==
    Truncated(<<[target |-> target, folder |-> folder, uses |-> 1]>>
              \o SelectSeq(list, LAMBDA e : ~ Same(e, target, folder)), MaxProjects)

RecordRemote(list, target, folder) ==
    LET own == SelectSeq(list, LAMBDA e : Same(e, target, folder))
        n   == IF own = <<>> THEN 1 ELSE SaturatingAdd(own[1].uses, 1) IN
    Truncated(<<[target |-> target, folder |-> folder, uses |-> n]>>
              \o SelectSeq(list, LAMBDA e : ~ Same(e, target, folder)), MaxProjects)

ForgetRemote(list, target, folder) ==
    SelectSeq(list, LAMBDA e : e.target # target \/ (folder # "any" /\ e.folder # folder))

(* normalize: each root once, an active tab that is no root forgotten. *)
Normalized(session) ==
    LET first(i) == \A j \in 1 .. i - 1 : session.roots[j] # session.roots[i]
        roots == Truncated([i \in 1 .. Cardinality({k \in DOMAIN session.roots : first(k)}) |->
                     session.roots[CHOOSE k \in DOMAIN session.roots :
                         first(k) /\ Cardinality({j \in 1 .. k : first(j)}) = i]], MaxProjects) IN
    [roots  |-> roots,
     active |-> IF session.active \in ToSet(roots) THEN session.active ELSE "none"]

Contents(c) ==
    CASE c.call = "record_recent_project"  -> RecordProject(Read, c.path)
      [] c.call = "forget_recent_project"  -> ForgetProject(Read, CommonDirOf[c.path])
      [] c.call = "record_recent_remote"   -> RecordRemote(Read, c.target, c.folder)
      [] c.call = "forget_recent_remote"   -> ForgetRemote(Read, c.target, c.folder)
      [] c.call = "record_project_session" -> Normalized(c)
      [] OTHER                             -> c.folds

(* A session without tabs is not recorded. *)
Records(c) == c.call = "record_project_session" => c.roots # <<>>
-----------------------------------------------------------------------------
Idle == [at |-> "idle", contents |-> Nothing, inode |-> 0, alone |-> FALSE]

Init ==
    /\ inodes = <<>>
    /\ names = [file |-> 0, staging |-> 0]
    /\ writers = [w \in Writers |-> Idle]
    /\ uses = [t \in Targets, f \in Folders |-> 0]
    /\ \E b \in StateBounds :
          done = [bounds |-> b, calls |-> 0, crashes |-> 0, clash |-> FALSE]

(* A remote stays in the list until it is forgotten or too many are newer. *)
Kept(contents, t, f) ==
    done.bounds.kind = "remotes" /\ \E i \in DOMAIN contents : Same(contents[i], t, f)

Quiet == \A w \in Writers : writers[w].at = "idle"

(* Who begins has company from then on if another is at work, and is company. *)
Begin(w) ==
    /\ writers[w].at = "idle"
    /\ done.bounds.overlap \/ Quiet
    /\ done.calls < done.bounds.calls
    /\ \E c \in Calls :
          /\ Records(c)
          /\ writers' = [v \in Writers |->
                 IF v = w THEN [at |-> "open", contents |-> Contents(c), inode |-> 0,
                                alone |-> Quiet]
                 ELSE [writers[v] EXCEPT !.alone = FALSE]]
          /\ uses' = [t \in Targets, f \in Folders |->
                         CASE ~ Kept(Contents(c), t, f)                      -> 0
                           [] c.call = "record_recent_remote" /\ Same(c, t, f) ->
                                  SaturatingAdd(uses[t, f], 1)
                           [] OTHER                                           -> uses[t, f]]
    /\ done' = [done EXCEPT !.calls = @ + 1]
    /\ UNCHANGED <<inodes, names>>

(* Mutant: the file itself is written. *)
OpenInPlace(w) ==
    /\ writers[w].at = "open"
    /\ IF names.file # 0
       THEN /\ inodes' = [inodes EXCEPT ![names.file] = Torn]
            /\ names' = [names EXCEPT !.staging = names.file]
            /\ writers' = [writers EXCEPT ![w].at = "fill", ![w].inode = names.file]
       ELSE /\ inodes' = Append(inodes, Torn)
            /\ names' = [file |-> Len(inodes'), staging |-> Len(inodes')]
            /\ writers' = [writers EXCEPT ![w].at = "fill", ![w].inode = Len(inodes')]
    /\ UNCHANGED <<uses, done>>

(* fs::write creates or truncates the staging file ... *)
Open(w) ==
    /\ writers[w].at = "open"
    /\ IF names.staging # 0
       THEN /\ inodes' = [inodes EXCEPT ![names.staging] = Torn]
            /\ writers' = [writers EXCEPT ![w].at = "fill", ![w].inode = names.staging]
            /\ UNCHANGED names
       ELSE /\ inodes' = Append(inodes, Torn)
            /\ names' = [names EXCEPT !.staging = Len(inodes')]
            /\ writers' = [writers EXCEPT ![w].at = "fill", ![w].inode = Len(inodes')]
    /\ UNCHANGED <<uses, done>>

(* ... and writes to it, wherever it was renamed to; over what another writer *)
(* wrote, the longer of the two may stick out.                                *)
Fill(w) ==
    /\ writers[w].at = "fill"
    /\ \E data \in {writers[w].contents}
                   \cup {d \in {Torn} : inodes[writers[w].inode] # Torn} :
          inodes' = [inodes EXCEPT ![writers[w].inode] = data]
    /\ writers' = [writers EXCEPT ![w].at = "rename"]
    /\ UNCHANGED <<names, uses, done>>

(* A rename that fails is ignored. *)
Rename(w) ==
    /\ writers[w].at = "rename"
    /\ names' = IF names.staging = 0 THEN names ELSE [file |-> names.staging, staging |-> 0]
    /\ writers' = [writers EXCEPT ![w] = Idle]
    /\ done' = [done EXCEPT !.clash = ~ writers[w].alone]
    /\ UNCHANGED <<inodes, uses>>

(* A process dies; what it was about to record is not known to be recorded. *)
Crash(w) ==
    /\ writers[w].at # "idle"
    /\ done.crashes < done.bounds.crashes
    /\ done' = [done EXCEPT !.crashes = @ + 1]
    /\ writers' = [writers EXCEPT ![w] = Idle]
    /\ UNCHANGED <<inodes, names, uses>>

Next == \E w \in Writers : Begin(w) \/ Open(w) \/ Fill(w) \/ Rename(w) \/ Crash(w)

Spec == Init /\ [][Next]_stateVars
-----------------------------------------------------------------------------
(* load_recent_ssh_machines_with_current, on a machine that is in use. *)

Machines(list) == {list[i].target : i \in DOMAIN list}
UsesOf(list, t) ==
    FoldSeq(LAMBDA e, n : IF e.target = t THEN SaturatingAdd(n, e.uses) ELSE n, 0, list)

(* The first place of a machine in the list breaks ties of the stable sort. *)
Place(list, t) ==
    IF t \in Machines(list) THEN CHOOSE i \in DOMAIN list :
        list[i].target = t /\ \A j \in 1 .. i - 1 : list[j].target # t
    ELSE Len(list) + 1

Before(list, s, t) ==
    \/ UsesOf(list, s) > UsesOf(list, t)
    \/ UsesOf(list, s) = UsesOf(list, t) /\ Place(list, s) < Place(list, t)

Grouped(list) ==
    Truncated(SetToSortSeq(Machines(list), LAMBDA s, t : Before(list, s, t)), MaxMachines)

(* Mutant: the machine in use is appended before the list is cut. *)
WithCurrentLast(list, current) ==
    LET grouped == Grouped(list) IN
    IF current \in ToSet(grouped) THEN grouped
    ELSE Truncated(Append(grouped, current), MaxMachines)

WithCurrent(list, current) ==
    LET grouped == Grouped(list) IN
    IF current \in ToSet(grouped) THEN grouped
    ELSE IF Len(grouped) < MaxMachines THEN Append(grouped, current)
    ELSE Append(SubSeq(grouped, 1, MaxMachines - 1), current)
-----------------------------------------------------------------------------
TypeOK ==
    /\ names \in [file : 0 .. Len(inodes), staging : 0 .. Len(inodes)]
    /\ \A w \in Writers : /\ writers[w].at \in {"idle", "open", "fill", "rename"}
                          /\ writers[w].inode \in 0 .. Len(inodes)
    /\ uses \in [Targets \X Folders -> 0 .. MaxUses]

(* Processes that record one after the other leave the file complete at every *)
(* moment, also when one dies: who reads it never takes it for empty.  Two    *)
(* that record at once may put a torn file in place, and what had been        *)
(* recorded is forgotten; that lasts until the next process that records      *)
(* alone is done.                                                             *)
FilesAreWhole == names.file # 0 /\ inodes[names.file] = Torn => done.clash

(* The remotes that are kept are those that were recorded and not forgotten,  *)
(* with the number of times each was used, as long as processes record one    *)
(* after the other; and of the machines offered, the one in use is always one.*)
RemotesAreCounted ==
    done.bounds.kind = "remotes" /\ done.crashes = 0 /\ Quiet =>
    /\ ~ done.bounds.overlap => \A i \in DOMAIN Read :
          /\ Read[i].uses = uses[Read[i].target, Read[i].folder]
          /\ Read[i].uses > 0
    /\ \A t \in Targets : t \in ToSet(WithCurrent(Read, t))
=============================================================================
