----------------------------- MODULE MCProcesses -----------------------------
(***************************************************************************)
(* What processes share or hand to each other, checked side by side: a     *)
(* behaviour is one of one part, the variables of the others stay as they  *)
(* are.                                                                    *)
(***************************************************************************)
EXTENDS Naturals, Sequences, SequencesExt, TLC

CONSTANTS
    Parts, Processes, PullRequests, Targets, Folders, Absent, Torn

ASSUME AbsentIsNoProcess == Absent \notin Processes

VARIABLES
    part,
    directory, clients, recorded, passed,
    inodes, names, writers, uses, done,
    child, pipes, parent, drainer,
    tty, outer, session, chosen,
    input, output, candidate, frame, context, ended,
    line, folder, sent,
    exe, files, runs, removed, runCount, current,
    pull, sessions, tally,
    tree, branch, run, spent,
    config, held, tokens, runners, commits, expended,
    request, call, made,
    terminal, server, channel, signal, loop, owed, counts,
    tabShared, tabLocal, tabSession, tabSaved, tabGone, tabKept, tabSought, tabDoubled

diskVars == <<directory, clients, recorded, passed>>
stateVars == <<inodes, names, writers, uses, done>>
childVars == <<child, pipes, parent, drainer>>
handoffVars == <<tty, outer, session, chosen>>
relayVars == <<input, output, candidate, frame, context, ended>>
argumentsVars == <<line, folder, sent>>
installerVars == <<exe, files, runs, removed, runCount, current>>
reviewVars == <<pull, sessions, tally>>
gitVars == <<tree, branch, run, spent>>
accountVars == <<config, held, tokens, runners, commits, expended>>
operationsVars == <<request, call, made>>
eventsVars == <<terminal, server, channel, signal, loop, owed, counts>>
tabsVars == <<tabShared, tabLocal, tabSession, tabSaved, tabGone, tabKept, tabSought,
              tabDoubled>>

(* No part tells one process from another. *)
Alike == Permutations(Processes)

CacheBounds ==
    {[entries |-> 3, opens |-> 3, ticks |-> 0, crashes |-> 0],
     [entries |-> 2, opens |-> 2, ticks |-> 1, crashes |-> 1]}

CommonDirOf == "a" :> "A" @@ "a2" :> "A" @@ "b" :> "B"

StateBound(kind, overlap, calls) ==
    [kind |-> kind, overlap |-> overlap, calls |-> calls, crashes |-> 1]
StateBounds ==
    {StateBound("projects", TRUE, 3), StateBound("remotes", FALSE, 4),
     StateBound("remotes", TRUE, 2), StateBound("session", FALSE, 1),
     StateBound("folds", TRUE, 3)}

(* Inputs that fit a pipe and that do not, children that read them first and *)
(* that write before they have, on stdout and on stderr.                     *)
ChildScript(reader, units, first, records, err, status, grandchild, readFails) ==
    [reader |-> reader, input |-> units, readsFirst |-> first, records |-> records,
     err |-> err, status |-> status, grandchild |-> grandchild, readFails |-> readFails]
ChildScripts ==
    {ChildScript("collect", 0, TRUE, <<n>>, e, st, g, f) :
        n \in {0, 3, 4, 5}, e \in {0, 3}, st \in {"succeeded", "failed"}, g \in BOOLEAN, f \in BOOLEAN}
    \cup {ChildScript("collect", units, first, <<n>>, e, st, g, FALSE) :
            units \in {2, 3}, first \in BOOLEAN, n \in {3, 5}, e \in {0, 2, 3},
            st \in {"succeeded", "failed"}, g \in BOOLEAN}
    \cup {ChildScript("records", 0, TRUE, r, 2, st, FALSE, FALSE) :
            r \in {<<2, 4, 1>>, <<1, 5, 1>>}, st \in {"succeeded", "failed"}}

OneSession ==
    [first : {"local", "remote"}, machines : {3}, mouse : BOOLEAN, switches : {3}, toggles : {1}]

CliOption(name, value) == [kind |-> "option", name |-> name, value |-> value]
CliWord(word) == <<[kind |-> "word", name |-> "none", value |-> word]>>
CliOptions(n) ==
    {s \in UNION {[1 .. k -> {CliOption("--remote", "host"), CliOption("--folder", "old"),
                              CliOption("-C", "old"), CliOption("--client", "edith"),
                              CliOption("--theme", "x")}] : k \in 0 .. n} : IsInjective(s)}
CommandLines ==
    CliOptions(3) \cup {a \o CliWord("tui") \o b \o c :
        a \in CliOptions(1), b \in {<<>>, CliWord("old")}, c \in CliOptions(2)}

ReviewBound(threads, kinds, operations, pushes, others, failures) ==
    [threads |-> threads, kinds |-> kinds, operations |-> operations, pushes |-> pushes,
     others |-> others, failures |-> failures]
ReviewBounds ==
    {ReviewBound(1, {"AddThread", "Reply", "Submit", "Discard"}, 3, 1, 0, 1),
     ReviewBound(3, {"Show", "AddThread", "DeleteComment"}, 2, 0, 1, 1),
     ReviewBound(2, {"Show", "UpdateComment", "DeleteComment", "Resolve", "Unresolve", "Discard",
                     "AddThread"}, 3, 0, 0, 0)}

GitFile(head, index, work) == [head |-> head, index |-> index, work |-> work]
GitScript(born, kinds, operations, others, failures) ==
    [born |-> born, kinds |-> kinds, operations |-> operations, others |-> others,
     failures |-> failures]
GitTrees(versions) == [{"p", "q"} -> versions]
OnTrees ==
    {"Stage", "Unstage", "Remove", "Ours", "Theirs", "Discard", "StageAll", "UnstageAll", "Commit"}
OnBranches ==
    {"Push", "Sync", "Commit", "Checkout", "DeleteBranch", "CreateBranch", "RenameBranch"}
GitStarts ==
    [tree : GitTrees({GitFile(1, 1, 1), GitFile(1, 2, 3), GitFile(1, 1, 3), GitFile(0, 2, 2),
                      GitFile(0, 0, 2), GitFile(1, 4, 3)})
            \cup GitTrees({GitFile(1, 0, 0), GitFile(0, 1, 1)}),
     script : {GitScript(TRUE, OnTrees, 1, 1, 0), GitScript(TRUE, OnTrees, 1, 0, 1)}]
    \cup [tree : GitTrees({GitFile(0, 2, 2), GitFile(0, 2, 3), GitFile(0, 0, 2)}),
          script : {GitScript(FALSE, OnTrees, 2, 0, 0)}]
    \cup [tree : GitTrees({GitFile(1, 2, 2)}), script : {GitScript(TRUE, OnBranches, 3, 1, 1)}]

AccountBound(kinds, operations, edits, logouts, failures, crashes) ==
    [kinds |-> kinds, operations |-> operations, edits |-> edits, logouts |-> logouts,
     failures |-> failures, crashes |-> crashes]
AccountBounds ==
    {AccountBound({"switch", "commit"}, 3, 1, 0, 0, 0),
     AccountBound({"switch", "commit"}, 2, 1, 0, 1, 1),
     AccountBound({"switch", "gh"}, 2, 0, 1, 1, 0)}

(* Two machines with a folder each; the other may have saved a session. *)
FolderOf == "h" :> "x" @@ "r" :> "y"
NoTabs == [roots |-> <<>>, active |-> Absent]
SavedTabs ==
    {"h" :> NoTabs @@ "r" :> [roots |-> <<"x", "y">>, active |-> "y"],
     "h" :> NoTabs @@ "r" :> NoTabs}

Disk == INSTANCE DiskCache
    WITH Clients <- Processes, Ttl <- 0, MaxRecent <- 3
State == INSTANCE StateFiles
    WITH Writers <- Processes, MaxProjects <- 2, MaxMachines <- 2, MaxUses <- 2
BoundedRun == INSTANCE BoundedChild
    WITH Pipe <- 2, Limit <- 4, ErrorLimit <- 1, Scripts <- ChildScripts
Handoff == INSTANCE MachineHandoff
    WITH HandoffBounds <- OneSession
Relay == INSTANCE HandoffRelay
    WITH Prefix <- <<"E", "a", "b">>, Suffix <- "S", Bytes <- {"E", "a", "b", "S", "x"},
         MaxBytes <- 6
Arguments == INSTANCE RemoteArguments
    WITH Lines <- CommandLines
Install == INSTANCE Installer
    WITH Installers <- Processes, ShellOrder <- <<"zsh">>, Profiled <- {"zsh"}, Alone <- TRUE,
         MaxRuns <- 2, MaxRemovals <- 1
Review == INSTANCE ReviewMutations
    WITH Sessions <- Processes, PageSize <- 2, MaxShown <- 3, MaxComments <- 1,
         MaxHead <- 1
Git == INSTANCE GitMutations
    WITH Paths <- {"p", "q"}, Names <- {"main", "topic"}, Starts <- GitStarts
Account == INSTANCE AccountSwitch
    WITH Runners <- Processes, Logins <- {"u", "v"}, Nobody <- Absent
Operations == INSTANCE OperationCalls
    WITH Texts <- {"topic", "--yes", "--base", "--"}, MaxPushes <- 1, MaxCalls <- 1
Events == INSTANCE EventSources
    WITH MaxBatch <- 2, Capacity <- 1, MaxEvents <- 3, MaxRequests <- 2, MaxChanges <- 1
Tabs == INSTANCE RepositoryTabs
    WITH None <- Absent, Host <- "h", Remotes <- {"r"}, Roots <- {"x", "y"},
         Folder <- FolderOf, Saved0 <- SavedTabs, MaxTabs <- 2,
         MaxSwitches <- 2, MaxGone <- 1, MaxMoves <- 1, Beyond <- FALSE,
         shared <- tabShared, local <- tabLocal, session <- tabSession,
         saved <- tabSaved, gone <- tabGone, kept <- tabKept,
         sought <- tabSought, doubled <- tabDoubled

Init ==
    /\ part \in Parts
    /\ IF part = "disk" THEN Disk!Init
       ELSE directory = <<>> /\ clients = <<>> /\ recorded = <<>> /\ passed = <<>>
    /\ IF part = "state" THEN State!Init
       ELSE inodes = <<>> /\ names = <<>> /\ writers = <<>> /\ uses = <<>> /\ done = <<>>
    /\ IF part = "child" THEN BoundedRun!Init
       ELSE child = <<>> /\ pipes = <<>> /\ parent = <<>> /\ drainer = <<>>
    /\ IF part = "handoff" THEN Handoff!Init
       ELSE tty = <<>> /\ outer = <<>> /\ session = <<>> /\ chosen = <<>>
    /\ IF part = "relay" THEN Relay!Init
       ELSE input = <<>> /\ output = <<>> /\ candidate = <<>> /\ frame = <<>> /\ context = <<>>
            /\ ended = <<>>
    /\ IF part = "arguments" THEN Arguments!Init
       ELSE line = <<>> /\ folder = <<>> /\ sent = <<>>
    /\ IF part = "installer" THEN Install!Init
       ELSE exe = <<>> /\ files = <<>> /\ runs = <<>> /\ removed = <<>> /\ runCount = <<>>
            /\ current = <<>>
    /\ IF part = "review" THEN Review!Init
       ELSE pull = <<>> /\ sessions = <<>> /\ tally = <<>>
    /\ IF part = "git" THEN Git!Init
       ELSE tree = <<>> /\ branch = <<>> /\ run = <<>> /\ spent = <<>>
    /\ IF part = "account" THEN Account!Init
       ELSE config = <<>> /\ held = <<>> /\ tokens = <<>> /\ runners = <<>> /\ commits = <<>>
            /\ expended = <<>>
    /\ IF part = "operations" THEN Operations!Init
       ELSE request = <<>> /\ call = <<>> /\ made = <<>>
    /\ IF part = "events" THEN Events!Init
       ELSE terminal = <<>> /\ server = <<>> /\ channel = <<>> /\ signal = <<>> /\ loop = <<>>
            /\ owed = <<>> /\ counts = <<>>
    /\ IF part = "tabs" THEN Tabs!Init
       ELSE tabShared = <<>> /\ tabLocal = <<>> /\ tabSession = <<>> /\ tabSaved = <<>>
            /\ tabGone = <<>> /\ tabKept = <<>> /\ tabSought = <<>> /\ tabDoubled = <<>>

DiskNext ==
    /\ part = "disk" /\ Disk!Next
    /\ UNCHANGED <<part, stateVars, childVars, handoffVars, relayVars, argumentsVars,
                   installerVars, reviewVars, gitVars, accountVars, operationsVars,
                   eventsVars, tabsVars>>
StateNext ==
    /\ part = "state" /\ State!Next
    /\ UNCHANGED <<part, diskVars, childVars, handoffVars, relayVars, argumentsVars,
                   installerVars, reviewVars, gitVars, accountVars, operationsVars,
                   eventsVars, tabsVars>>
BoundedRunNext ==
    /\ part = "child" /\ BoundedRun!Next
    /\ UNCHANGED <<part, diskVars, stateVars, handoffVars, relayVars, argumentsVars,
                   installerVars, reviewVars, gitVars, accountVars, operationsVars,
                   eventsVars, tabsVars>>
HandoffNext ==
    /\ part = "handoff" /\ Handoff!Next
    /\ UNCHANGED <<part, diskVars, stateVars, childVars, relayVars, argumentsVars,
                   installerVars, reviewVars, gitVars, accountVars, operationsVars,
                   eventsVars, tabsVars>>
RelayNext ==
    /\ part = "relay" /\ Relay!Next
    /\ UNCHANGED <<part, diskVars, stateVars, childVars, handoffVars, argumentsVars,
                   installerVars, reviewVars, gitVars, accountVars, operationsVars,
                   eventsVars, tabsVars>>
ArgumentsNext ==
    /\ part = "arguments" /\ Arguments!Next
    /\ UNCHANGED <<part, diskVars, stateVars, childVars, handoffVars, relayVars,
                   installerVars, reviewVars, gitVars, accountVars, operationsVars,
                   eventsVars, tabsVars>>
InstallNext ==
    /\ part = "installer" /\ Install!Next
    /\ UNCHANGED <<part, diskVars, stateVars, childVars, handoffVars, relayVars,
                   argumentsVars, reviewVars, gitVars, accountVars, operationsVars,
                   eventsVars, tabsVars>>
ReviewNext ==
    /\ part = "review" /\ Review!Next
    /\ UNCHANGED <<part, diskVars, stateVars, childVars, handoffVars, relayVars,
                   argumentsVars, installerVars, gitVars, accountVars, operationsVars,
                   eventsVars, tabsVars>>
GitNext ==
    /\ part = "git" /\ Git!Next
    /\ UNCHANGED <<part, diskVars, stateVars, childVars, handoffVars, relayVars,
                   argumentsVars, installerVars, reviewVars, accountVars, operationsVars,
                   eventsVars, tabsVars>>
AccountNext ==
    /\ part = "account" /\ Account!Next
    /\ UNCHANGED <<part, diskVars, stateVars, childVars, handoffVars, relayVars,
                   argumentsVars, installerVars, reviewVars, gitVars, operationsVars,
                   eventsVars, tabsVars>>
OperationsNext ==
    /\ part = "operations" /\ Operations!Next
    /\ UNCHANGED <<part, diskVars, stateVars, childVars, handoffVars, relayVars,
                   argumentsVars, installerVars, reviewVars, gitVars, accountVars, eventsVars,
                   tabsVars>>
EventsNext ==
    /\ part = "events" /\ Events!Next
    /\ UNCHANGED <<part, diskVars, stateVars, childVars, handoffVars, relayVars,
                   argumentsVars, installerVars, reviewVars, gitVars, accountVars,
                   operationsVars, tabsVars>>
TabsNext ==
    /\ part = "tabs" /\ Tabs!Next
    /\ UNCHANGED <<part, diskVars, stateVars, childVars, handoffVars, relayVars,
                   argumentsVars, installerVars, reviewVars, gitVars, accountVars,
                   operationsVars, eventsVars>>

Next == DiskNext \/ StateNext \/ BoundedRunNext \/ HandoffNext \/ RelayNext \/ ArgumentsNext
        \/ InstallNext \/ ReviewNext \/ GitNext \/ AccountNext \/ OperationsNext \/ EventsNext
        \/ TabsNext

Spec == Init /\ [][Next]_<<part, diskVars, stateVars, childVars, handoffVars, relayVars,
        argumentsVars, installerVars, reviewVars, gitVars, accountVars, operationsVars,
        eventsVars, tabsVars>>
-----------------------------------------------------------------------------
(* Each part's variables are of their types. *)
TypeOK ==
    /\ part = "disk" => Disk!TypeOK
    /\ part = "state" => State!TypeOK
    /\ part = "child" => BoundedRun!TypeOK
    /\ part = "handoff" => Handoff!TypeOK
    /\ part = "relay" => Relay!TypeOK
    /\ part = "review" => Review!TypeOK
    /\ part = "git" => Git!TypeOK
    /\ part = "account" => Account!TypeOK
    /\ part = "operations" => Operations!TypeOK
    /\ part = "events" => Events!TypeOK
    /\ part = "tabs" => Tabs!TypeOK

(* What processes share on disk.  The cache: whatever is found is complete and *)
(* its own, it stays near its bound and leaves no rubbish, and who loses the    *)
(* race for the list of recent pull requests finds its entry all the same.      *)
(* The state: who reads a file reads all of it, unless two processes recorded   *)
(* at once; uses are counted and the machine in use is offered.  The            *)
(* installation: what the user removed stays removed, what is recorded is       *)
(* there, and scripts are current.                                              *)
FilesAreSound ==
    /\ part = "disk" => Disk!EntriesAreWhole /\ Disk!CacheStaysBounded /\ Disk!RecordedAreFound
    /\ part = "state" => State!FilesAreWhole /\ State!RemotesAreCounted
    /\ part = "installer" =>
        Install!RemovalsStay /\ Install!RecordedIsInstalled /\ Install!ScriptsAreCurrent

(* A bounded child: what passes for complete is complete; and parent, thread   *)
(* and child do not all wait for one another, unless the child writes more     *)
(* than a pipe holds before it has read an input that a pipe does not hold.    *)
ChildrenAnswer ==
    part = "child" => BoundedRun!AnswersAreComplete /\ BoundedRun!SomeoneMoves

(* Events of the terminal mean what was shown when they were typed; a signal    *)
(* of the watcher or a delivery leads to a refresh or was refused; and the      *)
(* listener ends when the interface does.                                       *)
EventsAreSound ==
    part = "events" =>
        Events!EventsMeanWhatIsShown /\ Events!NoSignalIsLost /\ Events!ListenerStops

(* The tabs of all machines are the same list wherever they are shown, none    *)
(* is lost over switches and restarts, and the tab a switch was made for is    *)
(* the one that is shown.                                                      *)
TabsAreKept ==
    part = "tabs" =>
        Tabs!TabsAgree /\ Tabs!ShownIsMarked /\ Tabs!TabsAreKept /\ Tabs!SoughtIsShown

(* Sessions on several machines, and other programs: the one terminal is        *)
(* restored in the end and every switch is followed; their output arrives       *)
(* unchanged but for the frames, and their options arrive; gh does to a pull    *)
(* request what was asked, and merges the head that was read.                   *)
SessionsAreHandedOn ==
    /\ part = "handoff" => Handoff!TerminalIsRestored /\ Handoff!SwitchesAreFollowed
    /\ part = "relay" => Relay!OutputIsRelayed
    /\ part = "arguments" => Arguments!SessionsKeepTheirOptions
    /\ part = "operations" =>
        Operations!CallsDoWhatWasAsked /\ Operations!MergesAreOfTheReadHead

(* What processes change for the user.  The review at GitHub: what is said is   *)
(* of the head that was read, reviews are read whole, and no comment is lost.    *)
(* The repository: only what was asked for changes, and what is reported was     *)
(* done.  Its account: settings are of one account, the lock is released, and    *)
(* commits are the account's.                                                    *)
MutationsAreSound ==
    /\ part = "review" =>
        Review!FeedbackIsOfTheHead /\ Review!ReviewsAreWhole /\ Review!NoCommentIsStranded
    /\ part = "git" => Git!OnlyTheChosenChanges /\ Git!ReportsAreTrue
    /\ part = "account" =>
        Account!SettingsAreWhole /\ Account!LockIsReleased /\ Account!CommitsAreByTheAccount
=============================================================================
