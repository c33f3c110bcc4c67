----------------------------- MODULE MCInterface -----------------------------
(***************************************************************************)
(* What the interface keeps and what it reads, checked side by side: a     *)
(* behaviour is one of one part, the variables of the others stay as they  *)
(* are.                                                                    *)
(***************************************************************************)
EXTENDS Naturals, Sequences, SequencesExt, FiniteSets, TLC

CONSTANTS
    Parts, Heads, MaxPushes, Vacant

VARIABLES
    part,
    treeDesk, treeModal, treeGit, treeStashes, treeListing, treeReview, treeEffects,
    stashDesk, stashModal, stashGit, stashStashes, stashListing, stashReview, stashEffects,
    talkPaging, talkThread, talkKept, talkReader, talkAnswer, talkCounted,
    checkJobs, checkListed, checkLogs, checkReader, checkShown, checkReadCount,
    diffGithub, diffLocal, diffKnown, diffCache, diffReader, diffPrepared, diffAnswer,
    diffCounted,
    verbCall, verbAt, verbSpinner, verbPrinted, verbTarget, verbListing, verbChanged, verbEnded,
    readOutbox, readMailbox, readExecuting, readAnswers, readGithub, readLookup, readPull,
    readPage, readChecks, readLog, readTalk, readReview, readUsed,
    fileOutbox, fileMailbox, fileExecuting, fileAnswers, fileSession, filePage, fileDiff,
    fileCache, fileAsked, fileUsed,
    commentPlace, commentDisplay, commentKept, commentReview, commentCursor, commentModal,
    commentUsed,
    parseTask, parseResult,
    listGithub, listClone, listKnown, listLists, listReader, listAnswer, listCounted,
    paneList, paneRepository, paneTree, paneBar, paneText, paneLeft

treeVars == <<treeDesk, treeModal, treeGit, treeStashes, treeListing, treeReview, treeEffects>>
stashesVars == <<stashDesk, stashModal, stashGit, stashStashes, stashListing, stashReview,
                 stashEffects>>
conversationVars == <<talkPaging, talkThread, talkKept, talkReader, talkAnswer, talkCounted>>
checksVars == <<checkJobs, checkListed, checkLogs, checkReader, checkShown, checkReadCount>>
patchesVars == <<diffGithub, diffLocal, diffKnown, diffCache, diffReader, diffPrepared,
                 diffAnswer, diffCounted>>
verbsVars == <<verbCall, verbAt, verbSpinner, verbPrinted, verbTarget, verbListing,
               verbChanged, verbEnded>>
readsVars == <<readOutbox, readMailbox, readExecuting, readAnswers, readGithub, readLookup,
               readPull, readPage, readChecks, readLog, readTalk, readReview, readUsed>>
filesVars == <<fileOutbox, fileMailbox, fileExecuting, fileAnswers, fileSession, filePage,
               fileDiff, fileCache, fileAsked, fileUsed>>
commentsVars == <<commentPlace, commentDisplay, commentKept, commentReview, commentCursor,
                  commentModal, commentUsed>>
parsingVars == <<parseTask, parseResult>>
commitsVars == <<listGithub, listClone, listKnown, listLists, listReader, listAnswer,
                 listCounted>>
panesVars == <<paneList, paneRepository, paneTree, paneBar, paneText, paneLeft>>

Change(path, area) == [path |-> path, area |-> area]
Trees == {{Change("a", "Unstaged"), Change("b", "Staged")}, {Change("a", "Conflict")}}
PullRequest ==
    [state |-> "OPEN", draft |-> FALSE, may |-> {"update", "admin", "close"}, is |-> {"auto"}]

(* The commits of the comparisons: the branch of h1 left the base at m, those *)
(* of h2 and h3 at r; the base moves on from b1 to b2.                         *)
DiffChain ==
    "r" :> <<"r">> @@ "b1" :> <<"b1", "r">> @@ "m" :> <<"m", "r">>
    @@ "b2" :> <<"b2", "m", "r">> @@ "h1" :> <<"h1", "m", "r">> @@ "h2" :> <<"h2", "r">>
    @@ "h3" :> <<"h3", "r">>

(* The commits of the lists: h2 grows on h1, which left the base at m. *)
ListChain ==
    "r" :> <<"r">> @@ "m" :> <<"m", "r">> @@ "b1" :> <<"b1", "m", "r">>
    @@ "b2" :> <<"b2", "b1", "m", "r">> @@ "h1" :> <<"h1", "m", "r">>
    @@ "h2" :> <<"h2", "h1", "m", "r">> @@ "h3" :> <<"h3", "r">>
Clone(objects, cut) == [objects |-> objects, cut |-> cut]
(* None, whole, cut where base and head parted, behind, cut at the head, and *)
(* cut on the base's side with the head's history whole.                     *)
UsualClones ==
    {Clone({}, {}), Clone(DOMAIN ListChain, {}), Clone(DOMAIN ListChain \ {"r"}, {"m"}),
     Clone(DOMAIN ListChain \ {"h2"}, {}), Clone({"h1", "h2", "h3", "r"}, {"h1"}),
     Clone(DOMAIN ListChain, {"b2"})}

(* The reads of an opened pull request, and the lanes that serve them. *)
Worker == INSTANCE WorkerCommands
ReadKinds == {"LookupPullRequest", "LoadPullRequestChecks", "LoadCheckRunLog",
              "LoadPullRequestConversation", "LoadPullRequestReview", "OperatePullRequestReview"}
ReadLanes == {Worker!LaneTable[k] : k \in ReadKinds}
ReadOperations == ReadKinds \cap Worker!QueuedKinds
ReadSlots == {Worker!SlotTable[k] : k \in ReadKinds \ ReadOperations}
Script(follows, keys, polls, changes, failures) ==
    [follows |-> follows, keys |-> keys, polls |-> polls, changes |-> changes,
     failures |-> failures]
ReadScripts ==
    {Script({"checks", "log"}, 1, 1, 1, 0), Script({"checks", "log"}, 2, 0, 0, 1),
     Script({"talk"}, 1, 1, 1, 0), Script({"review"}, 2, 1, 0, 1)}

(* The diff of an opened pull request. *)
DiffKinds == {"PreparePullRequest", "LoadPullRequestFile", "LoadPullRequestFileBatch"}
DiffSlots == {Worker!SlotTable[k] : k \in DiffKinds}
Reading(room, keys, pushes, failures) ==
    [room |-> room, keys |-> keys, pushes |-> pushes, failures |-> failures]
DiffScripts ==
    {Reading(1, 2, 1, 0), Reading(2, 2, 1, 0), Reading(2, 1, 0, 2), Reading(2, 3, 0, 0)}

(* The threads of a review, in the diff of two files that is pushed to once. *)
DiffLine(kind, old, new) == [kind |-> kind, old |-> old, new |-> new, thread |-> Vacant]
FileHeader == DiffLine("FileHeader", 0, 0)
OfFiles(p, q) == "p" :> p @@ "q" :> q
CommentedDiffs ==
    <<OfFiles(<<FileHeader, DiffLine("Context", 1, 1), DiffLine("Removed", 2, 0),
                DiffLine("Added", 0, 2)>>,
              <<FileHeader, DiffLine("Added", 0, 1)>>),
      OfFiles(<<FileHeader, DiffLine("Removed", 1, 0)>>, <<FileHeader, DiffLine("Added", 0, 1)>>)>>
ThreadOn(id, path, side, line, resolved) ==
    [id |-> id, path |-> path, side |-> side, line |-> line, file |-> line = 0, comments |-> 1,
     resolved |-> resolved,
     may |-> IF side = "Unknown" THEN {"reply"} ELSE {"reply", "resolve"}]
CommentSnapshots ==
    {<<ThreadOn("a", "p", "Right", 2, FALSE)>>,
     <<ThreadOn("a", "p", "Right", 2, TRUE), ThreadOn("b", "p", "Left", 2, FALSE),
       ThreadOn("c", "q", "Unknown", 1, FALSE), ThreadOn("d", "p", "Right", 0, FALSE)>>}

(* What git writes: a hunk by the first characters of its lines, and those that *)
(* look like a header; renames, deletions, binary files and changed modes.    *)
HunkOf(old, new, ops, looks) ==
    [old |-> old, new |-> new, lines |-> [i \in DOMAIN ops |-> [op |-> ops[i], looks |-> i \in looks]]]
FilePatch(old, new, mode, binary, hunks) ==
    [old |-> old, new |-> new, mode |-> mode, binary |-> binary, hunks |-> hunks]
Edited == FilePatch(2, 2, TRUE, FALSE,
    <<HunkOf(1, 1, <<" ", "-", "+", " ", "-">>, {}), HunkOf(9, 9, <<"+", " ", "-", "\\">>, {})>>)
Created == FilePatch(0, 1, FALSE, FALSE, <<HunkOf(0, 1, <<"+", "+">>, {})>>)
Deleted == FilePatch(3, 0, FALSE, FALSE, <<HunkOf(1, 0, <<"-">>, {})>>)
Renamed == FilePatch(3, 1, FALSE, FALSE, <<>>)
Picture == FilePatch(4, 4, FALSE, TRUE, <<>>)
Looking == FilePatch(4, 4, FALSE, FALSE, <<HunkOf(1, 1, <<"-", "-", "+">>, {1, 3})>>)
UsualPatches ==
    {<<Edited>>, <<Edited, Created, Picture>>, <<Deleted, Edited>>, <<Renamed, Looking>>,
     <<Looking>>, <<Deleted, Created>>}
Listed(path, old, counts) == [path |-> path, old |-> old, counts |-> counts]
UsualListings ==
    {<<Listed(1, 0, 11), Listed(2, 5, 12), Listed(3, 0, 13)>>,
     <<Listed(2, 1, 11), Listed(3, 0, 12), Listed(4, 0, 5)>>}

(* The lists of a repository that moves on once: what queries name and find in  *)
(* its changes, the worktree and index of which differ, and in its commits.    *)
FoundIn(path, source) == [path |-> path, source |-> source]
NamedRows == "x" :> {"b", "m"} @@ "y" :> {"c", "d"}
PaneRepositories ==
    <<[changes |-> <<Change("c", "Conflict"), Change("a", "Staged"), Change("a", "Unstaged"),
                     Change("b", "Unstaged")>>,
       commits |-> <<"k", "l", "m">>,
       contents |-> "x" :> {FoundIn("a", "Index"), FoundIn("b", "Worktree")}
                    @@ "y" :> {FoundIn("a", "Worktree")},
       messages |-> "x" :> {"l"} @@ "y" :> {}, patches |-> "x" :> {"k"} @@ "y" :> {"m"}],
      [changes |-> <<Change("b", "Unstaged"), Change("d", "Unstaged")>>,
       commits |-> <<"n", "m">>,
       contents |-> "x" :> {FoundIn("d", "Worktree")} @@ "y" :> {},
       messages |-> "x" :> {"l"} @@ "y" :> {"n"}, patches |-> "x" :> {"k"} @@ "y" :> {"m"}]>>
Session(inputs, keys, answers, failures) ==
    [inputs |-> inputs, keys |-> keys, answers |-> answers, failures |-> failures]
ListSessions ==
    {Session({"search", "click"}, 3, 1, 1),
     Session({"move", "edge", "fold", "click", "page"}, 3, 1, 0),
     Session({"wheel", "move", "check", "click"}, 3, 1, 0),
     Session({"view", "search"}, 6, 0, 0), Session({"view", "search", "fold"}, 4, 0, 0),
     Session({"view", "move"}, 3, 2, 0)}

(* A tree with files beside, and directories within, directories that are one  *)
(* row; a pointer on lists around their windows and on screens of all widths;  *)
(* and a text of words, signs and lines with characters of one to four bytes.  *)
FileListings ==
    <<[paths |-> <<<<1, 2, 1>>, <<1, 2, 2, 1>>, <<1, 3, 1>>, <<3>>, <<2, 1, 1>>, <<4>>>>,
       named |-> "x" :> {1, 3} @@ "y" :> {} @@ "z" :> {2, 4}],
      [paths |-> <<<<1, 3, 1>>, <<2, 2, 1>>>>,
       named |-> "x" :> {1} @@ "y" :> {2} @@ "z" :> {}]>>
TreeSessions ==
    {Session({"move", "fold", "click"}, 4, 2, 0), Session({"search", "fold", "wheel"}, 4, 2, 0)}
Gauge(columns, rows, extent, lengths, screens) ==
    [columns |-> columns, rows |-> rows, extent |-> extent, lengths |-> lengths,
     screens |-> screens, keys |-> 4]
PointerGauges ==
    <<Gauge({10, 60, 100}, {0, 2, 4, 7}, 6, {4, 9, 30}, {130, 90}),
      Gauge({80, 200, 500}, {1}, 2, {2, 3}, {700})>>
Letter(bytes, kind) == [bytes |-> bytes, kind |-> kind]
TextFields ==
    {[value |-> value, keys |-> 4,
      typed |-> {<<Letter(2, "word")>>, <<Letter(4, "mark"), Letter(1, "line")>>}] :
        value \in
           {<<>>,
            <<Letter(1, "word"), Letter(2, "word"), Letter(1, "space"), Letter(4, "mark"),
              Letter(1, "line"), Letter(3, "word"), Letter(1, "space")>>,
            <<Letter(1, "mark"), Letter(1, "line"), Letter(1, "line"), Letter(1, "mark"),
              Letter(1, "word"), Letter(1, "mark")>>}}

VerbListings == {<<>>, <<"a">>, <<"a", "b">>}
VerbTails == "a" :> {} @@ "b" :> {}

Tree == INSTANCE Modals
    WITH None <- Vacant, Statuses <- Trees, PullRequests <- {PullRequest},
         MaxStashes <- 1, MaxListings <- 1, Pickers <- {"Branches"},
         desk <- treeDesk, modal <- treeModal, git <- treeGit,
         stashes <- treeStashes, listing <- treeListing,
         review <- treeReview, effects <- treeEffects
Stashes == INSTANCE Modals
    WITH None <- Vacant, Statuses <- {{}}, PullRequests <- {},
         MaxStashes <- 2, MaxListings <- 2,
         Pickers <- {"Stashes", "Branches", "Accounts", "HistoryBranches"},
         desk <- stashDesk, modal <- stashModal, git <- stashGit,
         stashes <- stashStashes, listing <- stashListing,
         review <- stashReview, effects <- stashEffects
Conversation == INSTANCE ConversationReads
    WITH PageSize <- 2, MaxShown <- 4, MaxThread <- 5, MaxReads <- 3,
         MaxCuts <- 1, paging <- talkPaging, thread <- talkThread,
         kept <- talkKept, reader <- talkReader, answer <- talkAnswer,
         counted <- talkCounted
Checks == INSTANCE CheckReads
    WITH Jobs <- {"j", "k"}, LogLength <- 2, MaxCheckReads <- 2,
         jobs <- checkJobs, listed <- checkListed, logs <- checkLogs,
         reader <- checkReader, shown <- checkShown,
         readCount <- checkReadCount
Prepared == INSTANCE PreparedDiff
    WITH Chain <- DiffChain, Bases <- {"b1", "b2"}, Locals <- {{}},
         Paths <- <<"p", "q">>, Rungs <- <<1, 3>>, MaxOpens <- 2,
         MaxReads <- 1, github <- diffGithub, local <- diffLocal,
         known <- diffKnown, cache <- diffCache, reader <- diffReader,
         prepared <- diffPrepared, answer <- diffAnswer,
         counted <- diffCounted
Verbs == INSTANCE CommandVerbs
    WITH Listings <- VerbListings, Tails <- VerbTails, Names <- {"b", "c"},
         MaxFrames <- 2, call <- verbCall, at <- verbAt,
         spinner <- verbSpinner, printed <- verbPrinted,
         target <- verbTarget, listing <- verbListing,
         changed <- verbChanged, ended <- verbEnded
Reads == INSTANCE PullRequestReads
    WITH Kinds <- ReadKinds, Operations <- ReadOperations,
         Slots <- ReadSlots, SlotOf <- Worker!SlotTable,
         Rank <- Worker!PopRank, NoCommand <- Vacant, Lanes <- ReadLanes,
         LaneOf <- Worker!LaneTable, Numbers <- {1}, Scripts <- ReadScripts,
         MaxChanges <- 4, MaxWarm <- 1, Wrap <- 12, outbox <- readOutbox,
         mailbox <- readMailbox, executing <- readExecuting,
         answers <- readAnswers, github <- readGithub, lookup <- readLookup,
         pull <- readPull, page <- readPage, checks <- readChecks,
         log <- readLog, talk <- readTalk, review <- readReview,
         used <- readUsed
Files == INSTANCE DiffDocuments
    WITH Kinds <- DiffKinds, Operations <- {}, Slots <- DiffSlots,
         SlotOf <- Worker!SlotTable, Rank <- Worker!PopRank,
         NoCommand <- Vacant, Lanes <- {"PullRequestPreview"},
         LaneOf <- Worker!LaneTable, Paths <- <<"p", "q">>,
         Scripts <- DiffScripts, MaxBatch <- 2, MaxPushes <- 1, Wrap <- 12,
         outbox <- fileOutbox, mailbox <- fileMailbox,
         executing <- fileExecuting, answers <- fileAnswers,
         session <- fileSession, page <- filePage, diff <- fileDiff,
         cache <- fileCache, asked <- fileAsked, used <- fileUsed
Comments == INSTANCE ReviewComments
    WITH None <- Vacant, Diffs <- CommentedDiffs,
         Snapshots <- CommentSnapshots, MaxKeys <- 2, MaxAnswers <- 2,
         place <- commentPlace, display <- commentDisplay,
         kept <- commentKept, review <- commentReview,
         cursor <- commentCursor, modal <- commentModal,
         used <- commentUsed
Parsing == INSTANCE DiffParsing
    WITH Patches <- UsualPatches, Listings <- UsualListings, MaxFiles <- 2,
         MaxCut <- 20, task <- parseTask, result <- parseResult
CommitLists == INSTANCE CommitReads
    WITH Chain <- ListChain, Bases <- {"b1", "b2"}, Clones <- UsualClones,
         PageSize <- 1, MaxDeepenings <- 1, MaxAsks <- 2,
         github <- listGithub, clone <- listClone, known <- listKnown,
         lists <- listLists, reader <- listReader, answer <- listAnswer,
         counted <- listCounted
Panes == INSTANCE Panes
    WITH None <- Vacant, Named <- NamedRows, Repositories <- PaneRepositories, Height <- 4,
         Sessions <- ListSessions, Listings <- FileListings, Browsings <- TreeSessions,
         Fields <- TextFields, Gauges <- PointerGauges, list <- paneList,
         repository <- paneRepository, tree <- paneTree, bar <- paneBar,
         text <- paneText, left <- paneLeft

Init ==
    /\ part \in Parts
    /\ IF part = "tree" THEN Tree!Init
       ELSE treeDesk = <<>> /\ treeModal = <<>> /\ treeGit = <<>> /\ treeStashes = <<>>
            /\ treeListing = <<>> /\ treeReview = <<>> /\ treeEffects = <<>>
    /\ IF part = "stashes" THEN Stashes!Init
       ELSE stashDesk = <<>> /\ stashModal = <<>> /\ stashGit = <<>> /\ stashStashes = <<>>
            /\ stashListing = <<>> /\ stashReview = <<>> /\ stashEffects = <<>>
    /\ IF part = "conversation" THEN Conversation!Init
       ELSE talkPaging = <<>> /\ talkThread = <<>> /\ talkKept = <<>> /\ talkReader = <<>>
            /\ talkAnswer = <<>> /\ talkCounted = <<>>
    /\ IF part = "checks" THEN Checks!Init
       ELSE checkJobs = <<>> /\ checkListed = <<>> /\ checkLogs = <<>> /\ checkReader = <<>>
            /\ checkShown = <<>> /\ checkReadCount = <<>>
    /\ IF part = "patches" THEN Prepared!Init
       ELSE diffGithub = <<>> /\ diffLocal = <<>> /\ diffKnown = <<>> /\ diffCache = <<>>
            /\ diffReader = <<>> /\ diffPrepared = <<>> /\ diffAnswer = <<>>
            /\ diffCounted = <<>>
    /\ IF part = "verbs" THEN Verbs!Init
       ELSE verbCall = <<>> /\ verbAt = <<>> /\ verbSpinner = <<>> /\ verbPrinted = <<>>
            /\ verbTarget = <<>> /\ verbListing = <<>> /\ verbChanged = <<>> /\ verbEnded = <<>>
    /\ IF part = "reads" THEN Reads!Init
       ELSE readOutbox = <<>> /\ readMailbox = <<>> /\ readExecuting = <<>>
            /\ readAnswers = <<>> /\ readGithub = <<>> /\ readLookup = <<>> /\ readPull = <<>>
            /\ readPage = <<>> /\ readChecks = <<>> /\ readLog = <<>> /\ readTalk = <<>>
            /\ readReview = <<>> /\ readUsed = <<>>
    /\ IF part = "files" THEN Files!Init
       ELSE fileOutbox = <<>> /\ fileMailbox = <<>> /\ fileExecuting = <<>>
            /\ fileAnswers = <<>> /\ fileSession = <<>> /\ filePage = <<>> /\ fileDiff = <<>>
            /\ fileCache = <<>> /\ fileAsked = <<>> /\ fileUsed = <<>>
    /\ IF part = "comments" THEN Comments!Init
       ELSE commentPlace = <<>> /\ commentDisplay = <<>> /\ commentKept = <<>>
            /\ commentReview = <<>> /\ commentCursor = <<>> /\ commentModal = <<>>
            /\ commentUsed = <<>>
    /\ IF part = "parsing" THEN Parsing!Init
       ELSE parseTask = <<>> /\ parseResult = <<>>
    /\ IF part = "commits" THEN CommitLists!Init
       ELSE listGithub = <<>> /\ listClone = <<>> /\ listKnown = <<>> /\ listLists = <<>>
            /\ listReader = <<>> /\ listAnswer = <<>> /\ listCounted = <<>>
    /\ IF part = "panes" THEN Panes!Init
       ELSE paneList = <<>> /\ paneRepository = <<>> /\ paneTree = <<>> /\ paneBar = <<>>
            /\ paneText = <<>> /\ paneLeft = <<>>

TreeNext ==
    /\ part = "tree" /\ Tree!Next
    /\ UNCHANGED <<part, stashesVars, conversationVars, checksVars, patchesVars, verbsVars,
                   readsVars, filesVars, commentsVars, parsingVars, commitsVars, panesVars>>
StashesNext ==
    /\ part = "stashes" /\ Stashes!Next
    /\ UNCHANGED <<part, treeVars, conversationVars, checksVars, patchesVars, verbsVars,
                   readsVars, filesVars, commentsVars, parsingVars, commitsVars, panesVars>>
ConversationNext ==
    /\ part = "conversation" /\ Conversation!Next
    /\ UNCHANGED <<part, treeVars, stashesVars, checksVars, patchesVars, verbsVars, readsVars,
                   filesVars, commentsVars, parsingVars, commitsVars, panesVars>>
ChecksNext ==
    /\ part = "checks" /\ Checks!Next
    /\ UNCHANGED <<part, treeVars, stashesVars, conversationVars, patchesVars, verbsVars,
                   readsVars, filesVars, commentsVars, parsingVars, commitsVars, panesVars>>
PreparedNext ==
    /\ part = "patches" /\ Prepared!Next
    /\ UNCHANGED <<part, treeVars, stashesVars, conversationVars, checksVars, verbsVars,
                   readsVars, filesVars, commentsVars, parsingVars, commitsVars, panesVars>>
VerbsNext ==
    /\ part = "verbs" /\ Verbs!Next
    /\ UNCHANGED <<part, treeVars, stashesVars, conversationVars, checksVars, patchesVars,
                   readsVars, filesVars, commentsVars, parsingVars, commitsVars, panesVars>>
ReadsNext ==
    /\ part = "reads" /\ Reads!Next
    /\ UNCHANGED <<part, treeVars, stashesVars, conversationVars, checksVars, patchesVars,
                   verbsVars, filesVars, commentsVars, parsingVars, commitsVars, panesVars>>
FilesNext ==
    /\ part = "files" /\ Files!Next
    /\ UNCHANGED <<part, treeVars, stashesVars, conversationVars, checksVars, patchesVars,
                   verbsVars, readsVars, commentsVars, parsingVars, commitsVars, panesVars>>
CommentsNext ==
    /\ part = "comments" /\ Comments!Next
    /\ UNCHANGED <<part, treeVars, stashesVars, conversationVars, checksVars, patchesVars,
                   verbsVars, readsVars, filesVars, parsingVars, commitsVars, panesVars>>
ParsingNext ==
    /\ part = "parsing" /\ Parsing!Next
    /\ UNCHANGED <<part, treeVars, stashesVars, conversationVars, checksVars, patchesVars,
                   verbsVars, readsVars, filesVars, commentsVars, commitsVars, panesVars>>
CommitListsNext ==
    /\ part = "commits" /\ CommitLists!Next
    /\ UNCHANGED <<part, treeVars, stashesVars, conversationVars, checksVars, patchesVars,
                   verbsVars, readsVars, filesVars, commentsVars, parsingVars, panesVars>>
PanesNext ==
    /\ part = "panes" /\ Panes!Next
    /\ UNCHANGED <<part, treeVars, stashesVars, conversationVars, checksVars, patchesVars,
                   verbsVars, readsVars, filesVars, commentsVars, parsingVars, commitsVars>>

Next == TreeNext \/ StashesNext \/ ConversationNext \/ ChecksNext \/ PreparedNext \/ VerbsNext
        \/ ReadsNext \/ FilesNext \/ CommentsNext \/ ParsingNext \/ CommitListsNext
        \/ PanesNext

Spec == Init /\ [][Next]_<<part, treeVars, stashesVars, conversationVars, checksVars,
        patchesVars, verbsVars, readsVars, filesVars, commentsVars, parsingVars, commitsVars,
        panesVars>>
-----------------------------------------------------------------------------
(* Each part's variables are of their types. *)
TypeOK ==
    /\ part = "tree" => Tree!TypeOK
    /\ part = "stashes" => Stashes!TypeOK
    /\ part = "conversation" => Conversation!TypeOK
    /\ part = "checks" => Checks!TypeOK
    /\ part = "patches" => Prepared!TypeOK
    /\ part = "verbs" => Verbs!TypeOK
    /\ part = "reads" => Reads!TypeOK
    /\ part = "files" => Files!TypeOK
    /\ part = "comments" => Comments!TypeOK
    /\ part = "parsing" => Parsing!TypeOK
    /\ part = "commits" => CommitLists!TypeOK
    /\ part = "panes" => Panes!TypeOK

(* No key throws work away that was not confirmed for just that; the checked   *)
(* paths are changes on display, and the stash that is acted on is the one     *)
(* that was chosen.                                                            *)
DestructionIsConfirmed ==
    /\ part = "tree" => Tree!DestructionIsConfirmed /\ Tree!ChecksAreShown
    /\ part = "stashes" => Stashes!DestructionIsConfirmed /\ Stashes!StashesAreWhatTheyWere

(* What the user is at is not disturbed.  An answer that arrives neither closes *)
(* nor changes a form; a refresh keeps what is selected, and something listed   *)
(* stays selected; a thumb stays under the pointer and a turning wheel in one   *)
(* pane; and a key edits a text at its cursor only.                             *)
HandsAreRespected ==
    /\ [][part = "tree" => Tree!AnswerLeavesForm]_<<part, treeVars>>
    /\ [][part = "stashes" => Stashes!AnswerLeavesForm]_<<part, stashesVars>>
    /\ [][part = "panes" =>
            /\ Panes!SelectionSurvives /\ Panes!SelectionStaysListed
            /\ Panes!ThumbFollows /\ Panes!WheelStays
            /\ Panes!EditsAreLocal]_<<part, panesVars>>


(* A verb changes nothing that was not confirmed, prints no half of a document, *)
(* and a watch ends on the verdict it watched for.                              *)
CommandsAreSound ==
    part = "verbs" =>
        /\ Verbs!UnconfirmedChangesNothing /\ Verbs!FailuresAreSilent
        /\ Verbs!WatchesEndOnAVerdict /\ Verbs!NothingIsPrintedUnderASpinner

(* An open pull request is followed: what says that it loads is owed its       *)
(* answer, what is shown is of what is selected, the log of a finished check    *)
(* is whole, no delivery is absorbed by an older read of the conversation, and  *)
(* threads said to be updated are.  Of its diff every patch is of the           *)
(* comparison that is selected, what is kept is accounted for, what counts as   *)
(* on its way is, and the list shows what is kept.  Between the lines of a file *)
(* are the threads of its review and nothing else; a comment is written on a    *)
(* line of the diff, and a click on the row of a thread is about that thread.   *)
PullRequestIsFollowed ==
    /\ part = "reads" =>
        /\ Reads!LoadingIsOwed /\ Reads!ShownIsOfTheSelected
        /\ Reads!FinishedLogsAreWhole /\ Reads!QuietTalkIsFresh
        /\ Reads!UpdatedReviewsAreShown
    /\ part = "files" =>
        /\ Files!DocumentsAreOfTheComparison /\ Files!CacheIsAccounted
        /\ Files!FilesAreOwed /\ Files!ListShowsWhatIsKept
    /\ part = "comments" =>
        /\ Comments!RowsAreTheThreads /\ Comments!KeptAreBare
        /\ Comments!CommentsAreOnTheDiff /\ Comments!ClicksOpenTheirThread

(* A search is answered and its list shows what matches; the tree has every     *)
(* file once and shows its cursor; thumbs and dividers are under the pointer    *)
(* that holds them, one at a time; and a cursor in a text is between its        *)
(* characters, where keys cut words and lines.                                  *)
PanesAreTrue ==
    part = "panes" =>
        /\ Panes!SearchIsOwed /\ Panes!SettledSearchIsTrue /\ Panes!SelectionIsShown
        /\ Panes!TreeIsWhole /\ Panes!TreeIsBuilt /\ Panes!SidewaysIsWithin
        /\ Panes!TreeCursorIsShown
        /\ Panes!ThumbsAreTrue /\ Panes!OneThingIsHeld /\ Panes!PanesFit
        /\ Panes!DividerFollows /\ Panes!CursorIsBetween /\ Panes!WordsAreCut

(* The files and patches of an open comparison are those of its two commits. *)
PatchesAreOfTheComparison ==
    part = "patches" => Prepared!PatchesAreOfTheComparison

(* A list of the commits that a pull request introduces stays within the range *)
(* from its base to its head.                                                  *)
ListsKeepTheRange ==
    part = "commits" => CommitLists!ListsKeepTheRange
=============================================================================
