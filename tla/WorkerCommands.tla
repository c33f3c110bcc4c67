--------------------------- MODULE WorkerCommands ---------------------------
(***************************************************************************)
(* The vocabulary of the Git worker: which thread ("lane") executes each   *)
(* kind of command, which place of that lane's mailbox the command waits   *)
(* in, and in which order a lane empties the places of its mailbox.        *)
(*                                                                         *)
(* Payloads are left out.  WorkerCommand::Search routes by its target, so  *)
(* it appears as two kinds; WorkerCommand::Shutdown is a flag of the       *)
(* mailbox and not a member of these tables.                               *)
(***************************************************************************)
EXTENDS Naturals, Sequences

(* enum WorkerCommand, routed by worker_lane. *)
LaneKinds ==
    [Background |->
        {"Refresh", "LoadHistory", "LoadLocalGitHubRepository", "LoadAccounts",
         "LoadBranches", "LoadHistoryBranches", "LoadStashes", "LoadWorktrees",
         "LoadRecentProjects", "Operate", "OperatePullRequest",
         "SearchRepository"},
     GitHubMetadata |->
        {"LoadGitHubRepositories", "LookupPullRequest", "LoadPullRequestStack",
         "LoadPullRequestStackMember", "LoadPullRequestChecks",
         "LoadPullRequestStackMemberChecks", "LoadPullRequestStackTipChecks",
         "LoadCheckRunLog"},
     Conversation |->
        {"LoadPullRequestConversation", "LoadPullRequestStackMemberConversation",
         "LoadPullRequestStackMemberCommits", "LoadPullRequestCommits"},
     LocalPreview |-> {"PrepareLocalDiff", "LoadLocalDiffFile"},
     PullRequestPreview |->
        {"PreparePullRequest", "PreparePullRequestStack", "LoadPullRequestFile",
         "LoadPullRequestFileBatch", "SearchPullRequest"},
     Review |-> {"LoadPullRequestReview", "OperatePullRequestReview"},
     Warm |-> {"PrefetchCheckRunLogs"},
     StackWarm |-> {"PrefetchPullRequestStackMembers"}]

AllLanes == DOMAIN LaneKinds
AllKinds == UNION {LaneKinds[l] : l \in AllLanes}
LaneTable == [k \in AllKinds |-> CHOOSE l \in AllLanes : k \in LaneKinds[l]]

(* The lanes that report nothing: their jobs only fill caches, and stop when *)
(* the generation they were queued under is no longer the newest.            *)
WarmUpLanes == {"Warm", "StackWarm"}

(* The kinds that wait in the FIFO of a mailbox instead of a slot. *)
QueuedKinds == {"Operate", "OperatePullRequest", "OperatePullRequestReview"}

(* Mailbox::push: the kinds that share each slot. *)
SlotKinds ==
    [branches |-> {"LoadAccounts", "LoadBranches", "LoadHistoryBranches", "LoadStashes"},
     projects |-> {"LoadWorktrees", "LoadRecentProjects"},
     refresh |-> {"Refresh"},
     preview |-> {"PrepareLocalDiff", "LoadLocalDiffFile", "PreparePullRequest",
                  "PreparePullRequestStack", "LoadPullRequestFile"},
     prefetch |-> {"LoadPullRequestFileBatch"},
     history |-> {"LoadHistory"},
     repositories |-> {"LoadGitHubRepositories", "LoadLocalGitHubRepository"},
     pull_request |-> {"LookupPullRequest", "LoadPullRequestStack"},
     stack_member |-> {"LoadPullRequestStackMember"},
     checks |-> {"LoadPullRequestChecks"},
     stack_member_checks |-> {"LoadPullRequestStackMemberChecks"},
     stack_tip_checks |-> {"LoadPullRequestStackTipChecks"},
     conversation |-> {"LoadPullRequestConversation"},
     stack_member_conversation |-> {"LoadPullRequestStackMemberConversation"},
     stack_member_commits |->
         {"LoadPullRequestCommits", "LoadPullRequestStackMemberCommits"},
     review |-> {"LoadPullRequestReview"},
     check_log |-> {"LoadCheckRunLog"},
     warm |-> {"PrefetchCheckRunLogs"},
     stack_warm |-> {"PrefetchPullRequestStackMembers"},
     search |-> {"SearchRepository", "SearchPullRequest"}]

AllSlots == DOMAIN SlotKinds
SlotTable == [k \in AllKinds \ QueuedKinds |-> CHOOSE s \in AllSlots : k \in SlotKinds[s]]

(* Mailbox::pop: the slots in the order a lane empties them, once its queue  *)
(* of operations is empty.                                                   *)
PopOrder ==
    <<"branches", "projects", "preview", "search", "repositories", "pull_request",
      "stack_member", "refresh", "check_log", "checks", "stack_tip_checks",
      "stack_member_checks", "conversation", "stack_member_conversation",
      "stack_member_commits", "review", "history", "prefetch", "warm", "stack_warm">>

PopRank == [s \in AllSlots |-> CHOOSE i \in DOMAIN PopOrder : PopOrder[i] = s]

(* The order in which dropping a GitWorker shuts the lanes down. *)
ShutdownOrder ==
    <<"Background", "GitHubMetadata", "Conversation", "Review", "LocalPreview",
      "PullRequestPreview", "Warm", "StackWarm">>

(* The kinds run_worker reports progress of while it executes them. *)
ReportingKinds == {"LookupPullRequest", "PreparePullRequest", "PreparePullRequestStack"}
=============================================================================
