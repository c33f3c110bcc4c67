---------------------------- MODULE ProcessesProofs ----------------------------
(***************************************************************************)
(* The parts of MCProcesses about which more is proved: the sources of     *)
(* events, and what processes change for the user.  Each is proved on its  *)
(* own, for every value of its constants (EventSourcesProofs and           *)
(* MutationsProofs); here its inductive invariant is taken over to the     *)
(* composition, in which a step of one part leaves the others alone.       *)
(*                                                                         *)
(* The operators of a part, as this module knows them, and those of the    *)
(* instance that is proved about are the same formulas, which is said by   *)
(* the lemmas of the first section.                                        *)
(***************************************************************************)
EXTENDS MCProcesses, TLAPS

Sources == INSTANCE EventSourcesProofs
    WITH MaxBatch <- 2, Capacity <- 1, MaxEvents <- 3, MaxRequests <- 2, MaxChanges <- 1

Mutations == INSTANCE MutationsProofs
    WITH Runners <- Processes, Logins <- {"u", "v"}, Nobody <- Absent,
         Paths <- {"p", "q"}, Names <- {"main", "topic"}, Starts <- GitStarts,
         Sessions <- Processes, PageSize <- 2, MaxShown <- 3, MaxComments <- 1, MaxHead <- 1
-----------------------------------------------------------------------------
(* The same formulas *)

LEMMA EventsInit == Events!Init => Sources!Init
BY Zenon DEF
     Events!Init, Sources!Init, Events!None, Sources!None, Events!Event, Sources!Event

LEMMA EventsStep == Events!Next => Sources!Next
BY Zenon DEF
     Events!Next, Sources!Next, Events!Type, Sources!Type, Events!Connect, Sources!Connect,
     Events!Change, Sources!Change, Events!Accept, Sources!Accept, Events!Answer,
     Sources!Answer, Events!Send, Sources!Send, Events!Draw, Sources!Draw, Events!Drain,
     Sources!Drain, Events!ReadBatch, Sources!ReadBatch, Events!HandleEvent,
     Sources!HandleEvent, Events!BatchDone, Sources!BatchDone, Events!Stop, Sources!Stop,
     Events!Event, Sources!Event, Events!Handled, Sources!Handled, Events!None, Sources!None,
     Events!Batches, Sources!Batches

LEMMA EventsMean == Sources!EventsMeanWhatIsShown => Events!EventsMeanWhatIsShown
BY Zenon DEF
     Events!EventsMeanWhatIsShown, Sources!EventsMeanWhatIsShown, Events!Handled,
     Sources!Handled

LEMMA SignalsStay == Sources!NoSignalIsLost => Events!NoSignalIsLost
BY Zenon DEF
     Events!NoSignalIsLost, Sources!NoSignalIsLost

LEMMA ListenersStop == Sources!ListenerStops => Events!ListenerStops
BY Zenon DEF
     Events!ListenerStops, Sources!ListenerStops

LEMMA AccountInit == Account!Init => Mutations!Account!Init
BY Zenon DEF
     Account!Init, Mutations!Account!Init, Account!Own, Mutations!Account!Own, Account!Free0,
     Mutations!Account!Free0, Account!Resting, Mutations!Account!Resting

LEMMA AccountStep == Account!Next => Mutations!Account!Next
BY Zenon DEF
     Account!Next, Mutations!Account!Next, Account!Switch, Mutations!Account!Switch,
     Account!Verify, Mutations!Account!Verify, Account!Lock, Mutations!Account!Lock,
     Account!Copy, Mutations!Account!Copy, Account!Prepare, Mutations!Account!Prepare,
     Account!Persist, Mutations!Account!Persist, Account!Unlock, Mutations!Account!Unlock,
     Account!Commit, Mutations!Account!Commit, Account!AskAccount, Mutations!Account!AskAccount,
     Account!AskPinned, Mutations!Account!AskPinned, Account!AskIdentity,
     Mutations!Account!AskIdentity, Account!AskAuthor, Mutations!Account!AskAuthor,
     Account!Record, Mutations!Account!Record, Account!CallGh, Mutations!Account!CallGh,
     Account!RunGh, Mutations!Account!RunGh, Account!Crash, Mutations!Account!Crash,
     Account!GitConfig, Mutations!Account!GitConfig, Account!LogOut, Mutations!Account!LogOut,
     Account!On, Mutations!Account!On, Account!Left, Mutations!Account!Left, Account!Expend,
     Mutations!Account!Expend, Account!To, Mutations!Account!To, Account!Resting,
     Mutations!Account!Resting, Account!GoTo, Mutations!Account!GoTo, Account!GiveUp,
     Mutations!Account!GiveUp, Account!Fails, Mutations!Account!Fails, Account!Free0,
     Mutations!Account!Free0, Account!Unlocked, Mutations!Account!Unlocked, Account!Settled,
     Mutations!Account!Settled, Account!Outdated, Mutations!Account!Outdated, Account!Quietly,
     Mutations!Account!Quietly, Account!Identity, Mutations!Account!Identity, Account!Own,
     Mutations!Account!Own

LEMMA AccountHasSettingsAreWhole == Mutations!Account!SettingsAreWhole => Account!SettingsAreWhole
BY Zenon DEF
     Account!SettingsAreWhole, Mutations!Account!SettingsAreWhole, Account!Own,
     Mutations!Account!Own

LEMMA AccountHasLockIsReleased == Mutations!Account!LockIsReleased => Account!LockIsReleased
BY Zenon DEF
     Account!LockIsReleased, Mutations!Account!LockIsReleased, Account!Free0,
     Mutations!Account!Free0

LEMMA AccountHasCommitsAreByTheAccount == Mutations!Account!CommitsAreByTheAccount => Account!CommitsAreByTheAccount
BY Zenon DEF
     Account!CommitsAreByTheAccount, Mutations!Account!CommitsAreByTheAccount

LEMMA GitInit == Git!Init => Mutations!Git!Init
BY Zenon DEF
     Git!Init, Mutations!Git!Init, Git!NoRun, Mutations!Git!NoRun

LEMMA GitStep == Git!Next => Mutations!Git!Next
BY Zenon DEF
     Git!Next, Mutations!Git!Next, Git!StartOne, Mutations!Git!StartOne, Git!Report,
     Mutations!Git!Report, Git!Disturb, Mutations!Git!Disturb, Git!StageSome,
     Mutations!Git!StageSome, Git!AskHead, Mutations!Git!AskHead, Git!UnstageSome,
     Mutations!Git!UnstageSome, Git!DeleteUntracked, Mutations!Git!DeleteUntracked,
     Git!DiscardWorktree, Mutations!Git!DiscardWorktree, Git!DiscardStaged,
     Mutations!Git!DiscardStaged, Git!AskTracked, Mutations!Git!AskTracked, Git!RemoveUntracked,
     Mutations!Git!RemoveUntracked, Git!RemoveTracked, Mutations!Git!RemoveTracked,
     Git!TakeSide, Mutations!Git!TakeSide, Git!MarkResolved, Mutations!Git!MarkResolved,
     Git!CommitStaged, Mutations!Git!CommitStaged, Git!Pull, Mutations!Git!Pull,
     Git!AskUpstream, Mutations!Git!AskUpstream, Git!PushBranch, Mutations!Git!PushBranch,
     Git!ChangeBranches, Mutations!Git!ChangeBranches, Git!Start, Mutations!Git!Start,
     Git!Status, Mutations!Git!Status, Git!Invalid, Mutations!Git!Invalid, Git!NoRun,
     Mutations!Git!NoRun, Git!Can, Mutations!Git!Can, Git!Used, Mutations!Git!Used, Git!Gone,
     Mutations!Git!Gone, Git!Edited, Mutations!Git!Edited, Git!Before, Mutations!Git!Before,
     Git!Call, Mutations!Git!Call, Git!With, Mutations!Git!With, Git!Added, Mutations!Git!Added,
     Git!Born, Mutations!Git!Born, Git!RestoredIndex, Mutations!Git!RestoredIndex,
     Git!RemovedFromIndex, Mutations!Git!RemovedFromIndex, Git!Goes, Mutations!Git!Goes,
     Git!Then, Mutations!Git!Then, Git!Untracked, Mutations!Git!Untracked, Git!Deleted,
     Mutations!Git!Deleted, Git!Failed, Mutations!Git!Failed, Git!CallFor,
     Mutations!Git!CallFor, Git!OfArea, Mutations!Git!OfArea, Git!RestoredWork,
     Mutations!Git!RestoredWork, Git!RestoredBoth, Mutations!Git!RestoredBoth, Git!Row,
     Mutations!Git!Row, Git!Removed, Mutations!Git!Removed, Git!WithSide,
     Mutations!Git!WithSide, Git!Ours, Mutations!Git!Ours, Git!Theirs, Mutations!Git!Theirs,
     Git!Committed, Mutations!Git!Committed, Git!CallOnBranch, Mutations!Git!CallOnBranch,
     Git!Ask, Mutations!Git!Ask, Git!Unmerged, Mutations!Git!Unmerged, Git!RenamedAway,
     Mutations!Git!RenamedAway, Git!Unless, Mutations!Git!Unless, Git!TouchedBy,
     Mutations!Git!TouchedBy, Git!Places, Mutations!Git!Places

LEMMA GitHasOnlyTheChosenChanges == Mutations!Git!OnlyTheChosenChanges => Git!OnlyTheChosenChanges
BY Zenon DEF
     Git!OnlyTheChosenChanges, Mutations!Git!OnlyTheChosenChanges, Git!Allowed,
     Mutations!Git!Allowed

LEMMA GitHasReportsAreTrue == Mutations!Git!ReportsAreTrue => Git!ReportsAreTrue
BY Zenon DEF
     Git!ReportsAreTrue, Mutations!Git!ReportsAreTrue, Git!Done, Mutations!Git!Done, Git!Gone,
     Mutations!Git!Gone, Git!Unmerged, Mutations!Git!Unmerged

LEMMA ReviewInit == Review!Init => Mutations!Review!Init
BY Zenon DEF
     Review!Init, Mutations!Review!Init, Review!NoReview, Mutations!Review!NoReview,
     Review!NoHead, Mutations!Review!NoHead, Review!Idle, Mutations!Review!Idle

LEMMA SameLowest == \A n, S : Review!Lowest(n, S) = Mutations!Review!Lowest(n, S)
BY Zenon DEF
     Review!Lowest, Mutations!Review!Lowest, Review!Cardinality, Mutations!Review!Cardinality

LEMMA SameWithPage == \A me, page : Review!WithPage(me, page) = Mutations!Review!WithPage(me, page)
BY Zenon DEF
     Review!WithPage, Mutations!Review!WithPage, Review!Listed, Mutations!Review!Listed,
     Review!Ids, Mutations!Review!Ids, Review!CommentsOf, Mutations!Review!CommentsOf,
     Review!Min, Mutations!Review!Min, Review!Max, Mutations!Review!Max, Review!Cardinality,
     Mutations!Review!Cardinality

LEMMA SameOpened == \A me : Review!Opened(me) = Mutations!Review!Opened(me)
BY Zenon DEF
     Review!Opened, Mutations!Review!Opened, Review!NoHead, Mutations!Review!NoHead

LEMMA SameRead == \A me : Review!Read(me) = Mutations!Review!Read(me)
BY Zenon DEF
     Review!Read, Mutations!Review!Read, Review!Idle, Mutations!Review!Idle, Review!Current,
     Mutations!Review!Current, Review!NoHead, Mutations!Review!NoHead

LEMMA SameSteps == \A s, me, p : Review!Step(s, me, p) <=> Mutations!Review!Step(s, me, p)
BY Zenon DEF
     Review!Step, Mutations!Review!Step, Review!Noticed, Mutations!Review!Noticed, Review!Ids,
     Mutations!Review!Ids

LEMMA SameCardinality == \A S : Review!Cardinality(S) = Mutations!Review!Cardinality(S)
BY DEF Review!Cardinality, Mutations!Review!Cardinality

LEMMA SameMin == \A S : Review!Min(S) = Mutations!Review!Min(S)
BY Zenon DEF Review!Min, Mutations!Review!Min

(* A page is the same page; its operators are taken one by one. *)
LEMMA ReviewPage == \A s \in Processes : Review!Page(s) => Mutations!Review!Page(s)
<1> SUFFICES ASSUME NEW s \in Processes, Review!Page(s) PROVE Mutations!Review!Page(s)
  OBVIOUS
<1> DEFINE me == Review!Opened(sessions[s])
           rest == {t \in pull.threads : t.id > me.cursor}
           n == Review!Min({2, 3 - Review!Cardinality(me.threads)})
           page == Review!Lowest(n, rest)
           next == Review!WithPage(me, page)
           same == Mutations!Review!Opened(sessions[s])
           sameRest == {t \in pull.threads : t.id > same.cursor}
           sameN == Mutations!Review!Min({2, 3 - Mutations!Review!Cardinality(same.threads)})
           samePage == Mutations!Review!Lowest(sameN, sameRest)
           sameNext == Mutations!Review!WithPage(same, samePage)
<1>1. same = me
  BY SameOpened
<1>2. sameRest = rest
  BY <1>1
<1>3. sameN = n
  BY <1>1, SameCardinality, SameMin, Zenon
<1>4. samePage = page
  BY <1>2, <1>3, SameLowest, Zenon
<1>5. sameNext = next
  BY <1>1, <1>4, SameWithPage, Zenon
<1>6. /\ Review!At(s, "read")
      /\ \/ /\ Review!Cardinality(next.threads) >= 3
            /\ Review!Step(s, Review!Read([next EXCEPT !.truncated = TRUE]), pull)
            /\ UNCHANGED tally
         \/ /\ Review!Cardinality(next.threads) < 3
            /\ Review!Step(s, IF page = rest THEN Review!Read(next) ELSE next, pull)
            /\ UNCHANGED tally
         \/ /\ Review!Cardinality(next.threads) < 3 /\ page # rest
            /\ Review!Count("failures") /\ Review!May("failures")
            /\ Review!Step(s, Review!Read([next EXCEPT !.truncated = TRUE]), pull)
  BY Zenon DEF Review!Page
<1>7. ASSUME /\ Mutations!Review!At(s, "read")
             /\ \/ /\ Mutations!Review!Cardinality(sameNext.threads) >= 3
                   /\ Mutations!Review!Step(s, Mutations!Review!Read([sameNext EXCEPT !.truncated = TRUE]), pull)
                   /\ UNCHANGED tally
                \/ /\ Mutations!Review!Cardinality(sameNext.threads) < 3
                   /\ Mutations!Review!Step(s, IF samePage = sameRest THEN Mutations!Review!Read(sameNext) ELSE sameNext, pull)
                   /\ UNCHANGED tally
                \/ /\ Mutations!Review!Cardinality(sameNext.threads) < 3 /\ samePage # sameRest
                   /\ Mutations!Review!Count("failures") /\ Mutations!Review!May("failures")
                   /\ Mutations!Review!Step(s, Mutations!Review!Read([sameNext EXCEPT !.truncated = TRUE]), pull)
      PROVE  Mutations!Review!Page(s)
  BY <1>7, Zenon DEF Mutations!Review!Page
<1> HIDE DEF me, rest, n, page, next, same, sameRest, sameN, samePage, sameNext
<1> QED
  BY <1>2, <1>4, <1>5, <1>6, <1>7, SameCardinality, SameRead, SameSteps, Zenon
     DEF Review!At, Mutations!Review!At, Review!Count, Mutations!Review!Count, Review!May, Mutations!Review!May

LEMMA ReviewStep == Review!Next => Mutations!Review!Next
<1>1. \A s, kind, target : Review!Start(s, kind, target) <=> Mutations!Review!Start(s, kind, target)
  BY Zenon DEF
     Review!Start, Mutations!Review!Start, Review!At, Mutations!Review!At, Review!May,
     Mutations!Review!May, Review!Count, Mutations!Review!Count, Review!Step,
     Mutations!Review!Step, Review!Idle, Mutations!Review!Idle, Review!Begins,
     Mutations!Review!Begins, Review!Ids, Mutations!Review!Ids, Review!Noticed,
     Mutations!Review!Noticed, Review!NoHead, Mutations!Review!NoHead
<1>2. \A s : Review!Close(s) => Mutations!Review!Close(s)
  BY Zenon DEF
     Review!Close, Mutations!Review!Close, Review!At, Mutations!Review!At, Review!Step,
     Mutations!Review!Step, Review!Idle, Mutations!Review!Idle, Review!Noticed,
     Mutations!Review!Noticed, Review!NoHead, Mutations!Review!NoHead, Review!Ids,
     Mutations!Review!Ids
<1>3. \A s : Review!Create(s) => Mutations!Review!Create(s)
  BY Zenon DEF
     Review!Create, Mutations!Review!Create, Review!At, Mutations!Review!At, Review!Call,
     Mutations!Review!Call, Review!Result, Mutations!Review!Result, Review!Created,
     Mutations!Review!Created, Review!Step, Mutations!Review!Step, Review!Idle,
     Mutations!Review!Idle, Review!May, Mutations!Review!May, Review!Count,
     Mutations!Review!Count, Review!Noticed, Mutations!Review!Noticed, Review!NoHead,
     Mutations!Review!NoHead, Review!Ids, Mutations!Review!Ids
<1>4. \A s : Review!Change(s) => Mutations!Review!Change(s)
  BY Zenon DEF
     Review!Change, Mutations!Review!Change, Review!At, Mutations!Review!At, Review!Call,
     Mutations!Review!Call, Review!Result, Mutations!Review!Result, Review!Idle,
     Mutations!Review!Idle, Review!Changed, Mutations!Review!Changed, Review!Step,
     Mutations!Review!Step, Review!May, Mutations!Review!May, Review!Count,
     Mutations!Review!Count, Review!NoHead, Mutations!Review!NoHead, Review!Added,
     Mutations!Review!Added, Review!Replied, Mutations!Review!Replied, Review!Submitted,
     Mutations!Review!Submitted, Review!Discarded, Mutations!Review!Discarded, Review!Updated,
     Mutations!Review!Updated, Review!Deleted, Mutations!Review!Deleted, Review!Resolved,
     Mutations!Review!Resolved, Review!Noticed, Mutations!Review!Noticed, Review!Comment,
     Mutations!Review!Comment, Review!Chosen, Mutations!Review!Chosen, Review!Ids,
     Mutations!Review!Ids, Review!WithComments, Mutations!Review!WithComments
<1>5. Review!Push => Mutations!Review!Push
  BY Zenon DEF
     Review!Push, Mutations!Review!Push, Review!May, Mutations!Review!May, Review!Count,
     Mutations!Review!Count, Review!Others, Mutations!Review!Others, Review!NoHead,
     Mutations!Review!NoHead, Review!Noticed, Mutations!Review!Noticed, Review!Ids,
     Mutations!Review!Ids
<1>6. Review!OtherComments => Mutations!Review!OtherComments
  BY Zenon DEF
     Review!OtherComments, Mutations!Review!OtherComments, Review!May, Mutations!Review!May,
     Review!Count, Mutations!Review!Count, Review!Ids, Mutations!Review!Ids, Review!Others,
     Mutations!Review!Others, Review!NoReview, Mutations!Review!NoReview, Review!NoHead,
     Mutations!Review!NoHead, Review!Noticed, Mutations!Review!Noticed
<1>7. \A set : Review!Ids(set) = Mutations!Review!Ids(set)
  BY Zenon DEF
     Review!Ids, Mutations!Review!Ids
<1> QED
  BY <1>1, <1>2, <1>3, <1>4, <1>5, <1>6, <1>7, ReviewPage, Zenon
     DEF Review!Next, Mutations!Review!Next

LEMMA ReviewHasFeedbackIsOfTheHead == Mutations!Review!FeedbackIsOfTheHead => Review!FeedbackIsOfTheHead
BY Zenon DEF
     Review!FeedbackIsOfTheHead, Mutations!Review!FeedbackIsOfTheHead, Review!At,
     Mutations!Review!At, Review!NoHead, Mutations!Review!NoHead

LEMMA ReviewHasReviewsAreWhole == Mutations!Review!ReviewsAreWhole => Review!ReviewsAreWhole
BY Zenon DEF
     Review!ReviewsAreWhole, Mutations!Review!ReviewsAreWhole, Review!At, Mutations!Review!At,
     Review!Ids, Mutations!Review!Ids

LEMMA ReviewHasNoCommentIsStranded == Mutations!Review!NoCommentIsStranded => Review!NoCommentIsStranded
BY Zenon DEF
     Review!NoCommentIsStranded, Mutations!Review!NoCommentIsStranded, Review!NoReview,
     Mutations!Review!NoReview, Review!Ids, Mutations!Review!Ids

-----------------------------------------------------------------------------
(* What holds in every step *)

MutationsInv ==
    /\ part = "account" => Mutations!AccountInv
    /\ part = "git" => Mutations!GitInv
    /\ part = "review" => Mutations!ReviewInv

PartsInv == (part = "events" => Sources!SourcesInv) /\ MutationsInv

LEMMA GitStartsAreSound == Mutations!SoundStarts
<1> DEFINE changed == GitTrees({GitFile(1, 1, 1), GitFile(1, 2, 3), GitFile(1, 1, 3), GitFile(0, 2, 2),
                                GitFile(0, 0, 2), GitFile(1, 4, 3)})
                      \cup GitTrees({GitFile(1, 0, 0), GitFile(0, 1, 1)})
           unborn == GitTrees({GitFile(0, 2, 2), GitFile(0, 2, 3), GitFile(0, 0, 2)})
           plain == GitTrees({GitFile(1, 2, 2)})
           fits(s) == /\ s.tree \in [{"p", "q"} -> Mutations!Files]
                      /\ ~ s.script.born => \A p \in {"p", "q"} : s.tree[p].head = Mutations!Git!Gone
<1>1. (\A v \in changed : v \in [{"p", "q"} -> Mutations!Files])
      /\ (\A v \in plain : v \in [{"p", "q"} -> Mutations!Files])
  BY DEF GitTrees, GitFile, Mutations!Files
<1>2. \A v \in unborn : /\ v \in [{"p", "q"} -> Mutations!Files]
                         /\ \A p \in {"p", "q"} : v[p].head = Mutations!Git!Gone
  BY DEF GitTrees, GitFile, Mutations!Files, Mutations!Git!Gone
<1>3. /\ GitScript(TRUE, OnTrees, 1, 1, 0).born /\ GitScript(TRUE, OnTrees, 1, 0, 1).born
      /\ GitScript(TRUE, OnBranches, 3, 1, 1).born
  BY DEF GitScript
<1> HIDE DEF changed, unborn, plain
<1>4. ASSUME NEW s \in [tree : changed,
                       script : {GitScript(TRUE, OnTrees, 1, 1, 0), GitScript(TRUE, OnTrees, 1, 0, 1)}]
      PROVE  fits(s)
  BY <1>1, <1>3
<1>5. ASSUME NEW s \in [tree : unborn, script : {GitScript(FALSE, OnTrees, 2, 0, 0)}]
      PROVE  fits(s)
  BY <1>2
<1>6. ASSUME NEW s \in [tree : plain, script : {GitScript(TRUE, OnBranches, 3, 1, 1)}]
      PROVE  fits(s)
  BY <1>1, <1>3
<1> HIDE DEF fits
<1>7. \A s \in GitStarts : fits(s)
  BY <1>4, <1>5, <1>6 DEF GitStarts, changed, unborn, plain
<1> QED
  BY <1>7 DEF Mutations!SoundStarts, fits

LEMMA PagesAreSound == Mutations!SoundPages
BY DEF Mutations!SoundPages, ReviewBounds, ReviewBound

LEMMA PartsStart == Init => PartsInv
<1> SUFFICES ASSUME Init PROVE PartsInv
  OBVIOUS
<1>1. ASSUME part = "events" PROVE Sources!SourcesInv
  <2>1. Sources!Init
    BY <1>1, EventsInit DEF Init
  <2>2. 2 \in Nat \ {0} /\ 1 \in Nat \ {0}
    OBVIOUS
  <2> QED
    BY <2>1, <2>2, Sources!SourcesStart
<1>2. ASSUME part = "account" PROVE Mutations!AccountInv
  BY <1>2, AccountInit, Mutations!AccountStart DEF Init
<1>3. ASSUME part = "git" PROVE Mutations!GitInv
  BY <1>3, GitInit, GitStartsAreSound, Mutations!GitStart DEF Init
<1>4. ASSUME part = "review" PROVE Mutations!ReviewInv
  BY <1>4, ReviewInit, PagesAreSound, Mutations!ReviewStart DEF Init
<1> QED
  BY <1>1, <1>2, <1>3, <1>4 DEF PartsInv, MutationsInv

allVars == <<part, diskVars, stateVars, childVars, handoffVars, relayVars, argumentsVars,
             installerVars, reviewVars, gitVars, accountVars, operationsVars, eventsVars, tabsVars>>

LEMMA PartsStep == PartsInv /\ [Next]_allVars => PartsInv'
<1> SUFFICES ASSUME PartsInv, [Next]_allVars PROVE PartsInv'
  OBVIOUS
<1>1. CASE part' = part /\ part \notin {"events", "account", "git", "review"}
  BY <1>1 DEF PartsInv, MutationsInv
<1>2. ASSUME part' = part, part = "events", Events!Next \/ UNCHANGED eventsVars
      PROVE  PartsInv'
  <2>1. Sources!SourcesInv /\ [Sources!Next]_(Sources!sourceVars)
    BY <1>2, EventsStep DEF PartsInv, eventsVars, Sources!sourceVars
  <2>2. 2 \in Nat \ {0} /\ 1 \in Nat \ {0}
    OBVIOUS
  <2>3. Sources!SourcesInv'
    BY <2>1, <2>2, Sources!SourcesStep
  <2> QED
    BY <1>2, <2>3 DEF PartsInv, MutationsInv
<1>3. ASSUME part' = part, part = "account", Account!Next \/ UNCHANGED accountVars
      PROVE  PartsInv'
  <2>1. Mutations!AccountInv /\ [Mutations!Account!Next]_(Mutations!Account!accountVars)
    BY <1>3, AccountStep DEF PartsInv, MutationsInv, accountVars, Mutations!Account!accountVars
  <2>2. Mutations!AccountInv'
    BY <2>1, AbsentIsNoProcess, Mutations!AccountStep
  <2> QED
    BY <1>3, <2>2 DEF PartsInv, MutationsInv
<1>4. ASSUME part' = part, part = "git", Git!Next \/ UNCHANGED gitVars
      PROVE  PartsInv'
  <2>1. Mutations!GitInv /\ [Mutations!Git!Next]_(Mutations!Git!gitVars)
    BY <1>4, GitStep DEF PartsInv, MutationsInv, gitVars, Mutations!Git!gitVars
  <2>2. Mutations!GitInv'
    BY <2>1, Mutations!GitStep
  <2> QED
    BY <1>4, <2>2 DEF PartsInv, MutationsInv
<1>5. ASSUME part' = part, part = "review", Review!Next \/ UNCHANGED reviewVars
      PROVE  PartsInv'
  <2>1. Mutations!ReviewInv /\ [Mutations!Review!Next]_(Mutations!Review!reviewVars)
    BY <1>5, ReviewStep DEF PartsInv, MutationsInv, reviewVars, Mutations!Review!reviewVars
  <2>2. Mutations!ReviewInv'
    BY <2>1, PagesAreSound, Mutations!ReviewStep
  <2> QED
    BY <1>5, <2>2 DEF PartsInv, MutationsInv
<1>6. \/ part' = part /\ part \notin {"events", "account", "git", "review"}
      \/ part' = part /\ part = "events" /\ (Events!Next \/ UNCHANGED eventsVars)
      \/ part' = part /\ part = "account" /\ (Account!Next \/ UNCHANGED accountVars)
      \/ part' = part /\ part = "git" /\ (Git!Next \/ UNCHANGED gitVars)
      \/ part' = part /\ part = "review" /\ (Review!Next \/ UNCHANGED reviewVars)
  <2>1. CASE UNCHANGED allVars
    BY <2>1 DEF allVars
  <2>2. CASE Next
    BY <2>2 DEF Next, DiskNext, StateNext, BoundedRunNext, HandoffNext, RelayNext, ArgumentsNext,
               InstallNext, ReviewNext, GitNext, AccountNext, OperationsNext, EventsNext, TabsNext
  <2> QED
    BY <2>1, <2>2
<1> QED
  BY <1>1, <1>2, <1>3, <1>4, <1>5, <1>6

(* Events of the terminal mean what was shown when they were typed, a signal of *)
(* the watcher or a delivery leads to a refresh or was refused, and the         *)
(* listener ends when the interface does (EventLoop, Watcher, webhook.rs): the  *)
(* property that the run checks, by the theorem about all bounds.               *)
THEOREM EventsStaySound == Spec => []EventsAreSound
<1>1. PartsInv => EventsAreSound
  <2> SUFFICES ASSUME part = "events", Sources!SourcesInv
               PROVE  Events!EventsMeanWhatIsShown /\ Events!NoSignalIsLost /\ Events!ListenerStops
    BY DEF PartsInv, EventsAreSound
  <2>1. Sources!EventsMeanWhatIsShown /\ Sources!NoSignalIsLost /\ Sources!ListenerStops
    BY Sources!SourcesAreSound
  <2> QED
    BY <2>1, EventsMean, SignalsStay, ListenersStop
<1> QED
  BY <1>1, PartsStart, PartsStep, PTL DEF Spec, allVars

(* What processes change for the user stays sound: the review, the repository   *)
(* and its account, with any number of processes.                               *)
THEOREM MutationsStaySound == Spec => []MutationsAreSound
<1>1. PartsInv => MutationsAreSound
  <2> SUFFICES ASSUME PartsInv PROVE MutationsAreSound
    OBVIOUS
  <2>1. ASSUME part = "review"
        PROVE  Review!FeedbackIsOfTheHead /\ Review!ReviewsAreWhole /\ Review!NoCommentIsStranded
    <3>1. Mutations!Review!FeedbackIsOfTheHead /\ Mutations!Review!ReviewsAreWhole
          /\ Mutations!Review!NoCommentIsStranded
      BY <2>1, PagesAreSound, Mutations!ReviewsAreSound DEF PartsInv, MutationsInv
    <3> QED
      BY <3>1, ReviewHasFeedbackIsOfTheHead, ReviewHasReviewsAreWhole, ReviewHasNoCommentIsStranded
  <2>2. ASSUME part = "git" PROVE Git!OnlyTheChosenChanges /\ Git!ReportsAreTrue
    <3>1. Mutations!Git!OnlyTheChosenChanges /\ Mutations!Git!ReportsAreTrue
      BY <2>2 DEF PartsInv, MutationsInv, Mutations!GitInv
    <3> QED
      BY <3>1, GitHasOnlyTheChosenChanges, GitHasReportsAreTrue
  <2>3. ASSUME part = "account"
        PROVE  Account!SettingsAreWhole /\ Account!LockIsReleased /\ Account!CommitsAreByTheAccount
    <3>1. Mutations!Account!SettingsAreWhole /\ Mutations!Account!LockIsReleased
          /\ Mutations!Account!CommitsAreByTheAccount
      BY <2>3, Mutations!AccountsAreSound DEF PartsInv, MutationsInv
    <3> QED
      BY <3>1, AccountHasSettingsAreWhole, AccountHasLockIsReleased, AccountHasCommitsAreByTheAccount
  <2> QED
    BY <2>1, <2>2, <2>3 DEF MutationsAreSound
<1> QED
  BY <1>1, PartsStart, PartsStep, PTL DEF Spec, allVars
=============================================================================
