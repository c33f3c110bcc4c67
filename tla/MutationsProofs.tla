---------------------------- MODULE MutationsProofs ----------------------------
(***************************************************************************)
(* What processes change for the user, proved for any number of them and   *)
(* every bound:                                                            *)
(*                                                                         *)
(*   - the account of a repository (AccountSwitch): a process that is      *)
(*     inside the lock holds it, so that its copy of the settings is still *)
(*     what is there, and what a commit checked is so or has changed since *)
(*     it was checked;                                                     *)
(*   - the local operations (GitMutations): an operation that goes on has  *)
(*     done its part to some of the files it was asked for and still has   *)
(*     the others to do;                                                   *)
(*   - the review at GitHub (ReviewMutations): of the threads that are     *)
(*     still there a reader has those up to its cursor, and a review that  *)
(*     it knows has only lost its commit since.                            *)
(*                                                                         *)
(* The three share nothing, and are proved one after another.              *)
(***************************************************************************)
EXTENDS Naturals, Sequences, FiniteSetTheorems, WellFoundedInduction, TLAPS

CONSTANTS
    Runners, Logins, Nobody, AccountBounds,
    Paths, Names, Starts,
    Sessions, PageSize, MaxShown, MaxComments, MaxHead, ReviewBounds

VARIABLES
    config, held, tokens, runners, commits, expended,
    tree, branch, run, spent,
    pull, sessions, tally

Account == INSTANCE AccountSwitch
Git     == INSTANCE GitMutations
Review  == INSTANCE ReviewMutations
-----------------------------------------------------------------------------
(* The account of a repository *)

Labels ==
    {"idle", "verify", "lock", "copy", "set", "persist", "unlock", "account", "pinned",
     "identity", "author", "commit", "token"}
Known == Logins \cup {Nobody}
Doings ==
    [at : Labels, login : Known, read : Known, copy : Account!Settings \cup {Nobody}, since : BOOLEAN,
     override : BOOLEAN, amend : BOOLEAN]
Histories ==
    [author : Logins \cup {Account!Own}, wrong : BOOLEAN, calls : SUBSET [selected : Known, as : Known]]
Expenses ==
    [bounds : AccountBounds, operations : Nat, edits : Nat, logouts : Nat, failures : Nat,
     crashes : Nat]

AccountTypes ==
    /\ config \in Account!Settings
    /\ held \in [by : Runners \cup {Nobody}, stale : BOOLEAN]
    /\ tokens \in [Logins -> Known]
    /\ runners \in [Runners -> Doings]
    /\ commits \in Histories
    /\ expended \in Expenses

InLock(me) == me.at \in {"copy", "set", "persist", "unlock"}

(* A process that is inside the lock holds it, and has a copy of what is there. *)
HoldsLock(r) ==
    /\ InLock(runners[r]) => held = [by |-> r, stale |-> FALSE]
    /\ runners[r].at \in {"verify", "lock", "copy", "set", "persist"} => runners[r].login \in Logins
    /\ runners[r].at = "set" => runners[r].copy = config
    /\ runners[r].at = "persist" => runners[r].copy = Account!Settled(config, runners[r].login)

(* What was checked so far for a commit is so, if nothing changed meanwhile. *)
IsChecked(r) ==
    ~ runners[r].since =>
        /\ runners[r].at = "pinned" => config.account # Nobody
        /\ runners[r].at \in {"identity", "author"} =>
              runners[r].read = config.account /\ config.account # Nobody
        /\ runners[r].at = "author" => Account!Identity(r) = config.account
        /\ runners[r].at = "commit" /\ config.account # Nobody =>
              /\ Account!Identity(r) = config.account
              /\ runners[r].amend => commits.author = config.account

LockIsHeld ==
    held # Account!Free0 => held.stale \/ (held.by \in Runners /\ InLock(runners[held.by]))

AccountInv ==
    /\ AccountTypes
    /\ \A r \in Runners : HoldsLock(r) /\ IsChecked(r)
    /\ LockIsHeld
    /\ Account!SettingsAreWhole
    /\ Account!CommitsAreByTheAccount
-----------------------------------------------------------------------------
(* Initially *)

LEMMA AccountStart == Account!Init => AccountInv
<1> SUFFICES ASSUME Account!Init PROVE AccountInv
  OBVIOUS
<1>1. AccountTypes
  BY DEF Account!Init, AccountTypes, Account!Settings, Known, Doings, Histories, Expenses, Labels, Account!Resting, Account!Free0, Account!Own
<1>2. \A r \in Runners : HoldsLock(r) /\ IsChecked(r)
  BY DEF Account!Init, HoldsLock, IsChecked, InLock, Account!Resting
<1>3. LockIsHeld /\ Account!SettingsAreWhole /\ Account!CommitsAreByTheAccount
  BY DEF Account!Init, LockIsHeld, Account!SettingsAreWhole, Account!CommitsAreByTheAccount
<1> QED
  BY <1>1, <1>2, <1>3 DEF AccountInv
-----------------------------------------------------------------------------
(* One process moves *)

(* When only process r moves, what is said of the others stays. *)
LEMMA OthersStay ==
    ASSUME NEW r \in Runners, NEW next \in Doings, AccountInv, Account!To(r, next)
    PROVE  /\ runners' \in [Runners -> Doings] /\ runners'[r] = next
           /\ \A q \in Runners \ {r} : runners'[q] = runners[q]
BY DEF AccountInv, AccountTypes, Account!To

(* A process that moves outside the lock, while nothing else changes. *)
LEMMA MovesAlone ==
    ASSUME NEW r \in Runners, NEW next \in Doings, AccountInv, Account!To(r, next),
           UNCHANGED <<config, held, tokens>>,
           commits' \in Histories, commits'.author = commits.author, expended' \in Expenses,
           expended'.edits = expended.edits, Account!CommitsAreByTheAccount',
           HoldsLock(r)', IsChecked(r)', InLock(runners[r]) => InLock(next)
    PROVE  AccountInv'
<1>1. /\ runners' \in [Runners -> Doings] /\ runners'[r] = next
      /\ \A q \in Runners \ {r} : runners'[q] = runners[q]
  BY OthersStay
<1>2. AccountTypes'
  BY <1>1 DEF AccountInv, AccountTypes
<1>3. ASSUME NEW q \in Runners PROVE (HoldsLock(q) /\ IsChecked(q))'
  <2>1. CASE q = r
    BY <2>1
  <2>2. CASE q # r
    BY <2>2, <1>1 DEF AccountInv, HoldsLock, IsChecked, Account!Identity, InLock
  <2> QED
    BY <2>1, <2>2
<1>4. LockIsHeld'
  BY <1>1 DEF AccountInv, LockIsHeld, InLock, Account!Free0
<1>5. Account!SettingsAreWhole'
  BY DEF AccountInv, Account!SettingsAreWhole
<1> QED
  BY <1>2, <1>3, <1>4, <1>5 DEF AccountInv

(* A process that gives up outside the lock. *)
LEMMA GivesUp ==
    ASSUME NEW r \in Runners, AccountInv, Account!GiveUp(r), ~ InLock(runners[r]),
           UNCHANGED <<config, held, tokens, commits>>, expended' \in Expenses,
           expended'.edits = expended.edits
    PROVE  AccountInv'
<1>1. Account!Resting \in Doings /\ ~ InLock(Account!Resting)
  BY DEF Account!Resting, Doings, Labels, Known, InLock
<1>2. runners'[r] = Account!Resting
  BY <1>1, OthersStay DEF Account!GiveUp
<1>3. HoldsLock(r)' /\ IsChecked(r)'
  BY <1>2 DEF HoldsLock, IsChecked, InLock, Account!Resting
<1>4. commits' \in Histories /\ Account!CommitsAreByTheAccount'
  BY DEF AccountInv, AccountTypes, Account!CommitsAreByTheAccount
<1> QED
  BY <1>1, <1>3, <1>4, MovesAlone DEF Account!GiveUp

(* A process that gives up inside the lock releases it. *)
LEMMA GivesUpTheLock ==
    ASSUME Nobody \notin Runners, NEW r \in Runners, AccountInv, Account!GiveUp(r), Account!Unlocked(r),
           InLock(runners[r]), UNCHANGED <<config, tokens, commits>>,
           expended' \in Expenses, expended'.edits = expended.edits
    PROVE  AccountInv'
<1>1. Account!Resting \in Doings
  BY DEF Account!Resting, Doings, Labels, Known
<1>2. /\ runners' \in [Runners -> Doings] /\ runners'[r] = Account!Resting
      /\ \A q \in Runners \ {r} : runners'[q] = runners[q]
  BY <1>1, OthersStay DEF Account!GiveUp
<1>3. held = [by |-> r, stale |-> FALSE] /\ held' = Account!Free0
  BY DEF AccountInv, HoldsLock, Account!Unlocked
<1>4. AccountTypes'
  BY <1>2, <1>3 DEF AccountInv, AccountTypes, Account!Free0
<1>5. ASSUME NEW q \in Runners PROVE (HoldsLock(q) /\ IsChecked(q))'
  <2>1. CASE q = r
    BY <2>1, <1>2 DEF HoldsLock, IsChecked, InLock, Account!Resting
  <2>2. CASE q # r
    <3>1. ~ InLock(runners[q])
      BY <2>2, <1>3 DEF AccountInv, HoldsLock
    <3> QED
      BY <2>2, <3>1, <1>2 DEF AccountInv, HoldsLock, IsChecked, Account!Identity, InLock
  <2> QED
    BY <2>1, <2>2
<1>6. (LockIsHeld /\ Account!SettingsAreWhole /\ Account!CommitsAreByTheAccount)'
  BY <1>3 DEF AccountInv, LockIsHeld, Account!SettingsAreWhole, Account!CommitsAreByTheAccount
<1> QED
  BY <1>4, <1>5, <1>6 DEF AccountInv

(* What is spent is a number, and edits are counted by `git config` only. *)
LEMMA ExpensesStay ==
    ASSUME AccountInv, NEW what \in {"operations", "logouts", "failures", "crashes"}, Account!Expend(what)
    PROVE  expended' \in Expenses /\ expended'.edits = expended.edits
BY DEF AccountInv, AccountTypes, Account!Expend, Expenses
-----------------------------------------------------------------------------
(* Switches *)

LEMMA SwitchKeeps ==
    ASSUME AccountInv, NEW r \in Runners, NEW login \in Logins, Account!Switch(r, login)
    PROVE  AccountInv'
<1> DEFINE next == [Account!Resting EXCEPT !.at = "verify", !.login = login]
<1>1. next \in Doings /\ next.at = "verify" /\ next.login = login
  BY DEF Account!Resting, Doings, Labels, Known
<1>2. Account!To(r, next) /\ ~ InLock(runners[r]) /\ runners'[r] = next
  BY <1>1, OthersStay DEF Account!Switch, Account!On, InLock
<1>3. expended' \in Expenses /\ expended'.edits = expended.edits
  BY ExpensesStay DEF Account!Switch
<1>4. HoldsLock(r)' /\ IsChecked(r)'
  BY <1>1, <1>2 DEF HoldsLock, IsChecked, InLock
<1>5. commits' \in Histories /\ commits'.author = commits.author /\ Account!CommitsAreByTheAccount'
      /\ UNCHANGED <<config, held, tokens>>
  BY DEF AccountInv, AccountTypes, Account!CommitsAreByTheAccount, Account!Switch
<1> QED
  BY <1>1, <1>2, <1>3, <1>4, <1>5, MovesAlone

LEMMA VerifyKeeps ==
    ASSUME AccountInv, NEW r \in Runners, Account!Verify(r)
    PROVE  AccountInv'
<1>1. ~ InLock(runners[r]) /\ runners[r] \in Doings /\ runners[r].at = "verify"
  BY DEF AccountInv, AccountTypes, Account!Verify, Account!On, InLock
<1>2. CASE Account!GoTo(r, "lock") /\ UNCHANGED expended
  <2> DEFINE next == [runners[r] EXCEPT !.at = "lock"]
  <2>1. next \in Doings /\ next.at = "lock" /\ next.login = runners[r].login
    BY <1>1 DEF Doings, Labels
  <2>2. Account!To(r, next) /\ runners'[r] = next
    BY <1>2, <2>1, OthersStay DEF Account!GoTo
  <2>3. HoldsLock(r)' /\ IsChecked(r)'
    BY <1>1, <2>1, <2>2 DEF HoldsLock, IsChecked, InLock, AccountInv
  <2>4. commits' \in Histories /\ commits'.author = commits.author /\ Account!CommitsAreByTheAccount'
        /\ UNCHANGED <<config, held, tokens>> /\ expended' \in Expenses
        /\ expended'.edits = expended.edits
    BY <1>2 DEF AccountInv, AccountTypes, Account!CommitsAreByTheAccount, Account!Verify
  <2> QED
    BY <1>1, <2>1, <2>2, <2>3, <2>4, MovesAlone
<1>3. CASE Account!GiveUp(r) /\ UNCHANGED expended
  BY <1>1, <1>3, GivesUp DEF Account!Verify, AccountInv, AccountTypes
<1>4. CASE Account!Fails(r)
  BY <1>1, <1>4, GivesUp, ExpensesStay DEF Account!Verify, Account!Fails
<1> QED
  BY <1>2, <1>3, <1>4 DEF Account!Verify

LEMMA LockKeeps ==
    ASSUME AccountInv, NEW r \in Runners, Account!Lock(r), Nobody \notin Runners
    PROVE  AccountInv'
<1>1. ~ InLock(runners[r]) /\ runners[r] \in Doings /\ runners[r].login \in Logins
  BY DEF AccountInv, AccountTypes, Account!Lock, Account!On, InLock, HoldsLock
<1>2. CASE held = Account!Free0
  <2> DEFINE next == [runners[r] EXCEPT !.at = "copy"]
  <2>1. next \in Doings /\ next.at = "copy" /\ next.login = runners[r].login
    BY <1>1 DEF Doings, Labels
  <2>2. held' = [by |-> r, stale |-> FALSE] /\ Account!To(r, next) /\ UNCHANGED <<config, tokens, commits, expended>>
    BY <1>2 DEF Account!Lock, Account!GoTo
  <2>3. /\ runners' \in [Runners -> Doings] /\ runners'[r] = next
        /\ \A q \in Runners \ {r} : runners'[q] = runners[q]
    BY <2>1, <2>2, OthersStay
  <2>4. AccountTypes'
    BY <2>2, <2>3 DEF AccountInv, AccountTypes
  <2>5. ASSUME NEW q \in Runners PROVE (HoldsLock(q) /\ IsChecked(q))'
    <3>1. CASE q = r
      <4>1. /\ runners'[q].at = "copy" /\ runners'[q].login \in Logins
            /\ held' = [by |-> q, stale |-> FALSE]
        BY <3>1, <1>1, <2>1, <2>2, <2>3
      <4> QED
        BY <4>1 DEF HoldsLock, IsChecked, InLock
    <3>2. CASE q # r
      <4>1. ~ InLock(runners[q])
        BY <1>2 DEF AccountInv, HoldsLock, Account!Free0
      <4> QED
        BY <3>2, <4>1, <2>2, <2>3 DEF AccountInv, HoldsLock, IsChecked, Account!Identity, InLock
    <3> QED
      BY <3>1, <3>2
  <2>6. (LockIsHeld /\ Account!SettingsAreWhole /\ Account!CommitsAreByTheAccount)'
    BY <2>1, <2>2, <2>3 DEF AccountInv, LockIsHeld, Account!SettingsAreWhole, Account!CommitsAreByTheAccount, InLock
  <2> QED
    BY <2>4, <2>5, <2>6 DEF AccountInv
<1>3. CASE held # Account!Free0
  BY <1>1, <1>3, GivesUp DEF Account!Lock, AccountInv, AccountTypes
<1> QED
  BY <1>2, <1>3

LEMMA CopyKeeps ==
    ASSUME AccountInv, NEW r \in Runners, Account!Copy(r), Nobody \notin Runners
    PROVE  AccountInv'
<1>1. InLock(runners[r]) /\ runners[r] \in Doings /\ runners[r].login \in Logins
      /\ UNCHANGED <<config, tokens, commits>>
  BY DEF AccountInv, AccountTypes, Account!Copy, Account!On, InLock, HoldsLock
<1>2. CASE Account!To(r, [runners[r] EXCEPT !.at = "set", !.copy = config]) /\ UNCHANGED <<held, expended>>
  <2> DEFINE next == [runners[r] EXCEPT !.at = "set", !.copy = config]
  <2>1. next \in Doings /\ next.at = "set" /\ next.login = runners[r].login /\ next.copy = config
    BY <1>1 DEF Doings, Labels, AccountInv, AccountTypes
  <2>2. runners'[r] = next
    BY <1>2, <2>1, OthersStay
  <2>3. HoldsLock(r)' /\ IsChecked(r)'
    BY <1>1, <1>2, <2>1, <2>2 DEF HoldsLock, IsChecked, InLock, AccountInv
  <2>4. commits' \in Histories /\ commits'.author = commits.author /\ Account!CommitsAreByTheAccount'
        /\ expended' \in Expenses /\ expended'.edits = expended.edits
    BY <1>1, <1>2 DEF AccountInv, AccountTypes, Account!CommitsAreByTheAccount
  <2>5. InLock(next)
    BY <2>1 DEF InLock
  <2> QED
    BY <1>1, <1>2, <2>1, <2>3, <2>4, <2>5, MovesAlone
<1>3. CASE Account!Fails(r) /\ Account!Unlocked(r)
  BY <1>1, <1>3, GivesUpTheLock, ExpensesStay DEF Account!Fails
<1> QED
  BY <1>2, <1>3 DEF Account!Copy

LEMMA PrepareKeeps ==
    ASSUME AccountInv, NEW r \in Runners, Account!Prepare(r), Nobody \notin Runners
    PROVE  AccountInv'
<1>1. InLock(runners[r]) /\ runners[r] \in Doings /\ runners[r].login \in Logins
      /\ UNCHANGED <<config, tokens, commits>> /\ runners[r].copy = config /\ config \in Account!Settings
  BY DEF AccountInv, AccountTypes, Account!Prepare, Account!On, InLock, HoldsLock
<1> DEFINE next == [runners[r] EXCEPT !.at = "persist", !.copy = Account!Settled(@, runners[r].login)]
<1>2. CASE Account!To(r, next) /\ UNCHANGED <<held, expended>>
  <2>0. Account!Settled(config, runners[r].login) \in Account!Settings
    BY <1>1 DEF Account!Settled, Account!Settings
  <2>1. next \in Doings /\ next.at = "persist" /\ next.login = runners[r].login
        /\ next.copy = Account!Settled(config, runners[r].login)
    BY <1>1, <2>0 DEF Doings, Labels
  <2>2. runners'[r] = next
    BY <1>2, <2>1, OthersStay
  <2>3. HoldsLock(r)' /\ IsChecked(r)'
    BY <1>1, <1>2, <2>1, <2>2 DEF HoldsLock, IsChecked, InLock, AccountInv
  <2>4. commits' \in Histories /\ commits'.author = commits.author /\ Account!CommitsAreByTheAccount'
        /\ expended' \in Expenses /\ expended'.edits = expended.edits
    BY <1>1, <1>2 DEF AccountInv, AccountTypes, Account!CommitsAreByTheAccount
  <2>5. InLock(next)
    BY <2>1 DEF InLock
  <2> QED
    BY <1>1, <1>2, <2>1, <2>3, <2>4, <2>5, MovesAlone
<1>3. CASE Account!Fails(r) /\ Account!Unlocked(r)
  BY <1>1, <1>3, GivesUpTheLock, ExpensesStay DEF Account!Fails
<1> QED
  BY <1>2, <1>3 DEF Account!Prepare

LEMMA PersistKeeps ==
    ASSUME AccountInv, NEW r \in Runners, Account!Persist(r), Nobody \notin Runners
    PROVE  AccountInv'
<1>1. InLock(runners[r]) /\ runners[r] \in Doings /\ runners[r].login \in Logins
      /\ UNCHANGED <<tokens, commits>> /\ config \in Account!Settings
      /\ runners[r].copy = Account!Settled(config, runners[r].login)
      /\ held = [by |-> r, stale |-> FALSE]
  BY DEF AccountInv, AccountTypes, Account!Persist, Account!On, InLock, HoldsLock
<1>2. CASE /\ config' = runners[r].copy
           /\ runners' = [Account!Outdated EXCEPT ![r].at = "unlock"]
           /\ UNCHANGED <<held, expended>>
  <2>1. config' \in Account!Settings /\ Account!SettingsAreWhole'
    BY <1>1, <1>2 DEF Account!Settled, Account!Settings, Account!SettingsAreWhole, AccountInv
  <2>2. \A q \in Runners : /\ runners[q] \in Doings
                           /\ runners'[q] = IF q = r THEN [runners[q] EXCEPT !.since = TRUE, !.at = "unlock"]
                                            ELSE [runners[q] EXCEPT !.since = TRUE]
    BY <1>2 DEF Account!Outdated, AccountInv, AccountTypes, Doings
  <2>3. runners' \in [Runners -> Doings] /\ \A q \in Runners : runners'[q].since
    <3>1. ASSUME NEW q \in Runners PROVE runners'[q] \in Doings /\ runners'[q].since
      <4>1. CASE q = r
        BY ZenonT(30), <2>2, <4>1 DEF Doings, Labels
      <4>2. CASE q # r
        BY <2>2, <4>2 DEF Doings
      <4> QED
        BY <4>1, <4>2
    <3> QED
      BY <1>2, <3>1 DEF Account!Outdated
  <2>4. runners'[r].at = "unlock" /\ \A q \in Runners \ {r} : runners'[q].at = runners[q].at /\ runners'[q].login = runners[q].login
    BY <2>2 DEF Doings
  <2>5. AccountTypes'
    BY <1>1, <1>2, <2>1, <2>3 DEF AccountInv, AccountTypes
  <2>6. ASSUME NEW q \in Runners PROVE (HoldsLock(q) /\ IsChecked(q))'
    <3>1. IsChecked(q)'
      BY <2>3 DEF IsChecked
    <3>2. HoldsLock(q)'
      <4>1. CASE q = r
        BY <4>1, <2>4, <1>1, <1>2 DEF HoldsLock, InLock
      <4>2. CASE q # r
        <5>1. ~ InLock(runners[q])
          BY <4>2, <1>1 DEF AccountInv, HoldsLock
        <5> QED
          BY <4>2, <5>1, <2>4 DEF AccountInv, HoldsLock, InLock
      <4> QED
        BY <4>1, <4>2
    <3> QED
      BY <3>1, <3>2
  <2>7. LockIsHeld' /\ Account!CommitsAreByTheAccount'
    BY <1>1, <1>2, <2>4 DEF AccountInv, LockIsHeld, Account!CommitsAreByTheAccount, InLock
  <2> QED
    BY <2>1, <2>5, <2>6, <2>7 DEF AccountInv
<1>3. CASE Account!Fails(r) /\ Account!Unlocked(r) /\ UNCHANGED config
  BY <1>1, <1>3, GivesUpTheLock, ExpensesStay DEF Account!Fails
<1> QED
  BY <1>2, <1>3 DEF Account!Persist

LEMMA UnlockKeeps ==
    ASSUME AccountInv, NEW r \in Runners, Account!Unlock(r), Nobody \notin Runners
    PROVE  AccountInv'
BY GivesUpTheLock DEF Account!Unlock, Account!On, InLock, AccountInv, AccountTypes
-----------------------------------------------------------------------------
(* Commits and calls of gh *)

(* A process that goes on checking, having read something, outside the lock. *)
LEMMA ChecksOn ==
    ASSUME AccountInv, NEW r \in Runners, NEW next \in Doings, Account!Quietly(r, next),
           ~ InLock(runners[r]), next.at \notin {"verify", "lock"}, ~ InLock(next),
           IsChecked(r)'
    PROVE  AccountInv'
<1>1. Account!To(r, next) /\ UNCHANGED <<config, held, tokens, commits, expended>>
  BY DEF Account!Quietly
<1>2. runners'[r] = next
  BY <1>1, OthersStay
<1>3. HoldsLock(r)'
  BY <1>2 DEF HoldsLock, InLock
<1>4. commits' \in Histories /\ Account!CommitsAreByTheAccount' /\ expended' \in Expenses
  BY <1>1 DEF AccountInv, AccountTypes, Account!CommitsAreByTheAccount
<1> QED
  BY <1>1, <1>3, <1>4, MovesAlone

LEMMA StartsKeep ==
    ASSUME AccountInv, NEW r \in Runners, NEW next \in Doings, Account!To(r, next),
           ~ InLock(runners[r]), next.at \in {"account", "token"}, Account!Expend("operations"),
           UNCHANGED <<config, held, tokens, commits>>
    PROVE  AccountInv'
<1>1. runners'[r] = next
  BY OthersStay
<1>2. HoldsLock(r)' /\ IsChecked(r)'
  BY <1>1 DEF HoldsLock, IsChecked, InLock
<1>3. commits' \in Histories /\ Account!CommitsAreByTheAccount'
  BY DEF AccountInv, AccountTypes, Account!CommitsAreByTheAccount
<1>4. expended' \in Expenses /\ expended'.edits = expended.edits
  BY ExpensesStay
<1> QED
  BY <1>2, <1>3, <1>4, MovesAlone

LEMMA CommitKeeps ==
    ASSUME AccountInv, NEW r \in Runners, NEW amend \in BOOLEAN, NEW override \in BOOLEAN,
           Account!Commit(r, amend, override)
    PROVE  AccountInv'
<1> DEFINE next == [Account!Resting EXCEPT !.at = "account", !.amend = amend, !.override = override]
<1>1. next \in Doings /\ next.at = "account"
  BY DEF Account!Resting, Doings, Labels, Known
<1>2. ~ InLock(runners[r])
  BY DEF Account!Commit, Account!On, InLock
<1> QED
  BY <1>1, <1>2, StartsKeep DEF Account!Commit

LEMMA CallGhKeeps ==
    ASSUME AccountInv, NEW r \in Runners, Account!CallGh(r)
    PROVE  AccountInv'
<1> DEFINE next == [Account!Resting EXCEPT !.at = "token", !.read = config.account]
<1>1. next \in Doings /\ next.at = "token"
  BY DEF Account!Resting, Doings, Labels, Known, AccountInv, AccountTypes, Account!Settings
<1>2. ~ InLock(runners[r])
  BY DEF Account!CallGh, Account!On, InLock
<1> QED
  BY <1>1, <1>2, StartsKeep DEF Account!CallGh

LEMMA AskAccountKeeps ==
    ASSUME AccountInv, NEW r \in Runners, Account!AskAccount(r)
    PROVE  AccountInv'
<1> DEFINE next == [runners[r] EXCEPT !.at = IF config.account = Nobody THEN "commit" ELSE "pinned",
                                      !.since = FALSE]
<1>1. ~ InLock(runners[r]) /\ runners[r] \in Doings /\ Account!Quietly(r, next)
  BY DEF Account!AskAccount, Account!On, InLock, AccountInv, AccountTypes
<1>2. /\ next \in Doings
      /\ next.at = IF config.account = Nobody THEN "commit" ELSE "pinned"
  BY <1>1 DEF Doings, Labels
<1>3. runners'[r] = next /\ config' = config
  BY <1>1, <1>2, OthersStay DEF Account!Quietly
<1>4. IsChecked(r)'
  BY <1>2, <1>3 DEF IsChecked
<1>5. next.at \in {"commit", "pinned"}
  BY <1>2
<1>6. next.at \notin {"verify", "lock"} /\ ~ InLock(next)
  BY <1>5 DEF InLock
<1> HIDE DEF next
<1> QED
  BY <1>1, <1>2, <1>4, <1>6, ChecksOn

LEMMA AskPinnedKeeps ==
    ASSUME AccountInv, NEW r \in Runners, Account!AskPinned(r)
    PROVE  AccountInv'
<1> DEFINE next == [runners[r] EXCEPT !.at = "identity", !.read = config.pinned]
<1>1. /\ ~ InLock(runners[r]) /\ runners[r] \in Doings /\ config \in Account!Settings
      /\ runners[r].at = "pinned" /\ IsChecked(r) /\ config.account = config.pinned
  BY DEF Account!AskPinned, Account!On, InLock, AccountInv, AccountTypes, Account!SettingsAreWhole
<1>2. CASE config.pinned = Nobody
  BY <1>1, <1>2, GivesUp DEF Account!AskPinned, Account!Quietly, Account!GiveUp, AccountInv, AccountTypes
<1>3. CASE config.pinned # Nobody
  <2>1. Account!Quietly(r, next)
    BY <1>3 DEF Account!AskPinned
  <2>2. /\ next \in Doings /\ next.at = "identity" /\ next.read = config.pinned
        /\ next.since = runners[r].since
    BY <1>1 DEF Doings, Labels, Account!Settings, Known
  <2>3. runners'[r] = next /\ config' = config
    BY <2>1, <2>2, OthersStay DEF Account!Quietly
  <2>4. IsChecked(r)'
    BY <1>1, <1>3, <2>2, <2>3 DEF IsChecked
  <2> QED
    BY <1>1, <2>1, <2>2, <2>4, ChecksOn DEF InLock
<1> QED
  BY <1>2, <1>3

LEMMA AskIdentityKeeps ==
    ASSUME AccountInv, NEW r \in Runners, Account!AskIdentity(r)
    PROVE  AccountInv'
<1> DEFINE next == [runners[r] EXCEPT !.at = IF runners[r].amend THEN "author" ELSE "commit"]
<1>1. /\ ~ InLock(runners[r]) /\ runners[r] \in Doings
      /\ runners[r].at = "identity" /\ IsChecked(r)
  BY DEF Account!AskIdentity, Account!On, InLock, AccountInv, AccountTypes
<1>2. CASE Account!Identity(r) # runners[r].read
  BY <1>1, <1>2, GivesUp DEF Account!AskIdentity, Account!Quietly, Account!GiveUp, AccountInv, AccountTypes
<1>3. CASE Account!Identity(r) = runners[r].read
  <2>1. Account!Quietly(r, next)
    BY <1>3 DEF Account!AskIdentity
  <2>2. /\ next \in Doings /\ next.read = runners[r].read /\ next.since = runners[r].since
        /\ next.at = IF runners[r].amend THEN "author" ELSE "commit"
        /\ next.override = runners[r].override /\ next.amend = runners[r].amend
    BY <1>1 DEF Doings, Labels
  <2>3. runners'[r] = next /\ config' = config /\ Account!Identity(r)' = Account!Identity(r)
    BY <2>1, <2>2, OthersStay DEF Account!Quietly, Account!Identity
  <2>4. IsChecked(r)'
    BY <1>1, <1>3, <2>2, <2>3 DEF IsChecked
  <2>5. next.at \notin {"verify", "lock"} /\ ~ InLock(next)
    BY <2>2 DEF InLock
  <2> HIDE DEF next
  <2> QED
    BY <1>1, <2>1, <2>2, <2>4, <2>5, ChecksOn
<1> QED
  BY <1>2, <1>3

LEMMA AskAuthorKeeps ==
    ASSUME AccountInv, NEW r \in Runners, Account!AskAuthor(r)
    PROVE  AccountInv'
<1> DEFINE next == [runners[r] EXCEPT !.at = "commit"]
<1>1. /\ ~ InLock(runners[r]) /\ runners[r] \in Doings
      /\ runners[r].at = "author" /\ IsChecked(r)
  BY DEF Account!AskAuthor, Account!On, InLock, AccountInv, AccountTypes
<1>2. CASE commits.author # runners[r].read
  BY <1>1, <1>2, GivesUp DEF Account!AskAuthor, Account!Quietly, Account!GiveUp, AccountInv, AccountTypes
<1>3. CASE commits.author = runners[r].read
  <2>1. Account!Quietly(r, next)
    BY <1>3 DEF Account!AskAuthor
  <2>2. /\ next \in Doings /\ next.read = runners[r].read /\ next.since = runners[r].since
        /\ next.at = "commit"
        /\ next.override = runners[r].override /\ next.amend = runners[r].amend
    BY <1>1 DEF Doings, Labels
  <2>3. runners'[r] = next /\ config' = config /\ Account!Identity(r)' = Account!Identity(r) /\ commits' = commits
    BY <2>1, <2>2, OthersStay DEF Account!Quietly, Account!Identity
  <2>4. IsChecked(r)'
    BY <1>1, <1>3, <2>2, <2>3 DEF IsChecked
  <2> QED
    BY <1>1, <2>1, <2>2, <2>4, ChecksOn DEF InLock
<1> QED
  BY <1>2, <1>3

(* The commit is by the account it was checked for; the others that amend are *)
(* told that what they amend is another commit now.                           *)
LEMMA RecordKeeps ==
    ASSUME AccountInv, NEW r \in Runners, Account!Record(r)
    PROVE  AccountInv'
<1> DEFINE told(q) == [runners[q] EXCEPT !.since = @ \/ (Account!On(q, "commit") /\ runners[q].amend)]
<1>1. /\ ~ InLock(runners[r]) /\ runners \in [Runners -> Doings] /\ config \in Account!Settings
      /\ runners[r].at = "commit" /\ IsChecked(r) /\ commits \in Histories
      /\ UNCHANGED <<config, held, tokens, expended>> /\ ~ commits.wrong
  BY DEF Account!Record, Account!On, InLock, AccountInv, AccountTypes, Account!CommitsAreByTheAccount
<1>2. Account!Identity(r) \in Logins \cup {Account!Own}
  BY <1>1 DEF Account!Identity, Account!Settings
<1>3. commits' \in Histories /\ Account!CommitsAreByTheAccount'
  <2> DEFINE author == IF runners[r].amend THEN commits.author ELSE Account!Identity(r)
             wrong == /\ ~ runners[r].since /\ config.account # Nobody
                      /\ author # config.account \/ Account!Identity(r) # config.account
  <2>1. ~ wrong
    BY <1>1 DEF IsChecked
  <2>2. author \in Logins \cup {Account!Own}
    BY <1>1, <1>2 DEF Histories
  <2>3. commits' = [commits EXCEPT !.author = author, !.wrong = @ \/ wrong]
    BY DEF Account!Record
  <2>4. (commits.wrong \/ wrong) = FALSE
    BY <1>1, <2>1
  <2>5. commits' = [commits EXCEPT !.author = author, !.wrong = FALSE]
    BY <2>3, <2>4
  <2> HIDE DEF author, wrong
  <2>6. commits' \in Histories /\ commits'.wrong = FALSE /\ commits'.calls = commits.calls
    BY <1>1, <2>2, <2>5 DEF Histories
  <2> QED
    BY <2>6 DEF AccountInv, Account!CommitsAreByTheAccount
<1>4. /\ runners'[r] = Account!Resting /\ Account!Resting \in Doings
      /\ \A q \in Runners \ {r} : runners'[q] = told(q)
  BY DEF Account!Record, Account!Resting, Doings, Labels, Known
<1>5. ASSUME NEW q \in Runners \ {r}
      PROVE  /\ runners'[q] \in Doings
             /\ runners'[q].at = runners[q].at /\ runners'[q].login = runners[q].login
             /\ runners'[q].copy = runners[q].copy /\ runners'[q].read = runners[q].read
             /\ runners'[q].override = runners[q].override
             /\ runners'[q].amend = runners[q].amend
             /\ runners[q].since => runners'[q].since
             /\ runners[q].at = "commit" /\ runners[q].amend => runners'[q].since
  <2> DEFINE since == runners[q].since \/ (Account!On(q, "commit") /\ runners[q].amend)
  <2>1. runners'[q] = [runners[q] EXCEPT !.since = since] /\ since \in BOOLEAN
        /\ runners[q] \in Doings
    BY <1>1, <1>4
  <2>2. /\ runners[q].since => since
        /\ runners[q].at = "commit" /\ runners[q].amend => since
    BY DEF Account!On
  <2> HIDE DEF since
  <2>3. /\ runners'[q] \in Doings /\ runners'[q].since = since
        /\ runners'[q].at = runners[q].at /\ runners'[q].login = runners[q].login
        /\ runners'[q].copy = runners[q].copy /\ runners'[q].read = runners[q].read
        /\ runners'[q].override = runners[q].override
        /\ runners'[q].amend = runners[q].amend
    BY <2>1 DEF Doings
  <2> QED
    BY <2>1, <2>2, <2>3
<1>6. runners' \in [Runners -> Doings]
  BY <1>4, <1>5 DEF Account!Record
<1>7. AccountTypes'
  BY <1>1, <1>3, <1>6 DEF AccountInv, AccountTypes
<1>8. ASSUME NEW q \in Runners PROVE (HoldsLock(q) /\ IsChecked(q))'
  <2>1. CASE q = r
    BY <2>1, <1>4 DEF HoldsLock, IsChecked, InLock, Account!Resting
  <2>2. CASE q # r
    <3>1. /\ runners'[q].at = runners[q].at /\ runners'[q].login = runners[q].login
          /\ runners'[q].copy = runners[q].copy /\ runners'[q].read = runners[q].read
          /\ runners'[q].override = runners[q].override /\ runners'[q].amend = runners[q].amend
      BY <2>2, <1>5
    <3>2. HoldsLock(q)'
      BY <3>1, <1>1 DEF AccountInv, HoldsLock, InLock
    <3>3. IsChecked(q)'
      BY <3>1, <2>2, <1>1, <1>5 DEF AccountInv, IsChecked, Account!Identity
    <3> QED
      BY <3>2, <3>3
  <2> QED
    BY <2>1, <2>2
<1>9. LockIsHeld'
  <2>1. \A q \in Runners : InLock(runners[q]) => InLock(runners'[q])
    BY <1>4, <1>5, <1>1 DEF InLock
  <2> QED
    BY <1>1, <2>1 DEF AccountInv, LockIsHeld, Account!Free0
<1>10. Account!SettingsAreWhole'
  BY <1>1 DEF AccountInv, Account!SettingsAreWhole
<1> QED
  BY <1>3, <1>7, <1>8, <1>9, <1>10 DEF AccountInv

LEMMA RunGhKeeps ==
    ASSUME AccountInv, NEW r \in Runners, Account!RunGh(r)
    PROVE  AccountInv'
<1> DEFINE login == runners[r].read
           as == IF login = Nobody THEN Nobody ELSE tokens[login]
<1>1. /\ ~ InLock(runners[r]) /\ runners[r] \in Doings /\ commits \in Histories
      /\ UNCHANGED <<config, held, tokens>> /\ tokens \in [Logins -> Known]
  BY DEF Account!RunGh, Account!On, InLock, AccountInv, AccountTypes
<1>2. CASE /\ login # Nobody => as # Nobody
           /\ commits' = [commits EXCEPT !.calls = @ \cup {[selected |-> login, as |-> as]}]
           /\ Account!GiveUp(r) /\ UNCHANGED expended
  <2>1. login \in Known /\ as \in Known
    BY <1>1 DEF Doings, Known
  <2> DEFINE made == [selected |-> login, as |-> as]
             calls == commits.calls \cup {made}
  <2>a. made \in [selected : Known, as : Known] /\ made.selected = login /\ made.as = as
    BY <2>1
  <2>b. commits' = [commits EXCEPT !.calls = calls]
    BY <1>2
  <2>c. login # Nobody => as # Nobody
    BY <1>2
  <2> HIDE DEF login, as, made
  <2>d. calls \subseteq [selected : Known, as : Known]
    BY <1>1, <2>a DEF Histories
  <2> HIDE DEF calls
  <2>2. /\ commits' \in Histories /\ commits'.author = commits.author
        /\ commits'.wrong = commits.wrong /\ commits'.calls = calls
    BY <1>1, <2>b, <2>d DEF Histories
  <2>3. Account!CommitsAreByTheAccount'
    BY <2>2, <2>a, <2>c DEF AccountInv, Account!CommitsAreByTheAccount, calls
  <2>4. Account!Resting \in Doings /\ ~ InLock(Account!Resting)
    BY DEF Account!Resting, Doings, Labels, Known, InLock
  <2>5. HoldsLock(r)' /\ IsChecked(r)'
    <3>1. runners'[r] = Account!Resting
      BY <1>2, <2>4, OthersStay DEF Account!GiveUp
    <3> QED
      BY <3>1 DEF HoldsLock, IsChecked, InLock, Account!Resting
  <2>6. expended' \in Expenses /\ expended'.edits = expended.edits
    BY <1>2 DEF AccountInv, AccountTypes
  <2> QED
    BY <1>1, <1>2, <2>2, <2>3, <2>4, <2>5, <2>6, MovesAlone DEF Account!GiveUp
<1>3. CASE Account!GiveUp(r) /\ UNCHANGED <<commits, expended>>
  BY <1>1, <1>3, GivesUp DEF AccountInv, AccountTypes
<1>4. CASE Account!Fails(r) /\ UNCHANGED commits
  BY <1>1, <1>4, GivesUp, ExpensesStay DEF Account!Fails
<1> QED
  BY <1>2, <1>3, <1>4 DEF Account!RunGh
-----------------------------------------------------------------------------
(* Others, and every step *)

LEMMA GitConfigKeeps ==
    ASSUME AccountInv, Account!GitConfig, Nobody \notin Runners
    PROVE  AccountInv'
<1>1. /\ held = Account!Free0 /\ UNCHANGED <<held, tokens, commits>> /\ config \in Account!Settings
      /\ expended \in Expenses /\ runners \in [Runners -> Doings]
  BY DEF Account!GitConfig, AccountInv, AccountTypes
<1>2. config' \in Account!Settings /\ Account!SettingsAreWhole'
  <2>1. PICK user \in {config.user, Account!Own} :
            config' = [config EXCEPT !.user = user, !.edits = @ + 1]
    BY DEF Account!GitConfig
  <2>2. expended'.edits = expended.edits + 1 /\ config.edits = expended.edits
    BY <1>1 DEF Account!GitConfig, Account!Expend, Expenses, AccountInv, Account!SettingsAreWhole
  <2>3. user \in Logins \cup {Account!Own} /\ user \in {config.account, Account!Own}
    BY <1>1, <2>1 DEF Account!Settings, AccountInv, Account!SettingsAreWhole
  <2>4. /\ config' \in Account!Settings /\ config'.user = user /\ config'.edits = config.edits + 1
        /\ config'.account = config.account /\ config'.pinned = config.pinned
        /\ config'.credential = config.credential
    <3> DEFINE edits == config.edits + 1
    <3>1. edits \in Nat /\ config' = [config EXCEPT !.user = user, !.edits = edits]
      BY <1>1, <2>1 DEF Account!Settings
    <3> HIDE DEF edits
    <3>2. /\ config' \in Account!Settings /\ config'.user = user /\ config'.edits = edits
          /\ config'.account = config.account /\ config'.pinned = config.pinned
          /\ config'.credential = config.credential
      BY <1>1, <2>3, <3>1 DEF Account!Settings
    <3> QED
      BY <3>2 DEF edits
  <2> QED
    BY <2>2, <2>3, <2>4 DEF Account!SettingsAreWhole, AccountInv
<1>3. expended' \in Expenses
  BY <1>1 DEF Account!GitConfig, Account!Expend, Expenses
<1>4. /\ runners' \in [Runners -> Doings]
      /\ \A q \in Runners : runners'[q].since /\ runners'[q].at = runners[q].at
                            /\ runners'[q].login = runners[q].login
  <2>1. \A q \in Runners : runners[q] \in Doings
                           /\ runners'[q] = [runners[q] EXCEPT !.since = TRUE]
    BY <1>1 DEF Account!GitConfig, Account!Outdated
  <2>2. \A q \in Runners : /\ runners'[q] \in Doings /\ runners'[q].since
                           /\ runners'[q].at = runners[q].at
                           /\ runners'[q].login = runners[q].login
    BY ZenonT(30), <2>1 DEF Doings
  <2> QED
    BY <2>2 DEF Account!GitConfig, Account!Outdated
<1>5. AccountTypes'
  BY <1>1, <1>2, <1>3, <1>4 DEF AccountInv, AccountTypes
<1>6. ASSUME NEW q \in Runners PROVE (HoldsLock(q) /\ IsChecked(q))'
  <2>1. ~ InLock(runners[q])
    BY <1>1 DEF AccountInv, HoldsLock, Account!Free0
  <2> QED
    BY <2>1, <1>4 DEF AccountInv, HoldsLock, IsChecked, InLock
<1>7. LockIsHeld' /\ Account!CommitsAreByTheAccount'
  BY <1>1 DEF AccountInv, LockIsHeld, Account!CommitsAreByTheAccount, Account!Free0
<1> QED
  BY <1>2, <1>5, <1>6, <1>7 DEF AccountInv

LEMMA LogOutKeeps ==
    ASSUME AccountInv, NEW login \in Logins, Account!LogOut(login)
    PROVE  AccountInv'
<1>1. expended' \in Expenses /\ expended'.edits = expended.edits
  BY ExpensesStay DEF Account!LogOut
<1>2. AccountTypes'
  BY <1>1 DEF AccountInv, AccountTypes, Account!LogOut, Known
<1> QED
  BY <1>1, <1>2 DEF AccountInv, Account!LogOut, HoldsLock, IsChecked, Account!Identity, LockIsHeld, Account!SettingsAreWhole,
     Account!CommitsAreByTheAccount, InLock, Account!Free0

LEMMA CrashKeeps ==
    ASSUME AccountInv, NEW r \in Runners, Account!Crash(r), Nobody \notin Runners
    PROVE  AccountInv'
<1>1. expended' \in Expenses /\ expended'.edits = expended.edits
  BY ExpensesStay DEF Account!Crash
<1>2. CASE ~ InLock(runners[r])
  <2>1. held' = held
    BY <1>2 DEF Account!Crash, AccountInv, LockIsHeld, Account!Free0
  <2> QED
    BY <1>1, <1>2, <2>1, GivesUp DEF Account!Crash
<1>3. CASE InLock(runners[r])
  <2>1. held = [by |-> r, stale |-> FALSE] /\ held' = [by |-> r, stale |-> TRUE]
    <3>1. held = [by |-> r, stale |-> FALSE]
      BY <1>3 DEF AccountInv, HoldsLock
    <3> QED
      BY <3>1 DEF Account!Crash
  <2>2. Account!Resting \in Doings
    BY DEF Account!Resting, Doings, Labels, Known
  <2>3. /\ runners' \in [Runners -> Doings] /\ runners'[r] = Account!Resting
        /\ \A q \in Runners \ {r} : runners'[q] = runners[q]
    BY <2>2, OthersStay DEF Account!Crash, Account!GiveUp
  <2>4. AccountTypes'
    BY <1>1, <2>1, <2>3 DEF AccountInv, AccountTypes, Account!Crash
  <2>5. ASSUME NEW q \in Runners PROVE (HoldsLock(q) /\ IsChecked(q))'
    <3>1. CASE q = r
      BY <3>1, <2>3 DEF HoldsLock, IsChecked, InLock, Account!Resting
    <3>2. CASE q # r
      <4>1. ~ InLock(runners[q])
        BY <3>2, <2>1 DEF AccountInv, HoldsLock
      <4> QED
        BY <3>2, <4>1, <2>3 DEF AccountInv, HoldsLock, IsChecked, Account!Identity, InLock, Account!Crash
    <3> QED
      BY <3>1, <3>2
  <2>6. (LockIsHeld /\ Account!SettingsAreWhole /\ Account!CommitsAreByTheAccount)'
    BY <1>1, <2>1 DEF AccountInv, LockIsHeld, Account!SettingsAreWhole, Account!CommitsAreByTheAccount, Account!Crash
  <2> QED
    BY <2>4, <2>5, <2>6 DEF AccountInv
<1> QED
  BY <1>2, <1>3

LEMMA AccountStep ==
    ASSUME Nobody \notin Runners, AccountInv, [Account!Next]_(Account!accountVars)
    PROVE  AccountInv'
<1>1. CASE UNCHANGED Account!accountVars
  BY <1>1 DEF Account!accountVars, AccountInv, AccountTypes, HoldsLock, IsChecked, Account!Identity, LockIsHeld,
     Account!SettingsAreWhole, Account!CommitsAreByTheAccount, InLock, Account!Free0
<1>2. ASSUME NEW r \in Runners, NEW login \in Logins, Account!Switch(r, login) PROVE AccountInv'
  BY <1>2, SwitchKeeps
<1>3. ASSUME NEW r \in Runners,
             Account!Verify(r) \/ Account!Lock(r) \/ Account!Copy(r) \/ Account!Prepare(r) \/ Account!Persist(r) \/ Account!Unlock(r)
      PROVE  AccountInv'
  BY <1>3, VerifyKeeps, LockKeeps, CopyKeeps, PrepareKeeps, PersistKeeps, UnlockKeeps
<1>4. ASSUME NEW r \in Runners, NEW amend \in BOOLEAN, NEW override \in BOOLEAN,
             Account!Commit(r, amend, override)
      PROVE  AccountInv'
  BY <1>4, CommitKeeps
<1>5. ASSUME NEW r \in Runners,
             \/ Account!AskAccount(r) \/ Account!AskPinned(r) \/ Account!AskIdentity(r) \/ Account!AskAuthor(r) \/ Account!Record(r)
             \/ Account!CallGh(r) \/ Account!RunGh(r) \/ Account!Crash(r)
      PROVE  AccountInv'
  BY <1>5, AskAccountKeeps, AskPinnedKeeps, AskIdentityKeeps, AskAuthorKeeps, RecordKeeps,
     CallGhKeeps, RunGhKeeps, CrashKeeps
<1>6. ASSUME NEW login \in Logins, Account!LogOut(login) PROVE AccountInv'
  BY <1>6, LogOutKeeps
<1> QED
  BY <1>1, <1>2, <1>3, <1>4, <1>5, <1>6, GitConfigKeeps DEF Account!Next

(* One process is inside the lock at a time, because the lock names it. *)
LEMMA LocksAreReleased ==
    ASSUME AccountInv
    PROVE  Account!LockIsReleased
<1> DEFINE inside == {r \in Runners : runners[r].at \in {"copy", "set", "persist", "unlock"}}
<1>1. \A r \in inside : held = [by |-> r, stale |-> FALSE]
  BY DEF AccountInv, HoldsLock, InLock
<1>2. \A r, q \in inside : r = q
  BY <1>1
<1>3. held # Account!Free0 => held.stale \/ held.by \in inside
  BY DEF AccountInv, LockIsHeld, InLock
<1> QED
  BY <1>2, <1>3 DEF Account!LockIsReleased

LEMMA AccountsAreSound ==
    ASSUME AccountInv
    PROVE  Account!TypeOK /\ Account!SettingsAreWhole /\ Account!LockIsReleased /\ Account!CommitsAreByTheAccount
<1>1. Account!TypeOK
  BY DEF AccountInv, AccountTypes, Account!TypeOK, Known, Histories
<1> QED
  BY <1>1, LocksAreReleased DEF AccountInv

(* However many processes switch the account, commit, call gh and die, with    *)
(* any logins, and while others edit the configuration: its settings are of    *)
(* one account, one process at a time replaces them (save_account), commits    *)
(* that were checked are the account's (verify_commit_account), and gh is not  *)
(* called without the credential it has for that login (pin_github_command).   *)
THEOREM AccountsStaySound ==
    ASSUME Nobody \notin Runners
    PROVE  Account!Spec => [](Account!TypeOK /\ Account!SettingsAreWhole /\ Account!LockIsReleased /\ Account!CommitsAreByTheAccount)
<1>1. Account!Init => AccountInv
  BY AccountStart
<1>2. AccountInv /\ [Account!Next]_(Account!accountVars) => AccountInv'
  BY AccountStep
<1>3. AccountInv => Account!TypeOK /\ Account!SettingsAreWhole /\ Account!LockIsReleased /\ Account!CommitsAreByTheAccount
  BY AccountsAreSound
<1> QED
  BY <1>1, <1>2, <1>3, PTL DEF Account!Spec
-----------------------------------------------------------------------------
(* The local operations *)

Files == [head : 0 .. 3, index : 0 .. 4, work : 0 .. 3]
Rows == [path : Paths, area : {"Staged", "Unstaged"}, untracked : BOOLEAN]
Kinds ==
    {"none", "Stage", "Unstage", "Remove", "Ours", "Theirs", "Discard", "StageAll", "UnstageAll",
     "Commit", "Push", "Sync", "Checkout", "DeleteBranch", "CreateBranch", "RenameBranch"}
GitLabels ==
    {"idle", "begin", "unstage", "worktree", "both", "delete", "rm", "add", "status", "push", "ended"}
NameLists == Seq(Names \cup {Git!Invalid})
Runs ==
    [kind : Kinds, at : GitLabels, paths : SUBSET Paths, rows : SUBSET Rows, names : NameLists,
     knows : BOOLEAN, result : {"none", "ok", "failed"}, disturbed : BOOLEAN,
     touched : SUBSET (Paths \X Git!Places), misread : BOOLEAN]
Branches ==
    [all : SUBSET Names, current : Names, upstream : BOOLEAN, origin : BOOLEAN, behind : 0 .. 1,
     ahead : Nat, commits : Nat]
Scripts == {s.script : s \in Starts}
GitBounds == [script : Scripts, operations : Nat, others : Nat, failures : Nat]

GitTypes ==
    /\ tree \in [Paths -> Files]
    /\ branch \in Branches /\ branch.current \in branch.all
    /\ run \in Runs
    /\ spent \in GitBounds

(* Only some places of some files become others. *)
Rewrites(t, ps, places) ==
    /\ t \in [Paths -> Files]
    /\ \A p \in Paths, x \in Git!Places : p \notin ps \/ x \notin places => t[p][x] = tree[p][x]

LEMMA RewritesTouch ==
    ASSUME NEW t, NEW ps, NEW places, Rewrites(t, ps, places)
    PROVE  Git!TouchedBy(t) \subseteq ps \X places
BY DEF Rewrites, Git!TouchedBy

LEMMA WithGives ==
    ASSUME NEW ps \in SUBSET Paths, NEW f \in [ps -> Files], NEW t \in Git!With(f), GitTypes
    PROVE  /\ t \in [Paths -> Files]
           /\ \A p \in ps : t[p] = f[p]
           /\ \A p \in Paths \ ps : t[p] = tree[p]
BY DEF Git!With, GitTypes

LEMMA CallGives ==
    ASSUME GitTypes, NEW ps \in SUBSET Paths, NEW places \in SUBSET Git!Places, NEW f \in [ps -> Files],
           \A p \in ps, x \in Git!Places : x \notin places => f[p][x] = tree[p][x],
           NEW t \in Git!With(f)
    PROVE  Rewrites(t, ps, places) /\ (\A p \in ps : t[p] = f[p])
<1>1. /\ t \in [Paths -> Files]
      /\ \A p \in ps : t[p] = f[p]
      /\ \A p \in Paths \ ps : t[p] = tree[p]
  BY WithGives
<1> QED
  BY <1>1 DEF Rewrites

LEMMA AddedGives ==
    ASSUME GitTypes, NEW ps \in SUBSET Paths, NEW t \in Git!Added(ps)
    PROVE  Rewrites(t, ps, {"index"}) /\ \A p \in ps : t[p].index = t[p].work /\ t[p].index # Git!Unmerged
<1> DEFINE f == [p \in ps |-> [tree[p] EXCEPT !.index = tree[p].work]]
<1>1. \A p \in ps : /\ f[p] \in Files /\ f[p].index = f[p].work /\ f[p].index # Git!Unmerged
                    /\ f[p].head = tree[p].head /\ f[p].work = tree[p].work
  BY DEF GitTypes, Files, Git!Unmerged
<1>2. f \in [ps -> Files]
  BY <1>1
<1> DEFINE refused == \E p \in ps : tree[p].index = Git!Gone /\ tree[p].work = Git!Gone
<1>3. t \in Git!With(f) /\ ~ refused
  BY DEF Git!Added, Git!Unless
<1> HIDE DEF f, refused
<1>4. {"index"} \in SUBSET Git!Places
      /\ \A p \in ps, x \in Git!Places : x \notin {"index"} => f[p][x] = tree[p][x]
  BY <1>1 DEF Git!Places
<1>5. Rewrites(t, ps, {"index"}) /\ \A p \in ps : t[p] = f[p]
  BY <1>2, <1>3, <1>4, CallGives
<1> QED
  BY <1>1, <1>5

(* The index is as it was in HEAD. *)
LEMMA RestoredIndexGives ==
    ASSUME GitTypes, NEW ps \in SUBSET Paths, NEW t \in Git!RestoredIndex(ps)
    PROVE  Rewrites(t, ps, {"index"}) /\ \A p \in ps : t[p].index = t[p].head
<1> DEFINE f == [p \in ps |-> [tree[p] EXCEPT !.index = tree[p].head]]
<1>1. \A p \in ps : /\ f[p] \in Files /\ f[p].index = f[p].head
                    /\ f[p].head = tree[p].head /\ f[p].work = tree[p].work
  BY DEF GitTypes, Files
<1>2. f \in [ps -> Files]
  BY <1>1
<1> DEFINE refused == ~ Git!Born \/ \E p \in ps : tree[p].index = Git!Gone /\ tree[p].head = Git!Gone
<1>3. t \in Git!With(f) /\ ~ refused
  BY DEF Git!RestoredIndex, Git!Unless
<1> HIDE DEF f, refused
<1>4. {"index"} \in SUBSET Git!Places
      /\ \A p \in ps, x \in Git!Places : x \notin {"index"} => f[p][x] = tree[p][x]
  BY <1>1 DEF Git!Places
<1>5. Rewrites(t, ps, {"index"}) /\ \A p \in ps : t[p] = f[p]
  BY <1>2, <1>3, <1>4, CallGives
<1> QED
  BY <1>1, <1>5

LEMMA RestoredWorkGives ==
    ASSUME GitTypes, NEW ps \in SUBSET Paths, NEW t \in Git!RestoredWork(ps)
    PROVE  Rewrites(t, ps, {"work"}) /\ \A p \in ps : t[p].work = t[p].index
<1> DEFINE f == [p \in ps |-> [tree[p] EXCEPT !.work = tree[p].index]]
           refused == \E p \in ps : tree[p].index \in {Git!Gone, Git!Unmerged}
<1>1. t \in Git!With(f) /\ ~ refused
  BY DEF Git!RestoredWork, Git!Unless
<1>2. ~ refused
  BY <1>1
<1>3. \A p \in ps : /\ f[p] \in Files /\ f[p].work = f[p].index
                    /\ f[p].head = tree[p].head /\ f[p].index = tree[p].index
  BY <1>2 DEF GitTypes, Files, Git!Unmerged
<1>4. f \in [ps -> Files]
  BY <1>3
<1> HIDE DEF f, refused
<1>5. {"work"} \in SUBSET Git!Places
      /\ \A p \in ps, x \in Git!Places : x \notin {"work"} => f[p][x] = tree[p][x]
  BY <1>3 DEF Git!Places
<1>6. Rewrites(t, ps, {"work"}) /\ \A p \in ps : t[p] = f[p]
  BY <1>1, <1>4, <1>5, CallGives
<1> QED
  BY <1>3, <1>6

LEMMA RestoredBothGives ==
    ASSUME GitTypes, NEW ps \in SUBSET Paths, NEW t \in Git!RestoredBoth(ps)
    PROVE  /\ Rewrites(t, ps, {"index", "work"})
           /\ \A p \in ps : t[p].index = t[p].head /\ t[p].work = t[p].head
<1> DEFINE f == [p \in ps |-> [tree[p] EXCEPT !.index = tree[p].head, !.work = tree[p].head]]
           refused == ~ Git!Born \/ \E p \in ps : tree[p].index = Git!Gone /\ tree[p].head = Git!Gone
<1>1. ASSUME NEW p \in ps
      PROVE  /\ f[p] \in Files /\ f[p].head = tree[p].head
             /\ f[p].index = f[p].head /\ f[p].work = f[p].head
  <2>1. tree[p] \in Files /\ f[p] = [tree[p] EXCEPT !.index = tree[p].head, !.work = tree[p].head]
    BY DEF GitTypes
  <2>2. tree[p].head \in 0 .. 3 /\ tree[p].head \in 0 .. 4
    BY <2>1 DEF Files
  <2> HIDE DEF f
  <2> QED
    BY <2>1, <2>2 DEF Files
<1>2. f \in [ps -> Files]
  BY <1>1
<1>3. t \in Git!With(f) /\ ~ refused
  BY DEF Git!RestoredBoth, Git!Unless
<1> HIDE DEF f, refused
<1>4. {"index", "work"} \in SUBSET Git!Places
      /\ \A p \in ps, x \in Git!Places : x \notin {"index", "work"} => f[p][x] = tree[p][x]
  BY <1>1 DEF Git!Places
<1>5. Rewrites(t, ps, {"index", "work"}) /\ \A p \in ps : t[p] = f[p]
  BY <1>2, <1>3, <1>4, CallGives
<1> QED
  BY <1>1, <1>5

LEMMA RemovedGives ==
    ASSUME GitTypes, NEW ps \in SUBSET Paths, NEW t \in Git!Removed(ps)
    PROVE  /\ Rewrites(t, ps, {"index", "work"})
           /\ \A p \in ps : t[p].index = Git!Gone /\ t[p].work = Git!Gone
<1> DEFINE f == [p \in ps |-> [tree[p] EXCEPT !.index = Git!Gone, !.work = Git!Gone]]
           refused == \E p \in ps : tree[p].index = Git!Gone
<1>1. ASSUME NEW p \in ps
      PROVE  /\ f[p] \in Files /\ f[p].head = tree[p].head
             /\ f[p].index = Git!Gone /\ f[p].work = Git!Gone
  <2>1. tree[p] \in Files /\ f[p] = [tree[p] EXCEPT !.index = Git!Gone, !.work = Git!Gone]
    BY DEF GitTypes
  <2>2. Git!Gone \in 0 .. 3 /\ Git!Gone \in 0 .. 4
    BY DEF Git!Gone
  <2> HIDE DEF f
  <2> QED
    BY <2>1, <2>2 DEF Files, Git!Gone
<1>2. f \in [ps -> Files]
  BY <1>1
<1>3. t \in Git!With(f) /\ ~ refused
  BY DEF Git!Removed, Git!Unless
<1> HIDE DEF f, refused
<1>4. {"index", "work"} \in SUBSET Git!Places
      /\ \A p \in ps, x \in Git!Places : x \notin {"index", "work"} => f[p][x] = tree[p][x]
  BY <1>1 DEF Git!Places
<1>5. Rewrites(t, ps, {"index", "work"}) /\ \A p \in ps : t[p] = f[p]
  BY <1>2, <1>3, <1>4, CallGives
<1> QED
  BY <1>1, <1>5

LEMMA RemovedFromIndexGives ==
    ASSUME GitTypes, NEW ps \in SUBSET Paths, NEW t \in Git!RemovedFromIndex(ps)
    PROVE  Rewrites(t, ps, {"index"}) /\ \A p \in ps : t[p].index = Git!Gone
<1> DEFINE f == [p \in ps |-> [tree[p] EXCEPT !.index = Git!Gone]]
           refused == \E p \in ps : tree[p].index \notin {Git!Gone, Git!Unmerged, tree[p].head, tree[p].work}
                                    /\ tree[p].work # Git!Gone
<1>1. \A p \in ps : /\ f[p] \in Files /\ f[p].index = Git!Gone
                    /\ f[p].head = tree[p].head /\ f[p].work = tree[p].work
  BY DEF GitTypes, Files, Git!Gone
<1>2. f \in [ps -> Files]
  BY <1>1
<1>3. t \in Git!With(f) /\ ~ refused
  BY DEF Git!RemovedFromIndex, Git!Unless
<1> HIDE DEF f, refused
<1>4. {"index"} \in SUBSET Git!Places
      /\ \A p \in ps, x \in Git!Places : x \notin {"index"} => f[p][x] = tree[p][x]
  BY <1>1 DEF Git!Places
<1>5. Rewrites(t, ps, {"index"}) /\ \A p \in ps : t[p] = f[p]
  BY <1>2, <1>3, <1>4, CallGives
<1> QED
  BY <1>1, <1>5

LEMMA WithSideGives ==
    ASSUME GitTypes, NEW ps \in SUBSET Paths, NEW side \in {Git!Ours, Git!Theirs},
           NEW t \in Git!WithSide(ps, side)
    PROVE  Rewrites(t, ps, {"work"})
<1> DEFINE f == [p \in ps |-> [tree[p] EXCEPT !.work = IF tree[p].index = Git!Unmerged THEN side
                                                       ELSE tree[p].index]]
           refused == \E p \in ps : tree[p].index = Git!Gone
<1>1. side \in 0 .. 3
  BY DEF Git!Ours, Git!Theirs
<1>2. \A p \in ps : f[p] \in Files /\ f[p].head = tree[p].head /\ f[p].index = tree[p].index
  BY <1>1 DEF GitTypes, Files, Git!Unmerged
<1>3. f \in [ps -> Files]
  BY <1>2
<1>4. t \in Git!With(f) /\ ~ refused
  BY DEF Git!WithSide, Git!Unless
<1> HIDE DEF f, refused
<1>5. {"work"} \in SUBSET Git!Places
      /\ \A p \in ps, x \in Git!Places : x \notin {"work"} => f[p][x] = tree[p][x]
  BY <1>2 DEF Git!Places
<1> QED
  BY <1>3, <1>4, <1>5, CallGives

LEMMA DeletedGives ==
    ASSUME GitTypes, NEW ps \in SUBSET Paths, NEW t \in Git!Deleted(ps)
    PROVE  Rewrites(t, ps, {"work"}) /\ \A p \in ps : t[p].work = Git!Gone
<1> DEFINE f == [p \in ps |-> [tree[p] EXCEPT !.work = Git!Gone]]
           refused == \E p \in ps : tree[p].work = Git!Gone
<1>1. \A p \in ps : /\ f[p] \in Files /\ f[p].work = Git!Gone
                    /\ f[p].head = tree[p].head /\ f[p].index = tree[p].index
  BY DEF GitTypes, Files, Git!Gone
<1>2. f \in [ps -> Files]
  BY <1>1
<1>3. t \in Git!With(f) /\ ~ refused
  BY DEF Git!Deleted, Git!Unless
<1> HIDE DEF f, refused
<1>4. {"work"} \in SUBSET Git!Places
      /\ \A p \in ps, x \in Git!Places : x \notin {"work"} => f[p][x] = tree[p][x]
  BY <1>1 DEF Git!Places
<1>5. Rewrites(t, ps, {"work"}) /\ \A p \in ps : t[p] = f[p]
  BY <1>2, <1>3, <1>4, CallGives
<1> QED
  BY <1>1, <1>5

(* All files, by add --all or reset. *)
LEMMA AllStagedGives ==
    ASSUME GitTypes, NEW t \in Git!With([p \in Paths |-> [tree[p] EXCEPT !.index = tree[p].work]])
    PROVE  Rewrites(t, Paths, {"index"}) /\ \A p \in Paths : t[p].index = t[p].work
<1> DEFINE f == [p \in Paths |-> [tree[p] EXCEPT !.index = tree[p].work]]
<1>1. \A p \in Paths : /\ f[p] \in Files /\ f[p].index = f[p].work
                       /\ f[p].head = tree[p].head /\ f[p].work = tree[p].work
  BY DEF GitTypes, Files
<1>2. f \in [Paths -> Files] /\ t \in Git!With(f)
  BY <1>1
<1> HIDE DEF f
<1>3. t \in [Paths -> Files] /\ \A p \in Paths : t[p] = f[p]
  <2>1. Paths \in SUBSET Paths /\ f \in [Paths -> Files] /\ t \in Git!With(f)
    BY <1>2
  <2> QED
    BY <2>1, WithGives
<1> QED
  BY <1>1, <1>3 DEF Rewrites, Git!Places

LEMMA AllUnstagedGives ==
    ASSUME GitTypes, NEW t \in Git!With([p \in Paths |-> [tree[p] EXCEPT !.index = tree[p].head]])
    PROVE  Rewrites(t, Paths, {"index"}) /\ \A p \in Paths : t[p].index = t[p].head
<1> DEFINE f == [p \in Paths |-> [tree[p] EXCEPT !.index = tree[p].head]]
<1>1. \A p \in Paths : /\ f[p] \in Files /\ f[p].index = f[p].head
                       /\ f[p].head = tree[p].head /\ f[p].work = tree[p].work
  BY DEF GitTypes, Files
<1>2. f \in [Paths -> Files] /\ t \in Git!With(f)
  BY <1>1
<1> HIDE DEF f
<1>3. t \in [Paths -> Files] /\ \A p \in Paths : t[p] = f[p]
  <2>1. Paths \in SUBSET Paths /\ f \in [Paths -> Files] /\ t \in Git!With(f)
    BY <1>2
  <2> QED
    BY <2>1, WithGives
<1> QED
  BY <1>1, <1>3 DEF Rewrites, Git!Places

LEMMA CommittedGives ==
    ASSUME GitTypes, NEW t \in Git!Committed
    PROVE  Rewrites(t, Paths, {"head"})
<1> DEFINE f == [p \in Paths |-> [tree[p] EXCEPT !.head = tree[p].index]]
           refused == \/ \E p \in Paths : tree[p].index = Git!Unmerged
                      \/ \A p \in Paths : tree[p].index = tree[p].head
<1>1. t \in Git!With(f) /\ ~ refused
  BY DEF Git!Committed, Git!Unless
<1>2. t \in Git!With(f) /\ \A p \in Paths : tree[p].index # Git!Unmerged
  BY <1>1
<1>3. \A p \in Paths : f[p] \in Files /\ f[p].index = tree[p].index /\ f[p].work = tree[p].work
  BY <1>2 DEF GitTypes, Files, Git!Unmerged
<1>4. f \in [Paths -> Files]
  BY <1>3
<1> HIDE DEF f
<1>5. t \in [Paths -> Files] /\ \A p \in Paths : t[p] = f[p]
  BY <1>2, <1>4, WithGives
<1> QED
  BY <1>3, <1>5 DEF Rewrites, Git!Places
-----------------------------------------------------------------------------
(* What holds in between *)

(* While there is no commit, no file is in HEAD. *)
HeadsAreBorn == ~ Git!Born => \A p \in Paths : tree[p].head = Git!Gone

(* An operation is about its paths, and what it has read is of them. *)
RunFits ==
    /\ run.at # "ended" => run.result = "none"
    /\ run.kind \in {"StageAll", "UnstageAll"} => run.paths = Paths
    /\ \A r \in run.rows : r.path \in run.paths /\ (r.area = "Staged" => ~ r.untracked)
    /\ run.kind = "Remove" => \A r, q \in run.rows : r.path = q.path => r = q
    /\ run.kind = "CreateBranch" => run.names[1] \in Names \cup {Git!Invalid}
    /\ run.kind = "RenameBranch" => run.names[2] \in Names \cup {Git!Invalid}

(* Which files are done, and which are still to do, if nobody interferes. *)
Cleared(p) == tree[p].index = Git!Gone /\ tree[p].work = Git!Gone
Progress ==
    /\ run.at = "unstage" /\ ~ run.knows /\ ~ run.misread => ~ Git!Born
    /\ ~ run.disturbed =>
        /\ run.kind = "Discard" /\ run.at = "begin" =>
              \A p \in run.paths : \/ p \in Git!Untracked \cup Git!OfArea("Unstaged") \cup Git!OfArea("Staged")
                                   \/ tree[p].work = Git!Gone
        /\ run.kind = "Discard" /\ run.at = "worktree" =>
              \A p \in run.paths : \/ p \in Git!OfArea("Unstaged") \cup Git!OfArea("Staged")
                                   \/ tree[p].work = Git!Gone
        /\ run.kind = "Discard" /\ run.at = "both" =>
              \A p \in run.paths : \/ p \in Git!OfArea("Staged")
                                   \/ tree[p].work \in {tree[p].index, Git!Gone}
        /\ run.kind = "Remove" /\ run.at = "delete" =>
              \A p \in run.paths : \/ p \in Git!Untracked /\ tree[p].index = Git!Gone
                                   \/ p \in Git!OfArea("Unstaged") \/ Cleared(p)
        /\ run.kind = "Remove" /\ run.at = "rm" =>
              \A p \in run.paths : p \in Git!OfArea("Unstaged") \/ Cleared(p)

GitInv ==
    /\ GitTypes /\ HeadsAreBorn /\ RunFits /\ Progress
    /\ Git!OnlyTheChosenChanges /\ Git!ReportsAreTrue

SoundStarts ==
    /\ "main" \in Names
    /\ \A s \in Starts :
          /\ s.tree \in [Paths -> Files]
          /\ ~ s.script.born => \A p \in Paths : s.tree[p].head = Git!Gone

LEMMA NamesAreLists ==
    /\ <<>> \in NameLists
    /\ \A a \in Names \cup {Git!Invalid} : <<a>> \in NameLists
    /\ \A a, b \in Names \cup {Git!Invalid} : <<a, b>> \in NameLists
BY DEF NameLists

LEMMA GitStart == SoundStarts /\ Git!Init => GitInv
<1> SUFFICES ASSUME SoundStarts, Git!Init PROVE GitInv
  OBVIOUS
<1>1. PICK start \in Starts :
          /\ spent = [script |-> start.script, operations |-> 0, others |-> 0, failures |-> 0]
          /\ tree = start.tree
  BY DEF Git!Init
<1>2. run = Git!NoRun /\ branch.commits = 0 /\ branch \in Branches /\ branch.current \in branch.all
  BY DEF Git!Init, Branches, SoundStarts
<1>3. run \in Runs
  BY <1>2, NamesAreLists DEF Git!NoRun, Runs, Kinds, GitLabels
<1>4. spent \in GitBounds
  BY <1>1 DEF GitBounds, Scripts
<1>5. GitTypes
  BY <1>1, <1>2, <1>3, <1>4 DEF GitTypes, SoundStarts
<1>6. HeadsAreBorn
  BY <1>1, <1>2 DEF HeadsAreBorn, Git!Born, SoundStarts
<1>7. RunFits /\ Progress /\ Git!OnlyTheChosenChanges /\ Git!ReportsAreTrue
  BY <1>2 DEF Git!NoRun, RunFits, Progress, Git!OnlyTheChosenChanges, Git!ReportsAreTrue
<1> QED
  BY <1>5, <1>6, <1>7 DEF GitInv
-----------------------------------------------------------------------------
(* How an operation goes on *)

SameRun ==
    /\ run' \in Runs /\ spent' \in GitBounds /\ spent'.script = spent.script
    /\ run'.kind = run.kind /\ run'.paths = run.paths /\ run'.names = run.names
    /\ run'.disturbed = run.disturbed
SameReads == run'.rows = run.rows /\ run'.knows = run.knows /\ run'.misread = run.misread

EndsFailed ==
    /\ SameRun /\ SameReads
    /\ run'.at = "ended" /\ run'.result = "failed" /\ run'.touched = run.touched
    /\ UNCHANGED <<tree, branch>>

(* It goes on at a label, or ends well, with a tree. *)
GoesOn(t, at) ==
    /\ SameRun /\ tree' = t
    /\ run'.at = IF at = "ok" THEN "ended" ELSE at
    /\ run'.result = IF at = "ok" THEN "ok" ELSE run.result
    /\ run'.touched = run.touched \cup Git!TouchedBy(t)

LEMMA SpentStays ==
    ASSUME GitTypes, NEW what \in {"operations", "others", "failures"}, Git!Used(what)
    PROVE  spent' \in GitBounds /\ spent'.script = spent.script
BY DEF GitTypes, Git!Used, GitBounds

LEMMA FailedIs ==
    ASSUME GitTypes, Git!Failed, UNCHANGED spent \/ Git!Used("failures")
    PROVE  EndsFailed
<1>1. spent' \in GitBounds /\ spent'.script = spent.script
  BY SpentStays DEF GitTypes
<1>2. run \in Runs /\ run' = [run EXCEPT !.at = "ended", !.result = "failed"] /\ UNCHANGED <<tree, branch>>
  BY DEF Git!Failed, GitTypes
<1> QED
  BY <1>1, <1>2 DEF EndsFailed, SameRun, SameReads, Runs, GitLabels

LEMMA GoesIs ==
    ASSUME GitTypes, NEW at \in GitLabels \cup {"ok"}, NEW t, NEW b, Git!Goes(Git!Then(at), t, b),
           UNCHANGED spent \/ Git!Used("failures"),
           Git!TouchedBy(t) \subseteq Paths \X Git!Places
    PROVE  GoesOn(t, at) /\ SameReads /\ branch' = b
<1> DEFINE next == Git!Then(at)
<1>1. /\ next \in Runs /\ next.kind = run.kind /\ next.paths = run.paths /\ next.names = run.names
      /\ next.disturbed = run.disturbed /\ next.rows = run.rows /\ next.knows = run.knows
      /\ next.misread = run.misread /\ next.touched = run.touched
      /\ next.at = IF at = "ok" THEN "ended" ELSE at
      /\ next.result = IF at = "ok" THEN "ok" ELSE run.result
  <2>1. CASE at = "ok"
    BY <2>1 DEF GitTypes, Runs, Git!Then, GitLabels
  <2>2. CASE at # "ok"
    BY <2>2 DEF GitTypes, Runs, Git!Then
  <2> QED
    BY <2>1, <2>2
<1>2. run' = [next EXCEPT !.touched = @ \cup Git!TouchedBy(t)] /\ tree' = t /\ branch' = b
  BY DEF Git!Goes
<1> HIDE DEF next
<1>3. next.touched \cup Git!TouchedBy(t) \in SUBSET (Paths \X Git!Places)
  BY <1>1 DEF Runs
<1>4. /\ run' \in Runs /\ run'.kind = next.kind /\ run'.paths = next.paths /\ run'.names = next.names
      /\ run'.disturbed = next.disturbed /\ run'.rows = next.rows /\ run'.knows = next.knows
      /\ run'.misread = next.misread /\ run'.touched = next.touched \cup Git!TouchedBy(t)
      /\ run'.at = next.at /\ run'.result = next.result
  BY <1>1, <1>2, <1>3 DEF Runs
<1> QED
  BY <1>1, <1>2, <1>4, SpentStays DEF GoesOn, SameRun, SameReads, GitTypes

LEMMA FailsKeeps ==
    ASSUME GitInv, EndsFailed
    PROVE  GitInv'
<1>1. GitTypes'
  BY DEF GitInv, GitTypes, EndsFailed, SameRun
<1>2. HeadsAreBorn'
  BY DEF GitInv, HeadsAreBorn, Git!Born, EndsFailed, SameRun
<1>3. RunFits' /\ Progress'
  BY DEF GitInv, RunFits, Progress, EndsFailed, SameRun, SameReads
<1>4. Git!OnlyTheChosenChanges'
  BY DEF GitInv, Git!OnlyTheChosenChanges, Git!Allowed, EndsFailed, SameRun, SameReads
<1>5. Git!ReportsAreTrue'
  BY DEF Git!ReportsAreTrue, EndsFailed
<1> QED
  BY <1>1, <1>2, <1>3, <1>4, <1>5 DEF GitInv

(* A step that rewrites some places of some files, as the operation may. *)
LEMMA GoesKeeps ==
    ASSUME GitInv, NEW t, NEW ps \in SUBSET Paths, NEW places \in SUBSET Git!Places,
           NEW at \in GitLabels \cup {"ok"}, at # "ended",
           Rewrites(t, ps, places), "head" \notin places, ps \X places \subseteq Git!Allowed',
           Git!Allowed \subseteq Git!Allowed', GoesOn(t, at), branch' = branch, RunFits',
           Progress', at = "ok" => Git!ReportsAreTrue'
    PROVE  GitInv'
<1>1. GitTypes'
  BY DEF GitInv, GitTypes, GoesOn, SameRun, Rewrites
<1>2. HeadsAreBorn'
  <2>1. \A p \in Paths : t[p]["head"] = tree[p]["head"]
    BY DEF Rewrites, Git!Places
  <2> QED
    BY <2>1 DEF GitInv, HeadsAreBorn, Git!Born, GoesOn, SameRun
<1>3. Git!OnlyTheChosenChanges'
  BY RewritesTouch DEF GitInv, Git!OnlyTheChosenChanges, GoesOn
<1>4. Git!ReportsAreTrue'
  <2>1. CASE at = "ok"
    BY <2>1
  <2>2. CASE at # "ok"
    BY <2>2 DEF Git!ReportsAreTrue, GoesOn, GitInv, RunFits
  <2> QED
    BY <2>1, <2>2
<1> QED
  BY <1>1, <1>2, <1>3, <1>4 DEF GitInv

LEMMA FitsStay ==
    ASSUME GitInv, run.at # "ended", SameRun, SameReads, NEW t, NEW at, GoesOn(t, at), at # "ended"
    PROVE  RunFits' /\ Git!Allowed' = Git!Allowed
BY DEF GitInv, RunFits, SameRun, SameReads, GoesOn, Git!Allowed

(* A call that rewrites what it may, or fails. *)
LEMMA CallKeeps ==
    ASSUME GitInv, run.at # "ended", NEW ps \in SUBSET Paths, NEW places \in SUBSET Git!Places,
           NEW at \in GitLabels \cup {"ok"}, at # "ended", NEW results,
           \A t \in results : Rewrites(t, ps, places),
           "head" \notin places, ps \X places \subseteq Git!Allowed, Git!Call(results, at),
           \A t \in results : GoesOn(t, at) /\ SameReads => Progress',
           \A t \in results : at = "ok" /\ GoesOn(t, at) /\ SameReads /\ branch' = branch => Git!ReportsAreTrue'
    PROVE  GitInv'
<1>1. CASE Git!Failed /\ (UNCHANGED spent \/ Git!Used("failures"))
  BY <1>1, FailedIs, FailsKeeps DEF GitInv
<1>2. CASE \E t \in results : Git!Goes(Git!Then(at), t, branch) /\ UNCHANGED spent
  <2>1. PICK t \in results : Git!Goes(Git!Then(at), t, branch) /\ UNCHANGED spent
    BY <1>2
  <2>2. Git!TouchedBy(t) \subseteq Paths \X Git!Places
    BY RewritesTouch
  <2>3. GoesOn(t, at) /\ SameReads /\ branch' = branch
    BY <2>1, <2>2, GoesIs DEF GitInv
  <2>4. RunFits' /\ Git!Allowed' = Git!Allowed
    BY <2>3, FitsStay DEF GoesOn
  <2>5. Progress' /\ (at = "ok" => Git!ReportsAreTrue')
    BY <2>3
  <2>6. Rewrites(t, ps, places)
    OBVIOUS
  <2> QED
    BY <2>3, <2>4, <2>5, <2>6, GoesKeeps
<1> QED
  BY <1>1, <1>2 DEF Git!Call

(* A step that only goes on. *)
LEMMA PassesKeeps ==
    ASSUME GitInv, run.at # "ended", NEW at \in GitLabels \cup {"ok"}, at # "ended",
           Git!Goes(Git!Then(at), tree, branch), UNCHANGED spent \/ Git!Used("failures"),
           GoesOn(tree, at) /\ SameReads => Progress',
           at = "ok" /\ GoesOn(tree, at) /\ SameReads /\ branch' = branch => Git!ReportsAreTrue'
    PROVE  GitInv'
<1>1. Rewrites(tree, {}, {}) /\ Git!TouchedBy(tree) = {}
  BY DEF Rewrites, GitInv, GitTypes, Git!TouchedBy
<1>2. GoesOn(tree, at) /\ SameReads /\ branch' = branch
  BY <1>1, GoesIs DEF GitInv
<1>3. RunFits' /\ Git!Allowed' = Git!Allowed
  BY <1>2, FitsStay DEF GoesOn
<1>4. {} \X {} \subseteq Git!Allowed' /\ {} \in SUBSET Paths /\ {} \in SUBSET Git!Places
  OBVIOUS
<1> QED
  BY <1>1, <1>2, <1>3, <1>4, GoesKeeps

(* An operation that ends well has nothing left to do. *)
LEMMA EndsInProgress ==
    ASSUME NEW t, GoesOn(t, "ok")
    PROVE  Progress'
BY DEF Progress, GoesOn

(* One that writes no more than the index. *)
LEMMA StageSomeKeeps ==
    ASSUME GitInv, Git!StageSome
    PROVE  GitInv'
<1>1. /\ run.kind \in {"Stage", "StageAll"} /\ run.at = "begin" /\ run \in Runs /\ GitTypes
      /\ run.kind = "StageAll" => run.paths = Paths
  BY DEF Git!StageSome, Git!Before, GitInv, GitTypes, RunFits
<1> DEFINE results == IF run.kind = "StageAll"
                      THEN Git!With([p \in Paths |-> [tree[p] EXCEPT !.index = tree[p].work]])
                      ELSE Git!Added(run.paths)
<1>2. Git!Call(results, "ok") /\ run.paths \in SUBSET Paths
  BY <1>1 DEF Git!StageSome, Runs
<1>3. \A t \in results : /\ Rewrites(t, run.paths, {"index"})
                         /\ \A p \in run.paths : t[p].index = t[p].work
  <2>1. CASE run.kind = "StageAll"
    BY <1>1, <2>1, AllStagedGives
  <2>2. CASE run.kind # "StageAll"
    BY <1>1, <1>2, <2>2, AddedGives
  <2> QED
    BY <2>1, <2>2
<1> HIDE DEF results
<1>4. run.paths \X {"index"} \subseteq Git!Allowed
  BY <1>1 DEF Git!Allowed
<1>5. {"index"} \in SUBSET Git!Places /\ "head" \notin {"index"}
  BY DEF Git!Places
<1>6. ASSUME NEW t \in results, GoesOn(t, "ok"), SameReads PROVE Git!ReportsAreTrue'
  BY <1>1, <1>3, <1>6 DEF Git!ReportsAreTrue, Git!Done, GoesOn, SameRun
<1> QED
  BY <1>1, <1>2, <1>3, <1>4, <1>5, <1>6, CallKeeps, EndsInProgress

LEMMA AskHeadKeeps ==
    ASSUME GitInv, Git!AskHead
    PROVE  GitInv'
<1>1. /\ run.kind \in {"Unstage", "UnstageAll"} /\ run.at = "begin" /\ run \in Runs /\ GitTypes
      /\ UNCHANGED <<tree, branch>> /\ Git!Born \in BOOLEAN
  BY DEF Git!AskHead, Git!Before, GitInv, GitTypes, Git!Born
<1>2. spent' \in GitBounds /\ spent'.script = spent.script
  BY <1>1, SpentStays DEF Git!AskHead, GitTypes
<1>3. /\ run' \in Runs /\ run'.kind = run.kind /\ run'.at = "unstage" /\ run'.paths = run.paths
      /\ run'.rows = run.rows /\ run'.names = run.names /\ run'.result = run.result
      /\ run'.disturbed = run.disturbed /\ run'.touched = run.touched
      /\ ~ run'.knows /\ ~ run'.misread => ~ Git!Born
  <2>1. CASE run' = [run EXCEPT !.at = "unstage", !.knows = Git!Born]
    BY <1>1, <2>1 DEF Runs, GitLabels
  <2>2. CASE run' = [run EXCEPT !.at = "unstage", !.knows = FALSE, !.misread = Git!Born]
    BY <1>1, <2>2 DEF Runs, GitLabels
  <2> QED
    BY <2>1, <2>2 DEF Git!AskHead
<1>4. GitTypes'
  BY <1>1, <1>2, <1>3 DEF GitTypes
<1>5. HeadsAreBorn' /\ Git!Born' = Git!Born
  BY <1>1, <1>2 DEF GitInv, HeadsAreBorn, Git!Born
<1>6. RunFits' /\ Progress'
  BY <1>1, <1>3, <1>5 DEF GitInv, RunFits, Progress
<1>7. Git!OnlyTheChosenChanges' /\ Git!ReportsAreTrue'
  BY <1>1, <1>3 DEF GitInv, RunFits, Git!OnlyTheChosenChanges, Git!Allowed, Git!ReportsAreTrue
<1> QED
  BY <1>4, <1>5, <1>6, <1>7 DEF GitInv

(* Without rows to show, no file is staged. *)
LEMMA NothingIsStaged ==
    ASSUME GitTypes, Git!Status = {}, NEW p \in Paths, tree[p].head = Git!Gone
    PROVE  tree[p].index = Git!Gone
<1> SUFFICES ASSUME tree[p].index # Git!Gone PROVE FALSE
  OBVIOUS
<1>1. ~ Git!RenamedAway(p)
  BY DEF Git!RenamedAway
<1>2. CASE tree[p].index = Git!Unmerged
  <2>1. Git!Row(p, "Conflict", FALSE) \in Git!Status
    BY <1>2 DEF Git!Status
  <2> QED
    BY <2>1
<1>3. CASE tree[p].index # Git!Unmerged
  <2>1. Git!Row(p, "Staged", FALSE) \in Git!Status
    BY <1>1, <1>3 DEF Git!Status
  <2> QED
    BY <2>1
<1> QED
  BY <1>2, <1>3

LEMMA UnstageSomeKeeps ==
    ASSUME GitInv, Git!UnstageSome
    PROVE  GitInv'
<1>1. /\ run.kind \in {"Unstage", "UnstageAll"} /\ run.at = "unstage" /\ run \in Runs /\ GitTypes
      /\ run.paths \in SUBSET Paths /\ (run.kind = "UnstageAll" => run.paths = Paths)
  BY DEF Git!UnstageSome, Git!Before, GitInv, GitTypes, RunFits, Runs
<1>2. ~ run.knows /\ ~ run.misread => \A p \in Paths : tree[p].head = Git!Gone
  BY <1>1 DEF GitInv, Progress, HeadsAreBorn
<1>3. run.paths \X {"index"} \subseteq Git!Allowed
  BY <1>1 DEF Git!Allowed
<1>4. {"index"} \in SUBSET Git!Places /\ "head" \notin {"index"}
  BY DEF Git!Places
<1>5. ASSUME NEW results, Git!Call(results, "ok"),
             \A t \in results : /\ Rewrites(t, run.paths, {"index"})
                                /\ ~ run.misread => \A p \in run.paths : t[p].index = t[p].head
      PROVE  GitInv'
  <2>1. ASSUME NEW t \in results, GoesOn(t, "ok"), SameReads PROVE Git!ReportsAreTrue'
    BY <1>1, <1>5, <2>1 DEF Git!ReportsAreTrue, Git!Done, GoesOn, SameRun, SameReads
  <2> QED
    BY <1>1, <1>3, <1>4, <1>5, <2>1, CallKeeps, EndsInProgress
<1>6. ASSUME NEW t \in Git!RemovedFromIndex(run.paths), ~ run.knows
      PROVE  /\ Rewrites(t, run.paths, {"index"})
             /\ ~ run.misread => \A p \in run.paths : t[p].index = t[p].head
  <2>1. Rewrites(t, run.paths, {"index"}) /\ \A p \in run.paths : t[p].index = Git!Gone
    BY <1>1, RemovedFromIndexGives
  <2>2. \A p \in run.paths : t[p]["head"] = tree[p]["head"]
    BY <1>1, <2>1 DEF Rewrites, Git!Places
  <2> QED
    BY <1>1, <1>2, <1>6, <2>1, <2>2
<1>7. CASE run.kind = "Unstage" /\ run.knows /\ Git!Call(Git!RestoredIndex(run.paths), "ok")
  BY <1>1, <1>5, <1>7, RestoredIndexGives
<1>8. CASE ~ run.knows /\ Git!Call(Git!RemovedFromIndex(run.paths), "ok")
  BY <1>5, <1>6, <1>8
<1>9. CASE run.kind = "UnstageAll" /\ run.knows
           /\ Git!Call(Git!With([p \in Paths |-> [tree[p] EXCEPT !.index = tree[p].head]]), "ok")
  BY <1>1, <1>5, <1>9, AllUnstagedGives
<1>10. CASE run.kind = "UnstageAll" /\ ~ run.knows /\ Git!Status = {} /\ Git!Used("failures")
            /\ Git!Goes(Git!Then("ok"), tree, branch)
  <2>1. ASSUME GoesOn(tree, "ok"), SameReads PROVE Git!ReportsAreTrue'
    <3>1. ~ run.misread => \A p \in run.paths : tree[p].index = tree[p].head
      BY <1>1, <1>2, <1>10, NothingIsStaged
    <3> QED
      BY <1>1, <2>1, <3>1 DEF Git!ReportsAreTrue, Git!Done, GoesOn, SameRun, SameReads
  <2> QED
    BY <1>1, <1>10, <2>1, PassesKeeps, EndsInProgress
<1> QED
  BY <1>1, <1>7, <1>8, <1>9, <1>10 DEF Git!UnstageSome

-----------------------------------------------------------------------------
(* Discarding and removing *)

LEMMA AreasFit ==
    ASSUME GitInv, NEW area
    PROVE  Git!OfArea(area) \subseteq run.paths /\ Git!Untracked \subseteq run.paths /\ run.paths \in SUBSET Paths
BY DEF GitInv, GitTypes, RunFits, Runs, Git!OfArea, Git!Untracked

LEMMA AreasStay ==
    ASSUME SameReads
    PROVE  (\A area : Git!OfArea(area)' = Git!OfArea(area)) /\ Git!Untracked' = Git!Untracked
BY DEF SameReads, Git!OfArea, Git!Untracked

(* One untracked file is deleted, and its rows are done with. *)
LEMMA DeletesOne ==
    ASSUME GitInv, run.at \in {"begin", "delete"}, run.kind \in {"Discard", "Remove"},
           NEW p \in Git!Untracked, NEW t \in Git!Deleted({p}),
           NEW rows \in SUBSET run.rows,
           \A r \in run.rows : r.path # p \/ (run.kind = "Discard" /\ r.area = "Staged") => r \in rows,
           Git!Goes([run EXCEPT !.rows = rows], t, branch), UNCHANGED spent,
           run'.rows = rows /\ GoesOn(t, run.at) => Progress'
    PROVE  GitInv'
<1> DEFINE next == [run EXCEPT !.rows = rows]
<1>1. run \in Runs /\ GitTypes /\ {p} \in SUBSET Paths /\ p \in run.paths
  BY AreasFit DEF GitInv, GitTypes
<1>2. Rewrites(t, {p}, {"work"}) /\ {"work"} \in SUBSET Git!Places /\ "head" \notin {"work"}
  BY <1>1, DeletedGives DEF Git!Places
<1>3. Git!TouchedBy(t) \subseteq Paths \X Git!Places
  BY <1>1, <1>2, RewritesTouch
<1>4. /\ next \in Runs /\ next.kind = run.kind /\ next.paths = run.paths /\ next.names = run.names
      /\ next.disturbed = run.disturbed /\ next.rows = rows /\ next.touched = run.touched
      /\ next.at = run.at /\ next.result = run.result
  BY <1>1 DEF Runs
<1>5. run' = [next EXCEPT !.touched = @ \cup Git!TouchedBy(t)] /\ tree' = t /\ branch' = branch
  BY DEF Git!Goes
<1> HIDE DEF next
<1>6. next.touched \cup Git!TouchedBy(t) \in SUBSET (Paths \X Git!Places)
  BY <1>3, <1>4 DEF Runs
<1>7. /\ run' \in Runs /\ run'.kind = run.kind /\ run'.paths = run.paths /\ run'.names = run.names
      /\ run'.disturbed = run.disturbed /\ run'.rows = rows
      /\ run'.touched = run.touched \cup Git!TouchedBy(t)
      /\ run'.at = run.at /\ run'.result = run.result
  BY <1>4, <1>5, <1>6 DEF Runs
<1>8. GoesOn(t, run.at)
  BY <1>1, <1>5, <1>7 DEF GoesOn, SameRun, GitTypes
<1>9. RunFits'
  BY <1>7 DEF GitInv, RunFits
<1>10. Git!Allowed \subseteq Git!Allowed' /\ {p} \X {"work"} \subseteq Git!Allowed'
  <2>1. CASE run.kind = "Discard"
    BY <1>1, <1>7, <2>1 DEF Git!Allowed
  <2>2. CASE run.kind = "Remove"
    BY <1>1, <1>7, <2>2 DEF Git!Allowed
  <2> QED
    BY <2>1, <2>2
<1> QED
  BY <1>1, <1>2, <1>5, <1>7, <1>8, <1>9, <1>10, GoesKeeps DEF GitLabels

LEMMA DeleteUntrackedKeeps ==
    ASSUME GitInv, Git!DeleteUntracked
    PROVE  GitInv'
<1>1. run.kind = "Discard" /\ run.at = "begin" /\ GitTypes
  BY DEF Git!DeleteUntracked, Git!Before, GitInv
<1>2. CASE Git!Failed /\ (UNCHANGED spent \/ Git!Used("failures"))
  BY <1>1, <1>2, FailedIs, FailsKeeps
<1>3. CASE Git!Untracked = {} /\ Git!Goes(Git!Then("worktree"), tree, branch) /\ UNCHANGED spent
  <2>1. ASSUME GoesOn(tree, "worktree"), SameReads PROVE Progress'
    BY <1>1, <1>3, <2>1, AreasStay DEF GitInv, Progress, GoesOn, SameRun
  <2> QED
    BY <1>1, <1>3, <2>1, PassesKeeps DEF GitLabels
<1>4. ASSUME NEW p \in Git!Untracked, NEW t \in Git!Deleted({p}),
             Git!Goes([run EXCEPT !.rows = {r \in @ : r.path # p \/ ~ r.untracked}], t, branch),
             UNCHANGED spent
      PROVE  GitInv'
  <2> DEFINE rows == {r \in run.rows : r.path # p \/ ~ r.untracked}
  <2>1. rows \in SUBSET run.rows
        /\ \A r \in run.rows : r.path # p \/ (run.kind = "Discard" /\ r.area = "Staged") => r \in rows
    BY DEF GitInv, RunFits
  <2>2. Rewrites(t, {p}, {"work"}) /\ t[p].work = Git!Gone
    <3>1. {p} \in SUBSET Paths
      BY AreasFit
    <3> QED
      BY <1>1, <3>1, DeletedGives
  <2>3. ASSUME run'.rows = rows, GoesOn(t, "begin") PROVE Progress'
    <3>1. /\ run'.kind = "Discard" /\ run'.at = "begin" /\ run'.paths = run.paths /\ tree' = t
          /\ run'.disturbed = run.disturbed
      BY <1>1, <2>3 DEF GoesOn, SameRun
    <3>2. ASSUME ~ run.disturbed, NEW q \in run.paths
          PROVE  \/ q \in (Git!Untracked \cup Git!OfArea("Unstaged") \cup Git!OfArea("Staged"))'
                 \/ t[q].work = Git!Gone
      <4>1. CASE q = p
        BY <2>2, <4>1
      <4>2. CASE q # p
        <5>1. \/ q \in Git!Untracked \cup Git!OfArea("Unstaged") \cup Git!OfArea("Staged")
              \/ tree[q].work = Git!Gone
          BY <1>1, <3>2 DEF GitInv, Progress
        <5>2. t[q]["work"] = tree[q]["work"]
          BY <2>2, <4>2, AreasFit DEF Rewrites, Git!Places
        <5>3. q \in Git!Untracked => q \in Git!Untracked'
          BY <2>3, <4>2 DEF Git!Untracked
        <5>4. \A area : q \in Git!OfArea(area) => q \in Git!OfArea(area)'
          BY <2>3, <4>2 DEF Git!OfArea
        <5> QED
          BY <5>1, <5>2, <5>3, <5>4
      <4> QED
        BY <4>1, <4>2
    <3> QED
      BY <3>1, <3>2 DEF Progress
  <2>4. Git!Goes([run EXCEPT !.rows = rows], t, branch)
    BY <1>4
  <2> HIDE DEF rows
  <2> QED
    BY <1>1, <1>4, <2>1, <2>3, <2>4, DeletesOne
<1> QED
  BY <1>2, <1>3, <1>4 DEF Git!DeleteUntracked

LEMMA DiscardWorktreeKeeps ==
    ASSUME GitInv, Git!DiscardWorktree
    PROVE  GitInv'
<1> DEFINE ps == Git!OfArea("Unstaged")
<1>1. /\ run.kind = "Discard" /\ run.at = "worktree" /\ GitTypes
      /\ Git!CallFor(ps, Git!RestoredWork(ps), "both")
  BY DEF Git!DiscardWorktree, Git!Before, GitInv
<1>2. CASE ps = {}
  <2>1. ASSUME GoesOn(tree, "both"), SameReads PROVE Progress'
    BY <1>1, <1>2, <2>1, AreasStay DEF GitInv, Progress, GoesOn, SameRun
  <2> QED
    BY <1>1, <1>2, <2>1, PassesKeeps DEF GitLabels, Git!CallFor
<1>3. CASE ps # {}
  <2>1. Git!Call(Git!RestoredWork(ps), "both")
    BY <1>1, <1>3 DEF Git!CallFor
  <2>2. ps \subseteq run.paths /\ ps \in SUBSET Paths /\ run.paths \in SUBSET Paths
    BY AreasFit
  <2>3. \A t \in Git!RestoredWork(ps) : Rewrites(t, ps, {"work"}) /\ \A p \in ps : t[p].work = t[p].index
    BY <1>1, <2>2, RestoredWorkGives
  <2>4. ps \X {"work"} \subseteq Git!Allowed /\ {"work"} \in SUBSET Git!Places /\ "head" \notin {"work"}
    BY <1>1, <2>2 DEF Git!Allowed, Git!Places
  <2>5. ASSUME NEW t \in Git!RestoredWork(ps), GoesOn(t, "both"), SameReads PROVE Progress'
    <3>1. /\ run'.kind = "Discard" /\ run'.at = "both" /\ run'.paths = run.paths /\ tree' = t
          /\ run'.disturbed = run.disturbed /\ Git!OfArea("Staged")' = Git!OfArea("Staged")
      BY <1>1, <2>5, AreasStay DEF GoesOn, SameRun
    <3>2. ASSUME ~ run.disturbed, NEW p \in run.paths
          PROVE  p \in Git!OfArea("Staged") \/ t[p].work \in {t[p].index, Git!Gone}
      <4>1. CASE p \in ps
        BY <2>3, <4>1
      <4>2. CASE p \notin ps
        <5>1. p \in Git!OfArea("Staged") \/ tree[p].work = Git!Gone
          BY <1>1, <3>2, <4>2 DEF GitInv, Progress
        <5>2. t[p]["work"] = tree[p]["work"]
          BY <2>2, <2>3, <4>2 DEF Rewrites, Git!Places
        <5> QED
          BY <5>1, <5>2
      <4> QED
        BY <4>1, <4>2
    <3> QED
      BY <3>1, <3>2 DEF Progress
  <2> HIDE DEF ps
  <2> DEFINE results == Git!RestoredWork(ps)
  <2>6. Git!Call(results, "both") /\ (\A t \in results : Rewrites(t, ps, {"work"}))
        /\ \A t \in results : GoesOn(t, "both") /\ SameReads => Progress'
    BY <2>1, <2>3, <2>5
  <2>7. "both" \in GitLabels \cup {"ok"} /\ "both" # "ended" /\ "both" # "ok" /\ run.at # "ended"
    BY <1>1 DEF GitLabels
  <2> HIDE DEF results
  <2> QED
    BY <2>2, <2>4, <2>6, <2>7, CallKeeps
<1> QED
  BY <1>2, <1>3

LEMMA DiscardStagedKeeps ==
    ASSUME GitInv, Git!DiscardStaged
    PROVE  GitInv'
<1> DEFINE ps == Git!OfArea("Staged")
<1>1. /\ run.kind = "Discard" /\ run.at = "both" /\ GitTypes
      /\ Git!CallFor(ps, Git!RestoredBoth(ps), "ok")
  BY DEF Git!DiscardStaged, Git!Before, GitInv
<1>2. \A r \in run.rows : r.area = "Staged" => r.path \in ps
  BY DEF GitInv, RunFits, Git!OfArea
<1>3. CASE ps = {}
  <2>1. ASSUME GoesOn(tree, "ok"), SameReads PROVE Git!ReportsAreTrue'
    BY <1>1, <1>2, <1>3, <2>1 DEF GitInv, Progress, GoesOn, SameRun, SameReads, Git!ReportsAreTrue, Git!Done
  <2> QED
    BY <1>1, <1>3, <2>1, PassesKeeps, EndsInProgress DEF Git!CallFor
<1>4. CASE ps # {}
  <2>1. Git!Call(Git!RestoredBoth(ps), "ok")
    BY <1>1, <1>4 DEF Git!CallFor
  <2>2. ps \subseteq run.paths /\ ps \in SUBSET Paths /\ run.paths \in SUBSET Paths
    BY AreasFit
  <2>3. \A t \in Git!RestoredBoth(ps) :
            /\ Rewrites(t, ps, {"index", "work"})
            /\ \A p \in ps : t[p].index = t[p].head /\ t[p].work = t[p].head
    BY <1>1, <2>2, RestoredBothGives
  <2>4. ps \X {"index", "work"} \subseteq Git!Allowed
    BY <1>1, <2>2 DEF Git!Allowed, Git!OfArea
  <2>5. {"index", "work"} \in SUBSET Git!Places /\ "head" \notin {"index", "work"}
    BY DEF Git!Places
  <2>6. ASSUME NEW t \in Git!RestoredBoth(ps), GoesOn(t, "ok"), SameReads PROVE Git!ReportsAreTrue'
    <3>1. /\ run'.kind = "Discard" /\ run'.paths = run.paths /\ tree' = t /\ run'.rows = run.rows
          /\ run'.disturbed = run.disturbed
      BY <1>1, <2>6 DEF GoesOn, SameRun, SameReads
    <3>2. ASSUME ~ run.disturbed, NEW p \in run.paths
          PROVE  t[p].work \in {t[p].index, Git!Gone}
      <4>1. CASE p \in ps
        BY <2>3, <4>1
      <4>2. CASE p \notin ps
        <5>1. tree[p].work \in {tree[p].index, Git!Gone}
          BY <1>1, <3>2, <4>2 DEF GitInv, Progress
        <5>2. t[p]["work"] = tree[p]["work"] /\ t[p]["index"] = tree[p]["index"]
          BY <2>2, <2>3, <4>2 DEF Rewrites, Git!Places
        <5> QED
          BY <5>1, <5>2
      <4> QED
        BY <4>1, <4>2
    <3> QED
      BY <1>2, <2>3, <3>1, <3>2 DEF Git!ReportsAreTrue, Git!Done
  <2> HIDE DEF ps
  <2> QED
    BY <1>1, <2>1, <2>2, <2>3, <2>4, <2>5, <2>6, CallKeeps, EndsInProgress
<1> QED
  BY <1>3, <1>4

LEMMA AskTrackedKeeps ==
    ASSUME GitInv, Git!AskTracked
    PROVE  GitInv'
<1>1. run.kind = "Remove" /\ run.at = "begin" /\ GitTypes /\ run \in Runs /\ run.paths \in SUBSET Paths
  BY DEF Git!AskTracked, Git!Before, GitInv, GitTypes, Runs
<1>2. CASE Git!Failed /\ Git!Used("failures")
  BY <1>1, <1>2, FailedIs, FailsKeeps
<1> DEFINE rows == {Git!Row(p, "Unstaged", tree[p].index = Git!Gone) : p \in run.paths}
<1>3. CASE /\ run' = [run EXCEPT !.at = "delete", !.rows = rows]
           /\ UNCHANGED <<tree, branch, spent>>
  <2>1. ASSUME NEW r \in rows
        PROVE  /\ r \in Rows /\ r.path \in run.paths /\ r.area = "Unstaged"
               /\ r.untracked <=> tree[r.path].index = Git!Gone
    <3>1. PICK p \in run.paths : r = Git!Row(p, "Unstaged", tree[p].index = Git!Gone)
      OBVIOUS
    <3>2. CASE tree[p].index = Git!Gone
      <4>1. r = [path |-> p, area |-> "Unstaged", untracked |-> TRUE]
        BY <3>1, <3>2 DEF Git!Row
      <4> QED
        BY <1>1, <3>2, <4>1 DEF Rows
    <3>3. CASE tree[p].index # Git!Gone
      <4>1. r = [path |-> p, area |-> "Unstaged", untracked |-> FALSE]
        BY <3>1, <3>3 DEF Git!Row
      <4> QED
        BY <1>1, <3>3, <4>1 DEF Rows
    <3> QED
      BY <3>2, <3>3
  <2>2. ASSUME NEW p \in run.paths PROVE \E r \in rows : r.path = p
    <3>1. Git!Row(p, "Unstaged", tree[p].index = Git!Gone) \in rows
      OBVIOUS
    <3>2. Git!Row(p, "Unstaged", tree[p].index = Git!Gone).path = p
      BY DEF Git!Row
    <3> HIDE DEF rows
    <3> QED
      BY <3>1, <3>2
  <2>3. \A r, q \in rows : r.path = q.path => r = q
    BY DEF Git!Row
  <2> HIDE DEF rows
  <2>4. rows \in SUBSET Rows
    BY <2>1
  <2>5. /\ run' \in Runs /\ run'.kind = "Remove" /\ run'.at = "delete" /\ run'.paths = run.paths
        /\ run'.rows = rows /\ run'.result = run.result /\ run'.touched = run.touched
        /\ run'.disturbed = run.disturbed
    BY <1>1, <1>3, <2>4 DEF Runs, GitLabels
  <2>6. GitTypes' /\ HeadsAreBorn'
    BY <1>1, <1>3, <2>5 DEF GitInv, GitTypes, HeadsAreBorn, Git!Born
  <2>7. RunFits'
    BY <1>1, <2>1, <2>3, <2>5 DEF GitInv, RunFits
  <2>8. \A p \in run.paths : \/ p \in Git!Untracked' /\ tree[p].index = Git!Gone
                             \/ p \in Git!OfArea("Unstaged")'
    BY <2>1, <2>2, <2>5 DEF Git!Untracked, Git!OfArea
  <2>9. Progress'
    BY <1>3, <2>5, <2>8 DEF Progress
  <2>10. Git!OnlyTheChosenChanges' /\ Git!ReportsAreTrue'
    BY <1>1, <2>5 DEF GitInv, RunFits, Git!OnlyTheChosenChanges, Git!Allowed, Git!ReportsAreTrue
  <2> QED
    BY <2>6, <2>7, <2>9, <2>10 DEF GitInv
<1> QED
  BY <1>2, <1>3 DEF Git!AskTracked

LEMMA RemoveUntrackedKeeps ==
    ASSUME GitInv, Git!RemoveUntracked
    PROVE  GitInv'
<1>1. run.kind = "Remove" /\ run.at = "delete" /\ GitTypes
  BY DEF Git!RemoveUntracked, Git!Before, GitInv
<1>2. CASE Git!Failed /\ (UNCHANGED spent \/ Git!Used("failures"))
  BY <1>1, <1>2, FailedIs, FailsKeeps
<1>3. CASE Git!Untracked = {} /\ Git!Goes(Git!Then("rm"), tree, branch) /\ UNCHANGED spent
  <2>1. ASSUME GoesOn(tree, "rm"), SameReads PROVE Progress'
    <3>1. /\ run'.kind = "Remove" /\ run'.at = "rm" /\ run'.paths = run.paths /\ tree' = tree
          /\ run'.disturbed = run.disturbed /\ Git!OfArea("Unstaged")' = Git!OfArea("Unstaged")
      BY <1>1, <2>1, AreasStay DEF GoesOn, SameRun
    <3> QED
      BY <1>1, <1>3, <3>1 DEF GitInv, Progress, Cleared
  <2> QED
    BY <1>1, <1>3, <2>1, PassesKeeps DEF GitLabels
<1>4. ASSUME NEW p \in Git!Untracked, NEW t \in Git!Deleted({p}),
             Git!Goes([run EXCEPT !.rows = {r \in @ : r.path # p}], t, branch), UNCHANGED spent
      PROVE  GitInv'
  <2> DEFINE rows == {r \in run.rows : r.path # p}
  <2>1. rows \in SUBSET run.rows
        /\ \A r \in run.rows : r.path # p \/ (run.kind = "Discard" /\ r.area = "Staged") => r \in rows
    BY <1>1
  <2>2. Rewrites(t, {p}, {"work"}) /\ t[p].work = Git!Gone
    <3>1. {p} \in SUBSET Paths
      BY AreasFit
    <3> QED
      BY <1>1, <3>1, DeletedGives
  <2>3. ASSUME run'.rows = rows, GoesOn(t, "delete") PROVE Progress'
    <3>1. /\ run'.kind = "Remove" /\ run'.at = "delete" /\ run'.paths = run.paths /\ tree' = t
          /\ run'.disturbed = run.disturbed
      BY <1>1, <2>3 DEF GoesOn, SameRun
    <3>2. ASSUME ~ run.disturbed, NEW q \in run.paths
          PROVE  \/ q \in Git!Untracked' /\ t[q].index = Git!Gone
                 \/ q \in Git!OfArea("Unstaged")'
                 \/ t[q].index = Git!Gone /\ t[q].work = Git!Gone
      <4>1. \/ q \in Git!Untracked /\ tree[q].index = Git!Gone
            \/ q \in Git!OfArea("Unstaged") \/ Cleared(q)
        BY <1>1, <3>2 DEF GitInv, Progress
      <4>2. t[q]["index"] = tree[q]["index"]
        BY <2>2, AreasFit DEF Rewrites, Git!Places
      <4>3. CASE q = p
        <5>1. p \notin Git!OfArea("Unstaged")
          BY <1>1 DEF GitInv, RunFits, Git!Untracked, Git!OfArea
        <5> QED
          BY <2>2, <4>1, <4>2, <4>3, <5>1 DEF Cleared
      <4>4. CASE q # p
        <5>1. t[q]["work"] = tree[q]["work"]
          BY <2>2, <4>4, AreasFit DEF Rewrites, Git!Places
        <5>2. q \in Git!Untracked => q \in Git!Untracked'
          BY <2>3, <4>4 DEF Git!Untracked
        <5>3. q \in Git!OfArea("Unstaged") => q \in Git!OfArea("Unstaged")'
          BY <2>3, <4>4 DEF Git!OfArea
        <5> QED
          BY <4>1, <4>2, <5>1, <5>2, <5>3 DEF Cleared
      <4> QED
        BY <4>3, <4>4
    <3> QED
      BY <3>1, <3>2 DEF Progress, Cleared
  <2>4. Git!Goes([run EXCEPT !.rows = rows], t, branch)
    BY <1>4
  <2> HIDE DEF rows
  <2> QED
    BY <1>1, <1>4, <2>1, <2>3, <2>4, DeletesOne
<1> QED
  BY <1>2, <1>3, <1>4 DEF Git!RemoveUntracked

LEMMA RemoveTrackedKeeps ==
    ASSUME GitInv, Git!RemoveTracked
    PROVE  GitInv'
<1> DEFINE ps == Git!OfArea("Unstaged")
<1>1. /\ run.kind = "Remove" /\ run.at = "rm" /\ GitTypes
      /\ Git!CallFor(ps, Git!Removed(ps), "ok")
  BY DEF Git!RemoveTracked, Git!Before, GitInv
<1>2. CASE ps = {}
  <2>1. ASSUME GoesOn(tree, "ok"), SameReads PROVE Git!ReportsAreTrue'
    BY <1>1, <1>2, <2>1 DEF GitInv, Progress, Cleared, GoesOn, SameRun, SameReads, Git!ReportsAreTrue, Git!Done
  <2> QED
    BY <1>1, <1>2, <2>1, PassesKeeps, EndsInProgress DEF Git!CallFor
<1>3. CASE ps # {}
  <2>1. Git!Call(Git!Removed(ps), "ok")
    BY <1>1, <1>3 DEF Git!CallFor
  <2>2. ps \subseteq run.paths /\ ps \in SUBSET Paths /\ run.paths \in SUBSET Paths
    BY AreasFit
  <2>3. \A t \in Git!Removed(ps) :
            /\ Rewrites(t, ps, {"index", "work"})
            /\ \A p \in ps : t[p].index = Git!Gone /\ t[p].work = Git!Gone
    BY <1>1, <2>2, RemovedGives
  <2>4. ps \X {"index", "work"} \subseteq Git!Allowed
    BY <1>1, <2>2 DEF Git!Allowed
  <2>5. {"index", "work"} \in SUBSET Git!Places /\ "head" \notin {"index", "work"}
    BY DEF Git!Places
  <2>6. ASSUME NEW t \in Git!Removed(ps), GoesOn(t, "ok"), SameReads PROVE Git!ReportsAreTrue'
    <3>1. /\ run'.kind = "Remove" /\ run'.paths = run.paths /\ tree' = t
          /\ run'.disturbed = run.disturbed
      BY <1>1, <2>6 DEF GoesOn, SameRun, SameReads
    <3>2. ASSUME ~ run.disturbed, NEW p \in run.paths
          PROVE  t[p].work = Git!Gone /\ t[p].index = Git!Gone
      <4>1. CASE p \in ps
        BY <2>3, <4>1
      <4>2. CASE p \notin ps
        <5>1. Cleared(p)
          BY <1>1, <3>2, <4>2 DEF GitInv, Progress
        <5>2. t[p]["work"] = tree[p]["work"] /\ t[p]["index"] = tree[p]["index"]
          BY <2>2, <2>3, <4>2 DEF Rewrites, Git!Places
        <5> QED
          BY <5>1, <5>2 DEF Cleared
      <4> QED
        BY <4>1, <4>2
    <3> QED
      BY <3>1, <3>2 DEF Git!ReportsAreTrue, Git!Done
  <2> HIDE DEF ps
  <2> QED
    BY <1>1, <2>1, <2>2, <2>3, <2>4, <2>5, <2>6, CallKeeps, EndsInProgress
<1> QED
  BY <1>2, <1>3
-----------------------------------------------------------------------------
(* Conflicts and commits *)

LEMMA TakeSideKeeps ==
    ASSUME GitInv, Git!TakeSide
    PROVE  GitInv'
<1> DEFINE side == IF run.kind = "Ours" THEN Git!Ours ELSE Git!Theirs
           results == Git!WithSide(run.paths, side)
<1>1. /\ run.kind \in {"Ours", "Theirs"} /\ run.at = "begin" /\ GitTypes /\ run.paths \in SUBSET Paths
      /\ Git!Call(results, "add") /\ side \in {Git!Ours, Git!Theirs}
  BY DEF Git!TakeSide, Git!Before, GitInv, GitTypes, Runs
<1>2. \A t \in results : Rewrites(t, run.paths, {"work"})
  BY <1>1, WithSideGives
<1>3. run.paths \X {"work"} \subseteq Git!Allowed /\ {"work"} \in SUBSET Git!Places /\ "head" \notin {"work"}
  BY <1>1 DEF Git!Allowed, Git!Places
<1>4. \A t \in results : GoesOn(t, "add") /\ SameReads => Progress'
  BY <1>1 DEF GoesOn, SameRun, Progress
<1>5. "add" \in GitLabels \cup {"ok"} /\ "add" # "ended" /\ "add" # "ok" /\ run.at # "ended"
  BY <1>1 DEF GitLabels
<1> HIDE DEF results
<1> QED
  BY <1>1, <1>2, <1>3, <1>4, <1>5, CallKeeps

LEMMA MarkResolvedKeeps ==
    ASSUME GitInv, Git!MarkResolved
    PROVE  GitInv'
<1> DEFINE results == Git!Added(run.paths)
<1>1. /\ run.kind \in {"Ours", "Theirs"} /\ run.at = "add" /\ GitTypes /\ run.paths \in SUBSET Paths
      /\ Git!Call(results, "ok")
  BY DEF Git!MarkResolved, Git!Before, GitInv, GitTypes, Runs
<1>2. \A t \in results : /\ Rewrites(t, run.paths, {"index"})
                         /\ \A p \in run.paths : t[p].index = t[p].work /\ t[p].index # Git!Unmerged
  BY <1>1, AddedGives
<1>3. run.paths \X {"index"} \subseteq Git!Allowed /\ {"index"} \in SUBSET Git!Places /\ "head" \notin {"index"}
  BY <1>1 DEF Git!Allowed, Git!Places
<1> HIDE DEF results
<1>4. ASSUME NEW t \in results, GoesOn(t, "ok"), SameReads PROVE Git!ReportsAreTrue'
  BY <1>1, <1>2, <1>4 DEF Git!ReportsAreTrue, Git!Done, GoesOn, SameRun
<1> QED
  BY <1>1, <1>2, <1>3, <1>4, CallKeeps, EndsInProgress

LEMMA CommitStagedKeeps ==
    ASSUME GitInv, Git!CommitStaged
    PROVE  GitInv'
<1>1. run.kind = "Commit" /\ run.at = "begin" /\ GitTypes
  BY DEF Git!CommitStaged, Git!Before, GitInv
<1>2. CASE Git!Failed /\ (UNCHANGED spent \/ Git!Used("failures"))
  BY <1>1, <1>2, FailedIs, FailsKeeps
<1>3. ASSUME NEW t \in Git!Committed, UNCHANGED spent,
             Git!Goes(Git!Then("ok"), t, [branch EXCEPT !.commits = @ + 1, !.ahead = @ + 1])
      PROVE  GitInv'
  <2> DEFINE b == [branch EXCEPT !.commits = @ + 1, !.ahead = @ + 1]
  <2>1. b \in Branches /\ b.current = branch.current /\ b.all = branch.all /\ b.commits > 0
    <3> DEFINE c == branch.commits + 1
               a == branch.ahead + 1
    <3>1. branch \in Branches /\ c \in Nat /\ c > 0 /\ a \in Nat
      BY <1>1 DEF GitTypes, Branches
    <3>2. b = [branch EXCEPT !.commits = c, !.ahead = a]
      OBVIOUS
    <3> HIDE DEF a, b, c
    <3> QED
      BY <3>1, <3>2 DEF Branches
  <2>2. Git!Goes(Git!Then("ok"), t, b)
    BY <1>3
  <2> HIDE DEF b
  <2>3. Rewrites(t, Paths, {"head"}) /\ Git!TouchedBy(t) \subseteq Paths \X {"head"}
    BY <1>1, CommittedGives, RewritesTouch
  <2>4. GoesOn(t, "ok") /\ SameReads /\ branch' = b
    BY <1>1, <1>3, <2>2, <2>3, GoesIs DEF Git!Places
  <2>5. RunFits' /\ Git!Allowed' = Git!Allowed
    BY <1>1, <2>4, FitsStay DEF GoesOn
  <2>6. GitTypes'
    BY <1>1, <2>1, <2>3, <2>4 DEF GitTypes, GoesOn, SameRun, Rewrites
  <2>7. HeadsAreBorn'
    BY <2>1, <2>4 DEF HeadsAreBorn, Git!Born
  <2>8. Progress'
    BY <2>4, EndsInProgress
  <2>9. Git!OnlyTheChosenChanges'
    BY <1>1, <2>3, <2>4, <2>5 DEF GitInv, Git!OnlyTheChosenChanges, Git!Allowed, GoesOn, SameRun
  <2>10. Git!ReportsAreTrue'
    BY <1>1, <2>4 DEF Git!ReportsAreTrue, Git!Done, GoesOn, SameRun
  <2> QED
    BY <2>5, <2>6, <2>7, <2>8, <2>9, <2>10 DEF GitInv
<1> QED
  BY <1>2, <1>3 DEF Git!CommitStaged
-----------------------------------------------------------------------------
(* Branches *)

(* What is called on branches leaves the files alone. *)
LEMMA BranchKeeps ==
    ASSUME GitInv, run.at # "ended", run.kind \notin {"Discard", "Remove"},
           NEW at \in {"ok", "status"}, NEW b \in Branches, b.current \in b.all,
           b.commits = branch.commits, Git!Goes(Git!Then(at), tree, b), UNCHANGED spent,
           at = "ok" => \/ run.kind \in {"Checkout", "CreateBranch", "RenameBranch", "DeleteBranch"}
                        \/ /\ run.kind \in {"Push", "Sync"}
                           /\ b.upstream /\ b.ahead = 0 /\ b.behind = 0
    PROVE  GitInv'
<1>1. Git!TouchedBy(tree) = {} /\ GitTypes
  BY DEF GitInv, Git!TouchedBy
<1>2. GoesOn(tree, at) /\ SameReads /\ branch' = b
  BY <1>1, GoesIs DEF GitLabels
<1>3. RunFits' /\ Git!Allowed' = Git!Allowed
  BY <1>2, FitsStay DEF GoesOn
<1>4. GitTypes'
  BY <1>1, <1>2 DEF GitTypes, GoesOn, SameRun
<1>5. HeadsAreBorn'
  BY <1>2 DEF GitInv, HeadsAreBorn, Git!Born, GoesOn, SameRun
<1>6. Progress'
  BY <1>2 DEF Progress, GoesOn, SameRun
<1>7. Git!OnlyTheChosenChanges'
  BY <1>1, <1>2, <1>3 DEF GitInv, Git!OnlyTheChosenChanges, GoesOn
<1>8. Git!ReportsAreTrue'
  <2>1. CASE at = "ok"
    BY <1>2, <2>1 DEF Git!ReportsAreTrue, Git!Done, GoesOn, SameRun
  <2>2. CASE at = "status"
    BY <1>2, <2>2 DEF GitInv, RunFits, Git!ReportsAreTrue, GoesOn, SameRun
  <2> QED
    BY <2>1, <2>2
<1> QED
  BY <1>3, <1>4, <1>5, <1>6, <1>7, <1>8 DEF GitInv

LEMMA PullKeeps ==
    ASSUME GitInv, Git!Pull
    PROVE  GitInv'
<1> DEFINE b == [branch EXCEPT !.behind = 0]
<1>1. run.kind = "Sync" /\ run.at = "begin" /\ GitTypes
  BY DEF Git!Pull, Git!Before, GitInv
<1>2. CASE Git!Failed /\ (UNCHANGED spent \/ Git!Used("failures"))
  BY <1>1, <1>2, FailedIs, FailsKeeps
<1>3. CASE Git!Goes(Git!Then("status"), tree, b) /\ UNCHANGED spent
  <2>1. b \in Branches /\ b.current \in b.all /\ b.commits = branch.commits
    BY <1>1 DEF GitTypes, Branches
  <2> HIDE DEF b
  <2> QED
    BY <1>1, <1>3, <2>1, BranchKeeps
<1> QED
  BY <1>2, <1>3 DEF Git!Pull, Git!CallOnBranch

LEMMA AskUpstreamKeeps ==
    ASSUME GitInv, Git!AskUpstream
    PROVE  GitInv'
<1>1. /\ run.kind \in {"Push", "Sync"} /\ run.at \in {"begin", "status"} /\ run \in Runs /\ GitTypes
      /\ branch.upstream \in BOOLEAN
  BY DEF Git!AskUpstream, Git!Before, GitInv, GitTypes, Branches
<1>2. CASE Git!Failed /\ Git!Used("failures")
  BY <1>1, <1>2, FailedIs, FailsKeeps
<1>3. CASE /\ run' = [run EXCEPT !.at = "push", !.knows = branch.upstream]
           /\ UNCHANGED <<tree, branch, spent>>
  <2>1. /\ run' \in Runs /\ run'.kind = run.kind /\ run'.at = "push" /\ run'.paths = run.paths
        /\ run'.rows = run.rows /\ run'.result = run.result /\ run'.touched = run.touched
        /\ run'.disturbed = run.disturbed
    BY <1>1, <1>3 DEF Runs, GitLabels
  <2>2. GitTypes' /\ HeadsAreBorn'
    BY <1>1, <1>3, <2>1 DEF GitInv, GitTypes, HeadsAreBorn, Git!Born
  <2>3. RunFits' /\ Progress'
    BY <1>1, <2>1 DEF GitInv, RunFits, Progress
  <2>4. Git!OnlyTheChosenChanges' /\ Git!ReportsAreTrue'
    BY <1>1, <2>1 DEF GitInv, RunFits, Git!OnlyTheChosenChanges, Git!Allowed, Git!ReportsAreTrue
  <2> QED
    BY <2>2, <2>3, <2>4 DEF GitInv
<1> QED
  BY <1>2, <1>3 DEF Git!AskUpstream, Git!Ask

LEMMA PushBranchKeeps ==
    ASSUME GitInv, Git!PushBranch
    PROVE  GitInv'
<1> DEFINE b == [branch EXCEPT !.ahead = 0, !.upstream = TRUE]
<1>1. run.kind \in {"Push", "Sync"} /\ run.at = "push" /\ GitTypes
  BY DEF Git!PushBranch, Git!Before, GitInv
<1>2. CASE Git!Failed /\ (UNCHANGED spent \/ Git!Used("failures"))
  BY <1>1, <1>2, FailedIs, FailsKeeps
<1>3. CASE branch.behind = 0 /\ Git!Goes(Git!Then("ok"), tree, b) /\ UNCHANGED spent
  <2>1. /\ b \in Branches /\ b.current \in b.all /\ b.commits = branch.commits
        /\ b.upstream /\ b.ahead = 0 /\ b.behind = 0
    BY <1>1, <1>3 DEF GitTypes, Branches
  <2> HIDE DEF b
  <2> QED
    BY <1>1, <1>3, <2>1, BranchKeeps
<1> QED
  BY <1>2, <1>3 DEF Git!PushBranch, Git!CallOnBranch

LEMMA ChangeBranchesKeeps ==
    ASSUME GitInv, Git!ChangeBranches
    PROVE  GitInv'
<1> DEFINE a == run.names[1]
           c == run.names[2]
<1>1. run.at # "ended" /\ GitTypes /\ branch \in Branches /\ branch.current \in branch.all
  BY DEF Git!ChangeBranches, Git!Before, GitInv, GitTypes
<1>2. CASE Git!Failed /\ (UNCHANGED spent \/ Git!Used("failures"))
  BY <1>1, <1>2, FailedIs, FailsKeeps
<1>3. ASSUME NEW b \in Branches, b.current \in b.all, b.commits = branch.commits,
             run.kind \in {"Checkout", "CreateBranch", "RenameBranch", "DeleteBranch"},
             Git!Goes(Git!Then("ok"), tree, b), UNCHANGED spent
      PROVE  GitInv'
  BY <1>1, <1>3, BranchKeeps
<1>4. CASE /\ run.kind = "Checkout" /\ a \in branch.all
           /\ Git!Goes(Git!Then("ok"), tree, [branch EXCEPT !.current = a]) /\ UNCHANGED spent
  <2> DEFINE b == [branch EXCEPT !.current = a]
  <2>1. b \in Branches /\ b.current \in b.all /\ b.commits = branch.commits
    BY <1>1, <1>4 DEF Branches
  <2> HIDE DEF b
  <2> QED
    BY <1>3, <1>4, <2>1 DEF b
<1>5. CASE /\ run.kind = "CreateBranch" /\ a \notin branch.all \cup {Git!Invalid}
           /\ Git!Goes(Git!Then("ok"), tree,
                       [branch EXCEPT !.all = @ \cup {a}, !.current = a, !.upstream = FALSE])
           /\ UNCHANGED spent
  <2> DEFINE all == branch.all \cup {a}
             b == [branch EXCEPT !.all = all, !.current = a, !.upstream = FALSE]
  <2>1. a \in Names /\ all \in SUBSET Names /\ a \in all
    BY <1>1, <1>5 DEF GitInv, RunFits, Branches
  <2>2. Git!Goes(Git!Then("ok"), tree, b)
    BY <1>5
  <2> HIDE DEF all
  <2>3. b \in Branches /\ b.current \in b.all /\ b.commits = branch.commits
    BY <1>1, <2>1 DEF Branches
  <2> HIDE DEF b
  <2> QED
    BY <1>3, <1>5, <2>2, <2>3
<1>6. CASE /\ run.kind = "RenameBranch" /\ a \in branch.all /\ c \notin branch.all \cup {Git!Invalid}
           /\ Git!Goes(Git!Then("ok"), tree,
                       [branch EXCEPT !.all = (@ \ {a}) \cup {c}, !.current = IF @ = a THEN c ELSE @])
           /\ UNCHANGED spent
  <2> DEFINE all == (branch.all \ {a}) \cup {c}
             current == IF branch.current = a THEN c ELSE branch.current
             b == [branch EXCEPT !.all = all, !.current = current]
  <2>1. all \in SUBSET Names /\ current \in all
    BY <1>1, <1>6 DEF GitInv, RunFits, Branches
  <2>2. Git!Goes(Git!Then("ok"), tree, b)
    BY <1>6
  <2> HIDE DEF all, current
  <2>3. b \in Branches /\ b.current \in b.all /\ b.commits = branch.commits
    BY <1>1, <2>1 DEF Branches
  <2> HIDE DEF b
  <2> QED
    BY <1>3, <1>6, <2>2, <2>3
<1>7. CASE /\ run.kind = "DeleteBranch" /\ a \in branch.all \ {branch.current}
           /\ Git!Goes(Git!Then("ok"), tree, [branch EXCEPT !.all = @ \ {a}])
           /\ UNCHANGED spent
  <2> DEFINE all == branch.all \ {a}
             b == [branch EXCEPT !.all = all]
  <2>1. all \in SUBSET Names /\ branch.current \in all
    BY <1>1, <1>7 DEF Branches
  <2>2. Git!Goes(Git!Then("ok"), tree, b)
    BY <1>7
  <2> HIDE DEF all
  <2>3. b \in Branches /\ b.current \in b.all /\ b.commits = branch.commits
    BY <1>1, <2>1 DEF Branches
  <2> HIDE DEF b
  <2> QED
    BY <1>3, <1>7, <2>2, <2>3
<1> QED
  BY <1>2, <1>4, <1>5, <1>6, <1>7 DEF Git!ChangeBranches, Git!Before, Git!CallOnBranch
-----------------------------------------------------------------------------
(* The user, and others *)

LEMMA StatusIs ==
    ASSUME GitTypes, NEW r \in Git!Status, r.area # "Conflict"
    PROVE  r \in Rows /\ (r.area = "Staged" => ~ r.untracked)
<1>1. CASE r \in {Git!Row(p, "Conflict", FALSE) : p \in {q \in Paths : tree[q].index = Git!Unmerged}}
  <2>1. PICK p : r = [path |-> p, area |-> "Conflict", untracked |-> FALSE]
    BY <1>1 DEF Git!Row
  <2> QED
    BY <2>1
<1>2. CASE r \in {Git!Row(p, "Staged", FALSE) :
                    p \in {q \in Paths : tree[q].index \notin {Git!Unmerged, tree[q].head}
                                         /\ ~ Git!RenamedAway(q)}}
  <2>1. PICK p \in Paths : r = [path |-> p, area |-> "Staged", untracked |-> FALSE]
    BY <1>2 DEF Git!Row
  <2> QED
    BY <2>1 DEF Rows
<1>3. CASE r \in {Git!Row(p, "Unstaged", FALSE) :
                    p \in {q \in Paths : tree[q].index \notin {Git!Gone, Git!Unmerged, tree[q].work}}}
  <2>1. PICK p \in Paths : r = [path |-> p, area |-> "Unstaged", untracked |-> FALSE]
    BY <1>3 DEF Git!Row
  <2> QED
    BY <2>1 DEF Rows
<1>4. CASE r \in {Git!Row(p, "Unstaged", TRUE) :
                    p \in {q \in Paths : tree[q].index = Git!Gone /\ tree[q].work # Git!Gone}}
  <2>1. PICK p \in Paths : r = [path |-> p, area |-> "Unstaged", untracked |-> TRUE]
    BY <1>4 DEF Git!Row
  <2> QED
    BY <2>1 DEF Rows
<1> QED
  BY <1>1, <1>2, <1>3, <1>4 DEF Git!Status

LEMMA GitStartKeeps ==
    ASSUME GitInv, NEW kind \in Kinds, NEW paths \in SUBSET Paths, NEW rows \in SUBSET Rows,
           NEW names \in NameLists, Git!Start(kind, paths, rows, names),
           kind \in {"StageAll", "UnstageAll"} => paths = Paths,
           \A r \in rows : r.path \in paths /\ (r.area = "Staged" => ~ r.untracked),
           kind = "Remove" => rows = {},
           kind = "Discard" => \A p \in paths : \E r \in rows : r.path = p,
           kind = "CreateBranch" => names[1] \in Names \cup {Git!Invalid},
           kind = "RenameBranch" => names[2] \in Names \cup {Git!Invalid}
    PROVE  GitInv'
<1>1. Git!NoRun \in Runs /\ GitTypes
  BY NamesAreLists DEF Git!NoRun, Runs, Kinds, GitLabels, GitInv
<1>2. spent' \in GitBounds /\ spent'.script = spent.script
  BY <1>1, SpentStays DEF Git!Start
<1>3. /\ run' = [Git!NoRun EXCEPT !.kind = kind, !.at = "begin", !.paths = paths, !.rows = rows,
                                  !.names = names]
      /\ UNCHANGED <<tree, branch>>
      /\ Git!NoRun.result = "none" /\ Git!NoRun.touched = {}
  BY DEF Git!Start, Git!NoRun
<1>4. /\ run' \in Runs /\ run'.kind = kind /\ run'.at = "begin" /\ run'.paths = paths
      /\ run'.rows = rows /\ run'.names = names /\ run'.result = "none" /\ run'.touched = {}
  BY <1>1, <1>3 DEF Runs, GitLabels
<1>5. GitTypes' /\ HeadsAreBorn'
  BY <1>1, <1>2, <1>3, <1>4 DEF GitInv, GitTypes, HeadsAreBorn, Git!Born
<1>6. RunFits'
  BY <1>4 DEF RunFits
<1>7. Progress'
  <2>1. ASSUME kind = "Discard", NEW p \in paths
        PROVE  p \in (Git!Untracked \cup Git!OfArea("Unstaged") \cup Git!OfArea("Staged"))'
    <3>1. PICK r \in rows : r.path = p
      BY <2>1
    <3>2. r.area \in {"Staged", "Unstaged"} /\ r.untracked \in BOOLEAN
      BY DEF Rows
    <3> QED
      BY <1>4, <3>1, <3>2 DEF Git!Untracked, Git!OfArea
  <2> QED
    BY <1>4, <2>1 DEF Progress
<1>8. Git!OnlyTheChosenChanges' /\ Git!ReportsAreTrue'
  BY <1>4 DEF Git!OnlyTheChosenChanges, Git!ReportsAreTrue
<1> QED
  BY <1>5, <1>6, <1>7, <1>8 DEF GitInv

LEMMA StartOneKeeps ==
    ASSUME GitInv, Git!StartOne
    PROVE  GitInv'
<1> DEFINE Asked == Names \cup {Git!Invalid}
<1>1. {} \in SUBSET Paths /\ {} \in SUBSET Rows /\ <<>> \in NameLists /\ Paths \in SUBSET Paths
  BY NamesAreLists
<1>2. ASSUME NEW ps \in SUBSET Paths, NEW k \in {"Stage", "Unstage", "Remove"},
             Git!Start(k, ps, {}, <<>>)
      PROVE  GitInv'
  BY <1>1, <1>2, GitStartKeeps DEF Kinds
<1>3. ASSUME NEW p \in Paths, NEW k \in {"Ours", "Theirs"}, Git!Start(k, {p}, {}, <<>>)
      PROVE  GitInv'
  <2>1. {p} \in SUBSET Paths
    OBVIOUS
  <2> QED
    BY <1>1, <1>3, <2>1, GitStartKeeps DEF Kinds
<1>4. ASSUME NEW rows \in SUBSET {r \in Git!Status : r.area # "Conflict"},
             Git!Start("Discard", {r.path : r \in rows}, rows, <<>>)
      PROVE  GitInv'
  <2> DEFINE ps == {r.path : r \in rows}
  <2>1. \A r \in rows : r \in Rows /\ (r.area = "Staged" => ~ r.untracked)
    BY StatusIs DEF GitInv
  <2>2. rows \in SUBSET Rows /\ ps \in SUBSET Paths
    BY <2>1 DEF Rows
  <2>3. (\A r \in rows : r.path \in ps) /\ \A p \in ps : \E r \in rows : r.path = p
    OBVIOUS
  <2>4. Git!Start("Discard", ps, rows, <<>>) /\ "Discard" \in Kinds
    BY <1>4 DEF Kinds
  <2> HIDE DEF ps
  <2> QED
    BY <1>1, <2>1, <2>2, <2>3, <2>4, GitStartKeeps
<1>5. ASSUME NEW k \in {"StageAll", "UnstageAll", "Commit", "Push", "Sync"},
             Git!Start(k, Paths, {}, <<>>)
      PROVE  GitInv'
  BY <1>1, <1>5, GitStartKeeps DEF Kinds
<1>6. ASSUME NEW a \in Asked, NEW k \in {"Checkout", "DeleteBranch", "CreateBranch"},
             Git!Start(k, {}, {}, <<a>>)
      PROVE  GitInv'
  <2>1. <<a>> \in NameLists /\ <<a>>[1] \in Asked
    BY NamesAreLists
  <2> QED
    BY <1>1, <1>6, <2>1, GitStartKeeps DEF Kinds
<1>7. ASSUME NEW a \in Asked, NEW b \in Asked, Git!Start("RenameBranch", {}, {}, <<a, b>>)
      PROVE  GitInv'
  <2>1. <<a, b>> \in NameLists /\ <<a, b>>[2] \in Asked
    BY NamesAreLists
  <2> QED
    BY <1>1, <1>7, <2>1, GitStartKeeps DEF Kinds
<1> QED
  BY <1>2, <1>3, <1>4, <1>5, <1>6, <1>7 DEF Git!StartOne

LEMMA ReportKeeps ==
    ASSUME GitInv, Git!Report
    PROVE  GitInv'
<1>1. Git!NoRun \in Runs
  BY NamesAreLists DEF Git!NoRun, Runs, Kinds, GitLabels
<1>2. run' = Git!NoRun /\ UNCHANGED <<tree, branch, spent>>
  BY DEF Git!Report
<1>3. GitTypes' /\ HeadsAreBorn'
  BY <1>1, <1>2 DEF GitInv, GitTypes, HeadsAreBorn, Git!Born
<1>4. RunFits' /\ Progress' /\ Git!OnlyTheChosenChanges' /\ Git!ReportsAreTrue'
  BY <1>2 DEF Git!NoRun, RunFits, Progress, Git!OnlyTheChosenChanges, Git!ReportsAreTrue
<1> QED
  BY <1>3, <1>4 DEF GitInv

LEMMA DisturbKeeps ==
    ASSUME GitInv, Git!Disturb
    PROVE  GitInv'
<1>1. GitTypes /\ run \in Runs /\ run' = [run EXCEPT !.disturbed = TRUE]
  BY DEF GitInv, GitTypes, Git!Disturb
<1>2. /\ run' \in Runs /\ run'.kind = run.kind /\ run'.at = run.at /\ run'.paths = run.paths
      /\ run'.rows = run.rows /\ run'.names = run.names /\ run'.knows = run.knows
      /\ run'.result = run.result /\ run'.touched = run.touched /\ run'.misread = run.misread
      /\ run'.disturbed
  BY <1>1 DEF Runs
<1>3. spent' \in GitBounds /\ spent'.script = spent.script
  BY <1>1, SpentStays DEF Git!Disturb
<1>4. /\ tree' \in [Paths -> Files]
      /\ \A p \in Paths : tree'[p].head = tree[p].head
  <2>1. CASE tree' = tree
    BY <1>1, <2>1 DEF GitTypes
  <2>2. ASSUME NEW p \in Paths, NEW v \in {Git!Gone, Git!Edited}, tree' = [tree EXCEPT ![p].work = v]
        PROVE  /\ tree' \in [Paths -> Files]
               /\ \A q \in Paths : tree'[q].head = tree[q].head
    BY <1>1, <2>2 DEF GitTypes, Files, Git!Gone, Git!Edited
  <2>3. ASSUME NEW p \in Paths, tree' = [tree EXCEPT ![p].index = tree[p].work]
        PROVE  /\ tree' \in [Paths -> Files]
               /\ \A q \in Paths : tree'[q].head = tree[q].head
    BY <1>1, <2>3 DEF GitTypes, Files
  <2> QED
    BY <2>1, <2>2, <2>3 DEF Git!Disturb
<1>5. /\ branch' \in Branches /\ branch'.current \in branch'.all /\ branch'.commits = branch.commits
  <2>1. CASE branch' = branch
    BY <1>1, <2>1 DEF GitTypes
  <2>2. CASE branch' = [branch EXCEPT !.behind = 1]
    BY <1>1, <2>2 DEF GitTypes, Branches
  <2> QED
    BY <2>1, <2>2 DEF Git!Disturb
<1>6. GitTypes' /\ HeadsAreBorn'
  BY <1>2, <1>3, <1>4, <1>5 DEF GitInv, GitTypes, HeadsAreBorn, Git!Born
<1>7. RunFits' /\ Progress'
  BY <1>2, <1>3, <1>5 DEF GitInv, RunFits, Progress, Git!Born
<1>8. Git!OnlyTheChosenChanges' /\ Git!ReportsAreTrue'
  BY <1>2 DEF GitInv, Git!OnlyTheChosenChanges, Git!Allowed, Git!ReportsAreTrue
<1> QED
  BY <1>6, <1>7, <1>8 DEF GitInv

LEMMA GitStep == GitInv /\ [Git!Next]_(Git!gitVars) => GitInv'
<1> SUFFICES ASSUME GitInv, [Git!Next]_(Git!gitVars) PROVE GitInv'
  OBVIOUS
<1>1. CASE UNCHANGED Git!gitVars
  <2>1. UNCHANGED <<tree, branch, run, spent>>
    BY <1>1 DEF Git!gitVars
  <2>2. GitTypes' /\ HeadsAreBorn' /\ RunFits'
    BY <2>1 DEF GitInv, GitTypes, HeadsAreBorn, Git!Born, RunFits
  <2>3. Progress'
    BY <2>1 DEF GitInv, Progress, Cleared, Git!Born, Git!Untracked, Git!OfArea
  <2>4. Git!OnlyTheChosenChanges' /\ Git!ReportsAreTrue'
    BY <2>1 DEF GitInv, Git!OnlyTheChosenChanges, Git!Allowed, Git!ReportsAreTrue, Git!Done
  <2> QED
    BY <2>2, <2>3, <2>4 DEF GitInv
<1> QED
  BY <1>1, StartOneKeeps, ReportKeeps, DisturbKeeps, StageSomeKeeps, AskHeadKeeps, UnstageSomeKeeps,
     DeleteUntrackedKeeps, DiscardWorktreeKeeps, DiscardStagedKeeps, AskTrackedKeeps,
     RemoveUntrackedKeeps, RemoveTrackedKeeps, TakeSideKeeps, MarkResolvedKeeps, CommitStagedKeeps,
     PullKeeps, AskUpstreamKeeps, PushBranchKeeps, ChangeBranchesKeeps DEF Git!Next

LEMMA GitIsTyped ==
    ASSUME GitInv
    PROVE  Git!TypeOK
BY DEF GitInv, GitTypes, Git!TypeOK, Files, Branches, Runs, GitLabels, Git!Gone, Git!Edited, Git!Unmerged

(* Whatever files and branches there are, whatever calls fail and whatever      *)
(* others do in between: an operation of operations.rs changes only what it was *)
(* asked to change, wherever it ends, and what it reports as done was done to   *)
(* every file, unless others changed something or has_head could not tell.      *)
THEOREM MutationsStayChosen ==
    ASSUME SoundStarts
    PROVE  Git!Spec => [](Git!TypeOK /\ Git!OnlyTheChosenChanges /\ Git!ReportsAreTrue)
<1>1. Git!Init => GitInv
  BY GitStart
<1>2. GitInv /\ [Git!Next]_(Git!gitVars) => GitInv'
  BY GitStep
<1>3. GitInv => Git!TypeOK /\ Git!OnlyTheChosenChanges /\ Git!ReportsAreTrue
  BY GitIsTyped DEF GitInv
<1> QED
  BY <1>1, <1>2, <1>3, PTL DEF Git!Spec
-----------------------------------------------------------------------------
(* The review of a pull request *)

SoundPages ==
    /\ PageSize \in Nat /\ MaxShown \in Nat /\ MaxComments \in Nat /\ MaxHead \in Nat
    /\ \A b \in ReviewBounds : b.threads \in Nat

Heads == 0 .. MaxHead + 1
Numbers == Nat \ {0}
Threads == [id : Numbers, resolved : BOOLEAN]
Pendings == [id : Numbers, commit : Heads]
Comments == [id : Nat, thread : Numbers, review : Nat, read : Heads, edited : BOOLEAN]
Verdicts == [id : Nat, commit : Heads, read : Heads]
Pulls ==
    [head : 0 .. MaxHead, pending : SUBSET Pendings, threads : SUBSET Threads,
     comments : SUBSET Comments, submitted : SUBSET Verdicts, next : Numbers]
Steps == {"idle", "read", "shown", "create", "change"}
Asks ==
    {"none", "Show", "AddThread", "Reply", "Submit", "Discard", "UpdateComment", "DeleteComment",
     "Resolve", "Unresolve"}
Seen == [id : Numbers, total : Nat, shown : Nat]
Acts ==
    [at : Steps, kind : Asks, target : Nat, head : Heads, pending : SUBSET Pendings, cursor : Nat,
     threads : SUBSET Seen, truncated : BOOLEAN, there : SUBSET Numbers, floor : Heads]

(* What is numbered has a number that was given; there is one pending review   *)
(* at most, and whatever was said is in a review that is there or published.   *)
PullIsSound(p) ==
    /\ p \in Pulls
    /\ IsFiniteSet(p.threads) /\ IsFiniteSet(p.comments)
    /\ \A t \in p.threads : t.id < p.next
    /\ \A c \in p.comments : c.review < p.next
    /\ \A q \in p.pending : q.id < p.next
    /\ \A q, o \in p.pending : q = o
    /\ \A r \in p.submitted : r.commit \in {r.read, Review!NoHead}
    /\ \A c \in p.comments, q \in p.pending :
          c.review = q.id => q.commit \in {c.read, Review!NoHead}
    /\ \A c \in p.comments :
          c.review \in {Review!NoReview} \cup Review!Ids(p.pending) \cup Review!Ids(p.submitted)

(* What a process has read agrees with the pull request: the head is not older *)
(* than its start, a review it knows has only lost its commit since, what is   *)
(* to be changed is of the head that was read, and of the threads that are     *)
(* still there those up to the cursor are read.                                *)
Fits(me, p) ==
    /\ me.at # "idle" => me.floor <= p.head
    /\ me.at # "idle" /\ me.head # Review!NoHead => me.head \in me.floor .. p.head
    /\ \A q \in me.pending : q.id < p.next
    /\ \A q \in me.pending, o \in p.pending : o.id = q.id => o.commit \in {q.commit, Review!NoHead}
    /\ me.at # "idle" => me.kind # "none"
    /\ me.at \in {"create", "change"} => me.kind # "Show"
    /\ me.at \in {"create", "change"} /\ me.kind # "Discard" => Review!Current(me)
    /\ IsFiniteSet(me.threads)
    /\ ~ me.truncated => \A t \in me.threads : t.shown = t.total
    /\ me.at = "read" => \A x \in me.there : x <= me.cursor => x \in Review!Ids(me.threads)
    /\ me.at = "shown" /\ ~ me.truncated => me.there \subseteq Review!Ids(me.threads)

ReviewInv ==
    /\ sessions \in [Sessions -> Acts]
    /\ PullIsSound(pull)
    /\ \A s \in Sessions : Fits(sessions[s], pull) /\ sessions[s].there \subseteq Review!Ids(pull.threads)

(* What may become of the pull request. *)
Follows(p) ==
    /\ pull.head <= p.head
    /\ pull.next <= p.next
    /\ \A q \in p.pending :
          \/ q.id >= pull.next
          \/ \E o \in pull.pending : o.id = q.id /\ q.commit \in {o.commit, Review!NoHead}
-----------------------------------------------------------------------------
LEMMA StillFits ==
    ASSUME SoundPages, NEW me \in Acts, NEW p, PullIsSound(pull), PullIsSound(p), Follows(p), Fits(me, pull)
    PROVE  Fits(me, p)
<1>1. /\ pull.head \in Nat /\ p.head \in Nat /\ pull.next \in Nat /\ p.next \in Nat
      /\ me.head \in Nat /\ me.floor \in Nat /\ pull.head <= p.head /\ pull.next <= p.next
  BY DEF PullIsSound, Pulls, Acts, Heads, Numbers, Follows, SoundPages
<1>2. me.at # "idle" => me.floor <= p.head
  BY <1>1 DEF Fits
<1>3. me.at # "idle" /\ me.head # Review!NoHead => me.head \in me.floor .. p.head
  BY <1>1 DEF Fits
<1>4. \A q \in me.pending : q \in Pendings /\ q.id \in Nat /\ q.id < pull.next
  BY DEF Acts, Pendings, Fits, Numbers
<1>5. \A q \in me.pending : q.id < p.next
  BY <1>1, <1>4
<1>6. ASSUME NEW q \in me.pending, NEW o \in p.pending, o.id = q.id
      PROVE  o.commit \in {q.commit, Review!NoHead}
  <2>1. ~ (o.id >= pull.next)
    BY <1>1, <1>4, <1>6
  <2>2. PICK w \in pull.pending : w.id = o.id /\ o.commit \in {w.commit, Review!NoHead}
    BY <2>1 DEF Follows
  <2>3. w.commit \in {q.commit, Review!NoHead}
    BY <1>6, <2>2 DEF Fits
  <2> QED
    BY <2>2, <2>3
<1> QED
  BY <1>2, <1>3, <1>5, <1>6 DEF Fits

(* Threads may be gone; those that were there all the while are fewer. *)
LEMMA NoticedKeeps ==
    ASSUME SoundPages, NEW next \in [Sessions -> Acts], NEW p, PullIsSound(p),
           \A s \in Sessions : Fits(next[s], p), pull' = p, sessions' = Review!Noticed(next, p)
    PROVE  ReviewInv'
<1>1. ASSUME NEW s \in Sessions
      PROVE  /\ sessions'[s] = [next[s] EXCEPT !.there = @ \cap Review!Ids(p.threads)]
             /\ sessions'[s] \in Acts
             /\ Fits(sessions'[s], p) /\ sessions'[s].there \subseteq Review!Ids(p.threads)
  <2> DEFINE me == next[s]
             now == [me EXCEPT !.there = @ \cap Review!Ids(p.threads)]
  <2>1. me \in Acts /\ Fits(me, p) /\ sessions'[s] = now
    BY DEF Review!Noticed
  <2> HIDE DEF me
  <2>2. /\ now \in Acts /\ now.at = me.at /\ now.kind = me.kind /\ now.target = me.target
        /\ now.head = me.head /\ now.pending = me.pending /\ now.cursor = me.cursor
        /\ now.threads = me.threads /\ now.truncated = me.truncated /\ now.floor = me.floor
        /\ now.there = me.there \cap Review!Ids(p.threads)
    BY <2>1 DEF Acts
  <2> HIDE DEF now
  <2>3. Fits(now, p)
    BY <2>1, <2>2 DEF Fits, Review!Current
  <2> QED
    BY <2>1, <2>2, <2>3 DEF me, now
<1>2. sessions' = [s \in Sessions |-> sessions'[s]]
  BY DEF Review!Noticed
<1>3. sessions' \in [Sessions -> Acts]
  BY <1>1, <1>2
<1> QED
  BY <1>1, <1>3 DEF ReviewInv

LEMMA StepKeeps ==
    ASSUME SoundPages, ReviewInv, NEW s \in Sessions, NEW me \in Acts, NEW p, PullIsSound(p), Follows(p),
           Fits(me, p), Review!Step(s, me, p)
    PROVE  ReviewInv'
<1> DEFINE next == [sessions EXCEPT ![s] = me]
<1>1. next \in [Sessions -> Acts]
  BY DEF ReviewInv
<1>2. ASSUME NEW r \in Sessions PROVE Fits(next[r], p)
  <2>1. CASE r = s
    BY <2>1 DEF ReviewInv
  <2>2. CASE r # s
    <3>1. next[r] = sessions[r] /\ sessions[r] \in Acts /\ Fits(sessions[r], pull) /\ PullIsSound(pull)
      BY <2>2 DEF ReviewInv
    <3> QED
      BY <3>1, StillFits
  <2> QED
    BY <2>1, <2>2
<1>3. pull' = p /\ sessions' = Review!Noticed(next, p)
  BY DEF Review!Step
<1> HIDE DEF next
<1> QED
  BY <1>1, <1>2, <1>3, NoticedKeeps

LEMMA OthersKeep ==
    ASSUME SoundPages, ReviewInv, NEW p, PullIsSound(p), Follows(p), Review!Others(p)
    PROVE  ReviewInv'
<1>1. \A r \in Sessions : Fits(sessions[r], p)
  BY StillFits DEF ReviewInv
<1> QED
  BY <1>1, NoticedKeeps DEF ReviewInv, Review!Others

LEMMA IdleFits ==
    ASSUME SoundPages, NEW p
    PROVE  Review!Idle \in Acts /\ Fits(Review!Idle, p)
BY FS_EmptySet DEF Review!Idle, Acts, Steps, Asks, Heads, SoundPages, Review!NoHead, Fits, Review!Current

LEMMA PullStays ==
    ASSUME SoundPages, ReviewInv
    PROVE  PullIsSound(pull) /\ Follows(pull)
BY DEF ReviewInv, Follows, PullIsSound, Pulls, SoundPages, Numbers

LEMMA AnswerKeeps ==
    ASSUME SoundPages, ReviewInv, NEW s \in Sessions, NEW results, Review!Call(s, results),
           \A r \in results : /\ r.me \in Acts /\ Fits(r.me, r.pull)
                              /\ PullIsSound(r.pull) /\ Follows(r.pull)
    PROVE  ReviewInv'
<1>1. ASSUME NEW r \in results, Review!Step(s, r.me, r.pull) PROVE ReviewInv'
  BY <1>1, StepKeeps
<1>2. CASE Review!Step(s, Review!Idle, pull)
  BY <1>2, IdleFits, PullStays, StepKeeps
<1>3. ASSUME NEW r \in results, Review!Step(s, Review!Idle, r.pull) PROVE ReviewInv'
  BY <1>3, IdleFits, StepKeeps
<1> QED
  BY <1>1, <1>2, <1>3 DEF Review!Call
-----------------------------------------------------------------------------
(* Changes *)

LEMMA CreatedFits ==
    ASSUME SoundPages, ReviewInv, NEW s \in Sessions, sessions[s].at = "create",
           NEW p \in Review!Created(sessions[s])
    PROVE  /\ PullIsSound(p) /\ Follows(p)
           /\ [sessions[s] EXCEPT !.at = "change", !.pending = p.pending] \in Acts
           /\ Fits([sessions[s] EXCEPT !.at = "change", !.pending = p.pending], p)
<1> DEFINE me == sessions[s]
           new == [id |-> pull.next, commit |-> me.head]
<1>1. me \in Acts /\ Fits(me, pull) /\ PullIsSound(pull) /\ me.at = "create"
  BY DEF ReviewInv
<1>2. pull.pending = {} /\ p = [pull EXCEPT !.pending = {new}, !.next = @ + 1]
  BY DEF Review!Created
<1> HIDE DEF me
<1>3. new \in Pendings /\ new.id = pull.next /\ new.commit = me.head /\ pull.next \in Numbers
  BY <1>1 DEF PullIsSound, Pulls, Pendings, Acts, Numbers
<1> HIDE DEF new
<1>4. /\ p \in Pulls /\ p.pending = {new} /\ p.next = pull.next + 1 /\ p.head = pull.head
      /\ p.threads = pull.threads /\ p.comments = pull.comments /\ p.submitted = pull.submitted
  <2>1. {new} \in SUBSET Pendings /\ pull.next + 1 \in Numbers /\ pull \in Pulls
    BY <1>1, <1>3 DEF PullIsSound, Numbers
  <2> QED
    BY <1>2, <2>1 DEF Pulls
<1>5. PullIsSound(p)
  <2>1. \A t \in p.threads : t.id < p.next
    BY <1>1, <1>3, <1>4 DEF PullIsSound, Pulls, Threads, Numbers
  <2>2. \A c \in p.comments : c.review < pull.next /\ c.review \in Nat
    BY <1>1, <1>4 DEF PullIsSound, Pulls, Comments
  <2>3. \A c \in p.comments : c.review < p.next /\ c.review # new.id
    BY <1>3, <1>4, <2>2 DEF Numbers
  <2>4. \A c \in p.comments :
            c.review \in {Review!NoReview} \cup Review!Ids(p.pending) \cup Review!Ids(p.submitted)
    BY <1>1, <1>2, <1>4 DEF PullIsSound, Review!Ids
  <2>5. new.id < p.next
    BY <1>3, <1>4 DEF Numbers
  <2> QED
    BY <1>1, <1>4, <2>1, <2>3, <2>4, <2>5 DEF PullIsSound
<1>6. Follows(p)
  BY <1>3, <1>4, <1>1 DEF Follows, PullIsSound, Pulls, SoundPages, Numbers
<1> DEFINE now == [me EXCEPT !.at = "change", !.pending = p.pending]
<1>7. /\ now \in Acts /\ now.at = "change" /\ now.pending = {new} /\ now.head = me.head
      /\ now.kind = me.kind /\ now.floor = me.floor /\ now.threads = me.threads
      /\ now.truncated = me.truncated /\ now.there = me.there
  BY <1>1, <1>3, <1>4 DEF Acts, Steps
<1> HIDE DEF now
<1>8. Fits(now, p)
  <2>1. /\ now.floor <= p.head
        /\ now.head # Review!NoHead => now.head \in now.floor .. p.head
    BY <1>1, <1>4, <1>7 DEF Fits
  <2>2. \A q \in now.pending : q.id < p.next
    BY <1>3, <1>4, <1>7 DEF Numbers
  <2>3. Review!Current(now)
    BY <1>3, <1>7 DEF Review!Current
  <2> QED
    BY <1>1, <1>4, <1>7, <2>1, <2>2, <2>3 DEF Fits
<1> QED
  BY <1>5, <1>6, <1>7, <1>8 DEF now, me

(* What is chosen is the one pending review, on the head that was read or gone. *)
LEMMA ChosenIsCurrent ==
    ASSUME SoundPages, ReviewInv, NEW s \in Sessions, sessions[s].at = "change",
           sessions[s].kind # "Discard", NEW q \in Review!Chosen(sessions[s])
    PROVE  /\ q \in pull.pending /\ q \in Pendings /\ pull.pending = {q}
           /\ q.commit \in {sessions[s].head, Review!NoHead}
<1>1. PICK w \in sessions[s].pending : w.id = q.id
  BY DEF Review!Chosen, Review!Ids
<1>2. q \in pull.pending /\ q \in Pendings /\ pull.pending = {q}
  BY DEF Review!Chosen, ReviewInv, PullIsSound, Pulls
<1>3. q.commit \in {w.commit, Review!NoHead}
  BY <1>1, <1>2 DEF ReviewInv, Fits
<1>4. w.commit = Review!NoHead \/ w.commit = sessions[s].head
  BY <1>1 DEF ReviewInv, Fits, Review!Current
<1> QED
  BY <1>2, <1>3, <1>4

LEMMA CommentFits ==
    ASSUME SoundPages, ReviewInv, NEW s \in Sessions, sessions[s].at = "change",
           sessions[s].kind # "Discard", NEW q \in Review!Chosen(sessions[s]),
           NEW n \in Nat, n > 0, NEW threads \in SUBSET Threads, IsFiniteSet(threads),
           NEW c \in Comments, c.review = q.id, c.read = sessions[s].head, NEW p \in Pulls,
           p.threads = threads, p.comments = pull.comments \cup {c}, p.next = pull.next + n,
           p.head = pull.head, p.pending = pull.pending, p.submitted = pull.submitted,
           \A t \in threads : t.id < pull.next + n
    PROVE  PullIsSound(p) /\ Follows(p)
<1>1. /\ q \in pull.pending /\ q \in Pendings /\ pull.pending = {q}
      /\ q.commit \in {sessions[s].head, Review!NoHead}
  BY ChosenIsCurrent
<1>2. sessions[s] \in Acts /\ PullIsSound(pull) /\ pull.next \in Numbers
  BY DEF ReviewInv, PullIsSound, Pulls
<1>5. PullIsSound(p)
  <2>1. IsFiniteSet(p.comments)
    <3>1. IsFiniteSet(pull.comments)
      BY <1>2 DEF PullIsSound
    <3>2. IsFiniteSet(pull.comments \cup {c})
      BY <3>1, FS_AddElement
    <3> QED
      BY <3>2
  <2>2. \A d \in p.comments : d.review < p.next
    <3>1. q.id < pull.next /\ q.id \in Nat
      BY <1>1, <1>2 DEF PullIsSound, Pendings, Numbers
    <3>2. \A d \in pull.comments : d.review < pull.next /\ d.review \in Nat
      BY <1>2 DEF PullIsSound, Pulls, Comments
    <3> QED
      BY <1>2, <3>1, <3>2 DEF Numbers
  <2>3. \A w \in p.pending : w.id < p.next
    <3>1. q.id < pull.next /\ q.id \in Nat
      BY <1>1, <1>2 DEF PullIsSound, Pendings, Numbers
    <3> QED
      BY <1>1, <1>2, <3>1 DEF Numbers
  <2>4. \A d \in p.comments, w \in p.pending : d.review = w.id => w.commit \in {d.read, Review!NoHead}
    BY <1>1, <1>2 DEF PullIsSound
  <2>5. \A d \in p.comments :
            d.review \in {Review!NoReview} \cup Review!Ids(p.pending) \cup Review!Ids(p.submitted)
    BY <1>1, <1>2 DEF PullIsSound, Review!Ids
  <2>6. \A t \in p.threads : t.id < p.next
    OBVIOUS
  <2>7. \A w, o \in p.pending : w = o
    BY <1>1
  <2>8. \A r \in p.submitted : r.commit \in {r.read, Review!NoHead}
    BY <1>2 DEF PullIsSound
  <2> QED
    BY <2>1, <2>2, <2>3, <2>4, <2>5, <2>6, <2>7, <2>8 DEF PullIsSound
<1>6. Follows(p)
  BY <1>2 DEF Follows, PullIsSound, Pulls, SoundPages, Numbers
<1> QED
  BY <1>5, <1>6

LEMMA AddedFits ==
    ASSUME SoundPages, ReviewInv, NEW s \in Sessions, sessions[s].at = "change",
           sessions[s].kind = "AddThread", NEW p \in Review!Added(sessions[s])
    PROVE  PullIsSound(p) /\ Follows(p)
<1> DEFINE new == [id |-> pull.next, resolved |-> FALSE]
           threads == pull.threads \cup {new}
<1>1. PICK q \in Review!Chosen(sessions[s]) :
          p = [pull EXCEPT !.threads = @ \cup {new},
                           !.comments = @ \cup {Review!Comment(sessions[s], pull.next + 1, pull.next, q)},
                           !.next = @ + 2]
  BY DEF Review!Added
<1>2. pull \in Pulls /\ PullIsSound(pull) /\ pull.next \in Numbers /\ pull.next + 1 \in Nat
  BY DEF ReviewInv, PullIsSound, Pulls, Numbers
<1>3. new \in Threads /\ new.id = pull.next
  BY <1>2 DEF Threads
<1> HIDE DEF new
<1>4. threads \in SUBSET Threads /\ IsFiniteSet(threads)
  BY <1>2, <1>3, FS_AddElement DEF PullIsSound, Pulls
<1>5. \A t \in threads : t.id < pull.next + 2
  BY <1>2, <1>3 DEF PullIsSound, Pulls, Threads, Numbers
<1> DEFINE c == Review!Comment(sessions[s], pull.next + 1, pull.next, q)
<1>6. c \in Comments /\ c.review = q.id /\ c.read = sessions[s].head
  BY <1>2, ChosenIsCurrent DEF Review!Comment, Comments, ReviewInv, Acts, Pendings, Numbers
<1>7. p = [pull EXCEPT !.threads = threads, !.comments = @ \cup {c}, !.next = @ + 2]
  BY <1>1, <1>2 DEF Pulls
<1> HIDE DEF threads, c
<1>8. /\ p \in Pulls /\ p.threads = threads /\ p.comments = pull.comments \cup {c}
      /\ p.next = pull.next + 2 /\ p.head = pull.head /\ p.pending = pull.pending
      /\ p.submitted = pull.submitted
  <2>1. pull.next + 2 \in Numbers /\ pull.comments \cup {c} \in SUBSET Comments
    BY <1>2, <1>6 DEF Pulls, Numbers
  <2> QED
    BY <1>2, <1>4, <1>7, <2>1 DEF Pulls
<1>9. sessions[s].kind # "Discard" /\ 2 \in Nat /\ 2 > 0
  OBVIOUS
<1> QED
  BY <1>4, <1>5, <1>6, <1>8, <1>9, CommentFits

LEMMA RepliedFits ==
    ASSUME SoundPages, ReviewInv, NEW s \in Sessions, sessions[s].at = "change",
           sessions[s].kind = "Reply", NEW p \in Review!Replied(sessions[s])
    PROVE  PullIsSound(p) /\ Follows(p)
<1>1. PICK q \in Review!Chosen(sessions[s]) :
          /\ sessions[s].target \in Review!Ids(pull.threads)
          /\ p = [pull EXCEPT !.comments = @ \cup {Review!Comment(sessions[s], pull.next, sessions[s].target, q)},
                              !.next = @ + 1]
  BY DEF Review!Replied
<1>2. pull \in Pulls /\ PullIsSound(pull) /\ pull.next \in Numbers /\ pull.next \in Nat
  BY DEF ReviewInv, PullIsSound, Pulls, Numbers
<1>3. sessions[s].target \in Numbers
  BY <1>1, <1>2 DEF Review!Ids, Pulls, Threads
<1>4. \A t \in pull.threads : t.id < pull.next + 1
  BY <1>2 DEF PullIsSound, Pulls, Threads, Numbers
<1> DEFINE c == Review!Comment(sessions[s], pull.next, sessions[s].target, q)
<1>5. c \in Comments /\ c.review = q.id /\ c.read = sessions[s].head
  BY <1>2, <1>3, ChosenIsCurrent DEF Review!Comment, Comments, ReviewInv, Acts, Pendings, Numbers
<1>8. p = [pull EXCEPT !.comments = @ \cup {c}, !.next = @ + 1]
  BY <1>1
<1> HIDE DEF c
<1>9. /\ p \in Pulls /\ p.threads = pull.threads /\ p.comments = pull.comments \cup {c}
      /\ p.next = pull.next + 1 /\ p.head = pull.head /\ p.pending = pull.pending
      /\ p.submitted = pull.submitted
  <2>1. pull.next + 1 \in Numbers /\ pull.comments \cup {c} \in SUBSET Comments
    BY <1>2, <1>5 DEF Pulls, Numbers
  <2> QED
    BY <1>2, <1>8, <2>1 DEF Pulls
<1>6. pull.threads \in SUBSET Threads /\ IsFiniteSet(pull.threads)
  BY <1>2 DEF PullIsSound, Pulls
<1>7. sessions[s].kind # "Discard" /\ 1 \in Nat /\ 1 > 0
  OBVIOUS
<1> QED
  BY <1>4, <1>5, <1>6, <1>7, <1>9, CommentFits

(* What takes comments and threads away, or changes them in place. *)
LEMMA FewerFit ==
    ASSUME SoundPages, ReviewInv, NEW p \in Pulls, IsFiniteSet(p.threads), IsFiniteSet(p.comments),
           \A t \in p.threads : \E u \in pull.threads : u.id = t.id,
           \A c \in p.comments : \E d \in pull.comments : d.review = c.review /\ d.read = c.read,
           p.next = pull.next, p.head = pull.head, p.submitted = pull.submitted,
           p.pending \subseteq pull.pending,
           \A c \in p.comments :
              c.review \in {Review!NoReview} \cup Review!Ids(p.pending) \cup Review!Ids(p.submitted)
    PROVE  PullIsSound(p) /\ Follows(p)
<1>1. PullIsSound(pull)
  BY DEF ReviewInv
<1>2. \A t \in p.threads : t.id < p.next
  BY <1>1 DEF PullIsSound
<1>3. \A c \in p.comments : c.review < p.next
  BY <1>1 DEF PullIsSound
<1>4. \A c \in p.comments, q \in p.pending : c.review = q.id => q.commit \in {c.read, Review!NoHead}
  <2> SUFFICES ASSUME NEW c \in p.comments, NEW q \in p.pending, c.review = q.id
               PROVE  q.commit \in {c.read, Review!NoHead}
    OBVIOUS
  <2>1. PICK d \in pull.comments : d.review = c.review /\ d.read = c.read
    OBVIOUS
  <2> QED
    BY <1>1, <2>1 DEF PullIsSound
<1>5. PullIsSound(p)
  BY <1>1, <1>2, <1>3, <1>4 DEF PullIsSound
<1>6. Follows(p)
  BY <1>1 DEF Follows, PullIsSound, Pulls, Numbers, SoundPages
<1> QED
  BY <1>5, <1>6

LEMMA SubmittedFits ==
    ASSUME SoundPages, ReviewInv, NEW s \in Sessions, sessions[s].at = "change",
           sessions[s].kind = "Submit", NEW p \in Review!Submitted(sessions[s])
    PROVE  PullIsSound(p) /\ Follows(p)
<1> DEFINE me == sessions[s]
<1>1. me \in Acts /\ PullIsSound(pull) /\ pull \in Pulls /\ pull.next \in Numbers
  BY DEF ReviewInv, PullIsSound, Pulls
<1>2. PICK q : /\ \/ q \in Review!Chosen(me)
                  \/ pull.pending = {} /\ q = [id |-> pull.next, commit |-> me.head]
               /\ p = [pull EXCEPT !.pending = {}, !.next = @ + 1,
                         !.submitted = @ \cup {[id |-> q.id, commit |-> q.commit, read |-> me.head]}]
  BY DEF Review!Submitted
<1>3. /\ q.id \in Nat /\ q.commit \in Heads /\ q.commit \in {me.head, Review!NoHead}
      /\ pull.pending \in {{}, {q}}
  BY <1>1, <1>2, ChosenIsCurrent DEF Acts, Numbers, Pendings
<1> DEFINE verdict == [id |-> q.id, commit |-> q.commit, read |-> me.head]
<1>4. /\ verdict \in Verdicts /\ verdict.id = q.id /\ verdict.commit \in {verdict.read, Review!NoHead}
  BY <1>1, <1>3 DEF Verdicts, Acts
<1>5. p = [pull EXCEPT !.pending = {}, !.next = @ + 1, !.submitted = @ \cup {verdict}]
  BY <1>2
<1> HIDE DEF me, verdict
<1>6. /\ p \in Pulls /\ p.pending = {} /\ p.next = pull.next + 1 /\ p.head = pull.head
      /\ p.threads = pull.threads /\ p.comments = pull.comments
      /\ p.submitted = pull.submitted \cup {verdict}
  <2>1. pull.next + 1 \in Numbers /\ pull.submitted \cup {verdict} \in SUBSET Verdicts
    BY <1>1, <1>4 DEF Pulls, Numbers
  <2> QED
    BY <1>1, <1>5, <2>1 DEF Pulls
<1>7. PullIsSound(p)
  <2>1. \A t \in p.threads : t.id < p.next
    BY <1>1, <1>6 DEF PullIsSound, Pulls, Threads, Numbers
  <2>2. \A c \in p.comments : c.review < p.next
    BY <1>1, <1>6 DEF PullIsSound, Pulls, Comments, Numbers
  <2>3. \A c \in p.comments :
            c.review \in {Review!NoReview} \cup Review!Ids(p.pending) \cup Review!Ids(p.submitted)
    <3>1. Review!Ids(pull.pending) \subseteq Review!Ids(p.submitted)
      BY <1>3, <1>4, <1>6 DEF Review!Ids
    <3>2. Review!Ids(pull.submitted) \subseteq Review!Ids(p.submitted)
      BY <1>6 DEF Review!Ids
    <3> QED
      BY <1>1, <1>6, <3>1, <3>2 DEF PullIsSound
  <2>4. \A r \in p.submitted : r.commit \in {r.read, Review!NoHead}
    BY <1>1, <1>4, <1>6 DEF PullIsSound
  <2> QED
    BY <1>1, <1>6, <2>1, <2>2, <2>3, <2>4 DEF PullIsSound
<1>8. Follows(p)
  BY <1>1, <1>6 DEF Follows, Pulls, Numbers, SoundPages
<1> QED
  BY <1>7, <1>8

LEMMA FewerComments ==
    ASSUME SoundPages, ReviewInv, NEW comments \in SUBSET pull.comments, NEW p,
           p = Review!WithComments(comments)
    PROVE  /\ p \in Pulls /\ p.comments = comments /\ p.threads \subseteq pull.threads
           /\ IsFiniteSet(p.comments) /\ IsFiniteSet(p.threads)
           /\ p.next = pull.next /\ p.head = pull.head /\ p.submitted = pull.submitted
           /\ p.pending = pull.pending
<1> DEFINE threads == {t \in pull.threads : \E c \in comments : c.thread = t.id}
<1>1. pull \in Pulls /\ IsFiniteSet(pull.threads) /\ IsFiniteSet(pull.comments)
  BY DEF ReviewInv, PullIsSound
<1>2. p = [pull EXCEPT !.comments = comments, !.threads = threads]
  BY <1>1 DEF Review!WithComments, Pulls
<1>3. threads \in SUBSET pull.threads
  OBVIOUS
<1> HIDE DEF threads
<1>4. IsFiniteSet(threads) /\ IsFiniteSet(comments)
  BY <1>1, <1>3, FS_Subset
<1>5. comments \in SUBSET Comments /\ threads \in SUBSET Threads
  BY <1>1, <1>3 DEF Pulls
<1> QED
  BY <1>1, <1>2, <1>3, <1>4, <1>5 DEF Pulls

LEMMA DiscardedFits ==
    ASSUME SoundPages, ReviewInv, NEW s \in Sessions, NEW p \in Review!Discarded(sessions[s])
    PROVE  PullIsSound(p) /\ Follows(p)
<1>1. PICK q \in Review!Chosen(sessions[s]) :
          p = [Review!WithComments({c \in pull.comments : c.review # q.id}) EXCEPT !.pending = {}]
  BY DEF Review!Discarded
<1> DEFINE comments == {c \in pull.comments : c.review # q.id}
           w == Review!WithComments(comments)
<1>2. PullIsSound(pull) /\ q \in pull.pending
  BY DEF Review!Chosen, ReviewInv
<1>3. comments \in SUBSET pull.comments
  OBVIOUS
<1>4. p = [w EXCEPT !.pending = {}]
  BY <1>1
<1>5. /\ w \in Pulls /\ w.comments = comments /\ w.threads \subseteq pull.threads
      /\ IsFiniteSet(w.comments) /\ IsFiniteSet(w.threads)
      /\ w.next = pull.next /\ w.head = pull.head /\ w.submitted = pull.submitted
  <2> HIDE DEF comments
  <2> QED
    BY <1>3, FewerComments
<1> HIDE DEF w
<1>6. /\ p \in Pulls /\ p.pending = {} /\ p.comments = w.comments /\ p.threads = w.threads
      /\ p.next = w.next /\ p.head = w.head /\ p.submitted = w.submitted
  BY <1>4, <1>5 DEF Pulls
<1>7. \A c \in p.comments :
          c.review \in {Review!NoReview} \cup Review!Ids(p.pending) \cup Review!Ids(p.submitted)
  BY <1>2, <1>5, <1>6 DEF PullIsSound, Review!Ids
<1>8. \A c \in p.comments : \E d \in pull.comments : d.review = c.review /\ d.read = c.read
  BY <1>5, <1>6
<1> QED
  BY <1>5, <1>6, <1>7, <1>8, FewerFit

LEMMA DeletedFits ==
    ASSUME SoundPages, ReviewInv, NEW s \in Sessions, NEW p \in Review!Deleted(sessions[s])
    PROVE  PullIsSound(p) /\ Follows(p)
<1>1. PICK c : p = Review!WithComments(pull.comments \ {c})
  BY DEF Review!Deleted
<1> DEFINE comments == pull.comments \ {c}
<1>2. /\ p \in Pulls /\ p.comments = comments /\ p.threads \subseteq pull.threads
      /\ IsFiniteSet(p.comments) /\ IsFiniteSet(p.threads)
      /\ p.next = pull.next /\ p.head = pull.head /\ p.submitted = pull.submitted
      /\ p.pending = pull.pending
  BY <1>1, FewerComments
<1>3. \A d \in p.comments :
          d.review \in {Review!NoReview} \cup Review!Ids(p.pending) \cup Review!Ids(p.submitted)
  BY <1>2 DEF ReviewInv, PullIsSound
<1>4. \A d \in p.comments : \E e \in pull.comments : d.review = e.review /\ d.read = e.read
  BY <1>2
<1> QED
  BY <1>2, <1>3, <1>4, FewerFit

LEMMA UpdatedFits ==
    ASSUME SoundPages, ReviewInv, NEW s \in Sessions, NEW p \in Review!Updated(sessions[s])
    PROVE  PullIsSound(p) /\ Follows(p)
<1>1. PICK c \in pull.comments :
          p = [pull EXCEPT !.comments = (@ \ {c}) \cup {[c EXCEPT !.edited = TRUE]}]
  BY DEF Review!Updated
<1> DEFINE now == [c EXCEPT !.edited = TRUE]
           comments == (pull.comments \ {c}) \cup {now}
<1>2. pull \in Pulls /\ PullIsSound(pull) /\ c \in Comments
  BY DEF ReviewInv, PullIsSound, Pulls
<1>3. now \in Comments /\ now.review = c.review /\ now.read = c.read
  BY <1>2 DEF Comments
<1> HIDE DEF now
<1>4. IsFiniteSet(comments)
  <2>1. IsFiniteSet(pull.comments \ {c})
    BY <1>2, FS_RemoveElement DEF PullIsSound
  <2> QED
    BY <2>1, FS_AddElement
<1>5. comments \in SUBSET Comments
  BY <1>2, <1>3 DEF Pulls
<1>6. \A e \in comments : \E d \in pull.comments : d.review = e.review /\ d.read = e.read
  BY <1>3
<1>7. p = [pull EXCEPT !.comments = comments]
  BY <1>1, <1>2 DEF Pulls, now
<1> HIDE DEF comments
<1>8. /\ p \in Pulls /\ p.comments = comments /\ p.threads = pull.threads /\ p.next = pull.next
      /\ p.head = pull.head /\ p.submitted = pull.submitted /\ p.pending = pull.pending
  BY <1>2, <1>5, <1>7 DEF Pulls
<1>9. \A e \in p.comments :
          e.review \in {Review!NoReview} \cup Review!Ids(p.pending) \cup Review!Ids(p.submitted)
  BY <1>2, <1>6, <1>8 DEF PullIsSound
<1>10. IsFiniteSet(p.threads) /\ IsFiniteSet(p.comments)
  BY <1>2, <1>4, <1>8 DEF PullIsSound
<1> QED
  BY <1>6, <1>8, <1>9, <1>10, FewerFit

LEMMA ResolvedFits ==
    ASSUME SoundPages, ReviewInv, NEW s \in Sessions, NEW b \in BOOLEAN,
           NEW p \in Review!Resolved(sessions[s], b)
    PROVE  PullIsSound(p) /\ Follows(p)
<1>1. PICK t \in pull.threads :
          p = [pull EXCEPT !.threads = (@ \ {t}) \cup {[t EXCEPT !.resolved = b]}]
  BY DEF Review!Resolved
<1> DEFINE now == [t EXCEPT !.resolved = b]
           threads == (pull.threads \ {t}) \cup {now}
<1>2. pull \in Pulls /\ PullIsSound(pull) /\ t \in Threads
  BY DEF ReviewInv, PullIsSound, Pulls
<1>3. now \in Threads /\ now.id = t.id
  BY <1>2 DEF Threads
<1> HIDE DEF now
<1>4. IsFiniteSet(threads)
  <2>1. IsFiniteSet(pull.threads \ {t})
    BY <1>2, FS_RemoveElement DEF PullIsSound
  <2> QED
    BY <2>1, FS_AddElement
<1>5. threads \in SUBSET Threads
  BY <1>2, <1>3 DEF Pulls
<1>6. \A e \in threads : \E d \in pull.threads : d.id = e.id
  BY <1>3
<1>7. p = [pull EXCEPT !.threads = threads]
  BY <1>1, <1>2 DEF Pulls, now
<1> HIDE DEF threads
<1>8. /\ p \in Pulls /\ p.comments = pull.comments /\ p.threads = threads /\ p.next = pull.next
      /\ p.head = pull.head /\ p.submitted = pull.submitted /\ p.pending = pull.pending
  BY <1>2, <1>5, <1>7 DEF Pulls
<1>9. /\ \A e \in p.comments :
            e.review \in {Review!NoReview} \cup Review!Ids(p.pending) \cup Review!Ids(p.submitted)
      /\ IsFiniteSet(p.threads) /\ IsFiniteSet(p.comments)
  BY <1>2, <1>4, <1>8 DEF PullIsSound
<1> QED
  BY <1>6, <1>8, <1>9, FewerFit

LEMMA ChangeKeeps ==
    ASSUME SoundPages, ReviewInv, NEW s \in Sessions, Review!Change(s)
    PROVE  ReviewInv'
<1> DEFINE me == sessions[s]
           results == {Review!Result(Review!Idle, p) : p \in Review!Changed(me)}
<1>1. me.at = "change" /\ Review!Call(s, results)
  BY DEF Review!Change, Review!At
<1>2. ASSUME NEW p \in Review!Changed(me) PROVE PullIsSound(p) /\ Follows(p)
  <2>1. me.kind \in Asks
    BY DEF ReviewInv, Acts
  <2>2. CASE me.kind = "AddThread"
    BY <1>1, <1>2, <2>2, AddedFits DEF Review!Changed
  <2>3. CASE me.kind = "Reply"
    BY <1>1, <1>2, <2>3, RepliedFits DEF Review!Changed
  <2>4. CASE me.kind = "Submit"
    BY <1>1, <1>2, <2>4, SubmittedFits DEF Review!Changed
  <2>5. CASE me.kind = "Discard"
    BY <1>1, <1>2, <2>5, DiscardedFits DEF Review!Changed
  <2>6. CASE me.kind = "UpdateComment"
    BY <1>1, <1>2, <2>6, UpdatedFits DEF Review!Changed
  <2>7. CASE me.kind = "DeleteComment"
    BY <1>1, <1>2, <2>7, DeletedFits DEF Review!Changed
  <2>8. CASE me.kind = "Resolve"
    BY <1>1, <1>2, <2>8, ResolvedFits DEF Review!Changed
  <2>9. CASE me.kind = "Unresolve"
    BY <1>1, <1>2, <2>9, ResolvedFits DEF Review!Changed
  <2> QED
    BY <1>1, <2>1, <2>2, <2>3, <2>4, <2>5, <2>6, <2>7, <2>8, <2>9 DEF Asks, ReviewInv, Fits
<1>3. \A r \in results : /\ r.me \in Acts /\ Fits(r.me, r.pull)
                         /\ PullIsSound(r.pull) /\ Follows(r.pull)
  BY <1>2, IdleFits DEF Review!Result
<1> HIDE DEF results
<1> QED
  BY <1>1, <1>3, AnswerKeeps

LEMMA CreateKeeps ==
    ASSUME SoundPages, ReviewInv, NEW s \in Sessions, Review!Create(s)
    PROVE  ReviewInv'
<1> DEFINE now(p) == [sessions[s] EXCEPT !.at = "change", !.pending = p.pending]
           results == {Review!Result(now(p), p) : p \in Review!Created(sessions[s])}
<1>1. sessions[s].at = "create" /\ Review!Call(s, results)
  BY DEF Review!Create, Review!At
<1>2. ASSUME NEW p \in Review!Created(sessions[s])
      PROVE  now(p) \in Acts /\ Fits(now(p), p) /\ PullIsSound(p) /\ Follows(p)
  BY <1>1, CreatedFits
<1> HIDE DEF now
<1>3. \A r \in results : /\ r.me \in Acts /\ Fits(r.me, r.pull)
                         /\ PullIsSound(r.pull) /\ Follows(r.pull)
  BY <1>2 DEF Review!Result
<1> HIDE DEF results
<1> QED
  BY <1>1, <1>3, AnswerKeeps
-----------------------------------------------------------------------------
(* Reading *)

LEMMA LeastOf ==
    ASSUME NEW T \in SUBSET Nat, T # {}
    PROVE  \E n \in T : \A m \in T : n <= m
<1>1. \E R : IsWellFoundedOn(R, Nat) /\ \A m, n \in Nat : m < n => <<m, n>> \in R
  <2>1. IsWellFoundedOn(OpToRel(<, Nat), Nat)
    BY NatLessThanWellFounded, Zenon
  <2>2. \A m, n \in Nat : m < n => <<m, n>> \in OpToRel(<, Nat)
    BY DEF OpToRel
  <2> QED
    BY <2>1, <2>2, Zenon
<1>2. PICK R : IsWellFoundedOn(R, Nat) /\ \A m, n \in Nat : m < n => <<m, n>> \in R
  BY <1>1
<1>3. IsWellFoundedOn(R, Nat) /\ T \subseteq Nat /\ T # {}
  BY <1>2
<1>4. PICK n \in T : \A m \in T : ~ (<<m, n>> \in R)
  BY ONLY <1>3, WFMin, Zenon
<1>5. \A m \in T : ~ (m < n)
  BY <1>2, <1>4
<1>6. \A m \in T : n <= m
  BY <1>3, <1>5
<1> QED
  BY <1>6

LEMMA GreatestOf ==
    ASSUME NEW T \in SUBSET Nat, T # {}, NEW bound \in Nat, \A m \in T : m <= bound
    PROVE  Review!Max(T) \in T /\ \A m \in T : m <= Review!Max(T)
<1> DEFINE above == {n \in Nat : \A m \in T : m <= n}
<1>1. above \in SUBSET Nat /\ bound \in above
  OBVIOUS
<1>2. PICK n \in above : \A m \in above : n <= m
  <2> HIDE DEF above
  <2> QED
    BY <1>1, LeastOf
<1>3. n \in T
  <2> SUFFICES ASSUME n \notin T PROVE FALSE
    OBVIOUS
  <2>1. n \in Nat /\ \A m \in T : m < n
    OBVIOUS
  <2>2. n > 0 /\ n - 1 \in Nat
    <3>1. PICK m \in T : m < n
      BY <2>1
    <3>2. m \in Nat /\ n \in Nat /\ 0 <= m
      BY <2>1
    <3> QED
      BY <3>1, <3>2
  <2>3. n - 1 \in above
    BY <2>1, <2>2
  <2> QED
    BY <1>2, <2>1, <2>3
<1>4. \E x \in T : \A y \in T : x >= y
  BY <1>3
<1>5. Review!Max(T) \in T /\ \A y \in T : Review!Max(T) >= y
  BY <1>4 DEF Review!Max
<1> QED
  BY <1>5

LEMMA LesserOf ==
    ASSUME NEW a \in Int, NEW b \in Int
    PROVE  Review!Min({a, b}) \in {a, b} /\ Review!Min({a, b}) <= a /\ Review!Min({a, b}) <= b
<1>1. \E x \in {a, b} : \A y \in {a, b} : x <= y
  OBVIOUS
<1>2. Review!Min({a, b}) \in {a, b} /\ \A y \in {a, b} : Review!Min({a, b}) <= y
  BY <1>1 DEF Review!Min
<1> QED
  BY <1>2

LEMMA Counts ==
    ASSUME NEW S
    PROVE  Review!Cardinality(S) = Cardinality(S)
BY DEF Review!Cardinality, Cardinality

(* A page has every thread below its last one that is still to be read. *)
LEMMA LowestAreBelow ==
    ASSUME NEW T \in SUBSET Threads, IsFiniteSet(T), NEW n \in Int, NEW a \in T, NEW b \in Review!Lowest(n, T),
           a.id <= b.id
    PROVE  a \in Review!Lowest(n, T)
<1> DEFINE below(x) == {y \in T : y.id < x.id}
<1>1. \A x \in T : below(x) \in SUBSET T /\ x.id \in Nat
  BY DEF Threads, Numbers
<1>2. b \in T /\ Cardinality(below(b)) < n
  BY Counts DEF Review!Lowest
<1>3. below(a) \in SUBSET below(b)
  BY <1>1, <1>2
<1>4. IsFiniteSet(below(b))
  BY <1>1, <1>2, FS_Subset
<1>5. IsFiniteSet(below(a)) /\ Cardinality(below(a)) <= Cardinality(below(b))
  BY <1>3, <1>4, FS_Subset
<1>6. Cardinality(below(a)) \in Nat /\ Cardinality(below(b)) \in Nat
  BY <1>4, <1>5, FS_CardinalityType
<1>7. Cardinality(below(a)) < n
  BY <1>2, <1>5, <1>6
<1> QED
  BY <1>7, Counts DEF Review!Lowest

(* A listed thread shows all of its comments, or says that it does not. *)
LEMMA ListedGives ==
    ASSUME SoundPages, ReviewInv, NEW t \in Numbers
    PROVE  LET l == Review!Listed(t)
           IN  l \in Seen /\ l.id = t /\ (~ (l.shown < l.total) => l.shown = l.total)
<1> DEFINE n == Review!Cardinality(Review!CommentsOf(t))
           shown == Review!Min({n, MaxComments})
<1>1. n \in Nat
  <2>1. IsFiniteSet(pull.comments) /\ Review!CommentsOf(t) \in SUBSET pull.comments
    BY DEF ReviewInv, PullIsSound, Review!CommentsOf
  <2> QED
    BY <2>1, FS_Subset, FS_CardinalityType, Counts
<1>2. shown \in {n, MaxComments} /\ shown <= n
  <2>1. n \in Int /\ MaxComments \in Int
    BY <1>1 DEF SoundPages
  <2> HIDE DEF n
  <2> QED
    BY <2>1, LesserOf
<1>3. Review!Listed(t) = [id |-> t, total |-> n, shown |-> shown]
  BY DEF Review!Listed
<1> HIDE DEF n, shown
<1> QED
  BY <1>1, <1>2, <1>3 DEF Seen, SoundPages

(* The page, and what the process then knows. *)
Rest(s) == {t \in pull.threads : t.id > Review!Opened(sessions[s]).cursor}
PageOf(s) ==
    Review!Lowest(Review!Min({PageSize, MaxShown - Review!Cardinality(Review!Opened(sessions[s]).threads)}),
                  Rest(s))
Reading(s) == Review!WithPage(Review!Opened(sessions[s]), PageOf(s))

LEMMA OpenedFits ==
    ASSUME SoundPages, ReviewInv, NEW s \in Sessions, sessions[s].at = "read"
    PROVE  LET me == Review!Opened(sessions[s])
           IN  /\ me \in Acts /\ Fits(me, pull) /\ me.at = "read"
               /\ me.there = sessions[s].there
<1> DEFINE was == sessions[s]
           me == Review!Opened(was)
<1>1. was \in Acts /\ Fits(was, pull) /\ was.at = "read" /\ PullIsSound(pull) /\ pull \in Pulls
  BY DEF ReviewInv, PullIsSound
<1>2. CASE was.head # Review!NoHead
  BY <1>1, <1>2 DEF Review!Opened
<1>3. CASE was.head = Review!NoHead
  <2>1. me = [was EXCEPT !.head = pull.head, !.pending = pull.pending]
    BY <1>3 DEF Review!Opened
  <2>2. pull.head \in Heads /\ pull.head \in Nat /\ pull.pending \in SUBSET Pendings
    BY <1>1 DEF Pulls, Heads, SoundPages
  <2> HIDE DEF was, me
  <2>3. /\ me \in Acts /\ me.head = pull.head /\ me.pending = pull.pending /\ me.at = was.at
        /\ me.kind = was.kind /\ me.cursor = was.cursor /\ me.threads = was.threads
        /\ me.truncated = was.truncated /\ me.there = was.there /\ me.floor = was.floor
    BY <1>1, <2>1, <2>2 DEF Acts
  <2>4. me.floor \in Nat /\ me.floor <= pull.head
    BY <1>1, <2>3 DEF Acts, Heads, Fits, SoundPages
  <2>5. \A q \in me.pending, o \in pull.pending : o.id = q.id => o.commit \in {q.commit, Review!NoHead}
    BY <1>1, <2>3 DEF PullIsSound
  <2>6. \A q \in me.pending : q.id < pull.next
    BY <1>1, <2>3 DEF PullIsSound
  <2> QED
    BY <1>1, <2>2, <2>3, <2>4, <2>5, <2>6 DEF Fits, was, me
<1> QED
  BY <1>2, <1>3

LEMMA ReadingFits ==
    ASSUME SoundPages, ReviewInv, NEW s \in Sessions, sessions[s].at = "read"
    PROVE  /\ Reading(s) \in Acts /\ Fits(Reading(s), pull) /\ Reading(s).at = "read"
           /\ Reading(s).there = sessions[s].there
           /\ PageOf(s) = Rest(s) => Reading(s).there \subseteq Review!Ids(Reading(s).threads)
<1> DEFINE me == Review!Opened(sessions[s])
           next == Reading(s)
           page == PageOf(s)
           rest == Rest(s)
           n == Review!Min({PageSize, MaxShown - Review!Cardinality(me.threads)})
           listed == {Review!Listed(t.id) : t \in page}
           cut == me.truncated \/ \E t \in page : Review!Listed(t.id).shown < Review!Listed(t.id).total
           cursor == IF page = {} THEN me.cursor ELSE Review!Max(Review!Ids(page))
<1>1. /\ me \in Acts /\ Fits(me, pull) /\ me.at = "read" /\ me.there = sessions[s].there
      /\ me.there \subseteq Review!Ids(pull.threads)
  BY OpenedFits DEF ReviewInv
<1>2. pull \in Pulls /\ PullIsSound(pull) /\ IsFiniteSet(pull.threads)
  BY DEF ReviewInv, PullIsSound
<1>3. /\ rest \in SUBSET pull.threads /\ page \in SUBSET rest /\ page = Review!Lowest(n, rest)
      /\ rest = {t \in pull.threads : t.id > me.cursor}
  BY DEF Rest, PageOf, Review!Lowest
<1>4. next = [me EXCEPT !.threads = @ \cup listed, !.truncated = cut, !.cursor = cursor]
  BY <1>1 DEF Reading, Review!WithPage, Acts
<1>5. n \in Int
  <2>1. Cardinality(me.threads) \in Nat
    BY <1>1, FS_CardinalityType DEF Fits
  <2>2. PageSize \in Int /\ MaxShown - Review!Cardinality(me.threads) \in Int
    BY <2>1, Counts DEF SoundPages
  <2> HIDE DEF me
  <2> QED
    BY <2>2, LesserOf
<1> HIDE DEF me, next, page, rest, n
<1>6. /\ rest \in SUBSET Threads /\ IsFiniteSet(rest)
      /\ page \in SUBSET Threads /\ IsFiniteSet(page)
  BY <1>2, <1>3, FS_Subset DEF Pulls
<1>7. \A t \in page : /\ t.id \in Numbers /\ Review!Listed(t.id) \in Seen /\ Review!Listed(t.id).id = t.id
                      /\ ~ (Review!Listed(t.id).shown < Review!Listed(t.id).total) =>
                            Review!Listed(t.id).shown = Review!Listed(t.id).total
  BY <1>6, ListedGives DEF Threads
<1>8. listed \in SUBSET Seen /\ IsFiniteSet(listed)
  <2> DEFINE f == [t \in page |-> Review!Listed(t.id)]
  <2>1. f \in Surjection(page, listed)
    BY DEF Surjection
  <2>2. IsFiniteSet(listed)
    BY <1>6, <2>1, FS_Surjection, Zenon
  <2> QED
    BY <1>7, <2>2
<1>9. IsFiniteSet(me.threads \cup listed)
  BY <1>1, <1>8, FS_Union DEF Fits
<1>10. page # {} => \E b \in page : cursor = b.id /\ \A t \in page : t.id <= b.id
  <2> SUFFICES ASSUME page # {} PROVE \E b \in page : cursor = b.id /\ \A t \in page : t.id <= b.id
    OBVIOUS
  <2> DEFINE ids == Review!Ids(page)
  <2>1. ids \in SUBSET Nat /\ ids # {} /\ pull.next \in Nat /\ \A m \in ids : m <= pull.next
    BY <1>2, <1>3, <1>6 DEF Review!Ids, Threads, Numbers, PullIsSound, Pulls
  <2>2. cursor \in ids /\ \A m \in ids : m <= cursor
    <3> HIDE DEF ids
    <3>1. Review!Max(ids) \in ids /\ \A m \in ids : m <= Review!Max(ids)
      BY <2>1, GreatestOf
    <3> QED
      BY <3>1 DEF ids
  <2> QED
    BY <2>2 DEF Review!Ids
<1>11. cursor \in Nat
  BY <1>1, <1>7, <1>10 DEF Acts, Numbers
<1> HIDE DEF listed, cursor
<1>12. cut \in BOOLEAN
  BY <1>1 DEF Acts
<1> HIDE DEF cut
<1>13. /\ next \in Acts /\ next.threads = me.threads \cup listed /\ next.truncated = cut
       /\ next.cursor = cursor /\ next.at = me.at /\ next.kind = me.kind /\ next.head = me.head
       /\ next.pending = me.pending /\ next.there = me.there /\ next.floor = me.floor
  <2>1. me.threads \cup listed \in SUBSET Seen
    BY <1>1, <1>8 DEF Acts
  <2> QED
    BY <1>1, <1>4, <1>11, <1>12, <2>1 DEF Acts
<1>14. ~ next.truncated => \A t \in next.threads : t.shown = t.total
  <2> SUFFICES ASSUME ~ cut, NEW t \in next.threads PROVE t.shown = t.total
    BY <1>13
  <2>1. ~ me.truncated /\ \A u \in page : ~ (Review!Listed(u.id).shown < Review!Listed(u.id).total)
    BY <1>1 DEF cut, Acts
  <2>2. CASE t \in me.threads
    BY <1>1, <2>1, <2>2 DEF Fits
  <2>3. CASE t \in listed
    BY <1>7, <2>1, <2>3 DEF listed
  <2> QED
    BY <1>13, <2>2, <2>3
<1>15. /\ \A t \in page : t.id \in Review!Ids(next.threads)
       /\ Review!Ids(me.threads) \subseteq Review!Ids(next.threads)
  BY <1>7, <1>13 DEF listed, Review!Ids
<1>16. ASSUME NEW x \in next.there, x <= next.cursor
       PROVE  x \in Review!Ids(next.threads)
  <2>1. x \in me.there /\ x \in Nat /\ me.cursor \in Nat
    BY <1>1, <1>13 DEF Acts, Numbers
  <2>2. CASE x <= me.cursor
    BY <1>1, <1>15, <2>1, <2>2 DEF Fits
  <2>3. CASE ~ (x <= me.cursor)
    <3>1. PICK t \in pull.threads : t.id = x
      BY <1>1, <2>1 DEF Review!Ids
    <3>2. t \in rest
      BY <1>3, <2>1, <2>3, <3>1
    <3>3. page # {}
      BY <1>13, <1>16, <2>3 DEF cursor
    <3>4. PICK b \in page : cursor = b.id
      BY <1>10, <3>3
    <3>5. t.id <= b.id
      BY <1>13, <1>16, <3>1, <3>4
    <3>6. t \in page
      BY <1>3, <1>5, <1>6, <3>2, <3>4, <3>5, LowestAreBelow
    <3> QED
      BY <1>15, <3>1, <3>6
  <2> QED
    BY <2>2, <2>3
<1>17. ASSUME page = rest PROVE next.there \subseteq Review!Ids(next.threads)
  <2> SUFFICES ASSUME NEW x \in next.there PROVE x \in Review!Ids(next.threads)
    OBVIOUS
  <2>1. x \in me.there /\ x \in Nat /\ me.cursor \in Nat
    BY <1>1, <1>13 DEF Acts, Numbers
  <2>2. CASE x <= me.cursor
    BY <1>1, <1>15, <2>1, <2>2 DEF Fits
  <2>3. CASE ~ (x <= me.cursor)
    <3>1. PICK t \in pull.threads : t.id = x
      BY <1>1, <2>1 DEF Review!Ids
    <3>2. t \in page
      BY <1>3, <1>17, <2>1, <2>3, <3>1
    <3> QED
      BY <1>15, <3>1, <3>2
  <2> QED
    BY <2>2, <2>3
<1>18. Fits(next, pull)
  BY <1>1, <1>9, <1>13, <1>14, <1>16 DEF Fits
<1> QED
  BY <1>1, <1>13, <1>17, <1>18 DEF next, page, rest, me

(* What is read ends in a snapshot, in nothing, or in the change. *)
LEMMA ReadFits ==
    ASSUME SoundPages, ReviewInv, NEW me \in Acts, Fits(me, pull), me.at = "read",
           me.truncated \/ me.there \subseteq Review!Ids(me.threads)
    PROVE  Review!Read(me) \in Acts /\ Fits(Review!Read(me), pull)
<1>1. Review!Idle \in Acts /\ Fits(Review!Idle, pull)
  BY IdleFits
<1>2. ASSUME NEW label \in {"shown", "create", "change"}
      PROVE  LET now == [me EXCEPT !.at = label]
             IN  /\ now \in Acts /\ now.at = label /\ now.kind = me.kind /\ now.head = me.head
                 /\ now.pending = me.pending /\ now.cursor = me.cursor /\ now.threads = me.threads
                 /\ now.truncated = me.truncated /\ now.there = me.there /\ now.floor = me.floor
  BY DEF Acts, Steps
<1>3. CASE me.kind = "Show"
  <2> DEFINE now == [me EXCEPT !.at = "shown"]
  <2>1. Review!Read(me) = now
    BY <1>3 DEF Review!Read
  <2>2. now \in Acts /\ Fits(now, pull)
    BY <1>2 DEF Fits
  <2> QED
    BY <2>1, <2>2
<1>4. ASSUME me.kind # "Show", NEW label \in {"create", "change"},
             me.kind # "Discard" => Review!Current(me)
      PROVE  [me EXCEPT !.at = label] \in Acts /\ Fits([me EXCEPT !.at = label], pull)
  <2> DEFINE now == [me EXCEPT !.at = label]
  <2>1. /\ now \in Acts /\ now.at = label /\ now.kind = me.kind /\ now.head = me.head
        /\ now.pending = me.pending /\ now.cursor = me.cursor /\ now.threads = me.threads
        /\ now.truncated = me.truncated /\ now.there = me.there /\ now.floor = me.floor
    BY <1>2
  <2> HIDE DEF now
  <2>2. Fits(now, pull)
    BY <1>4, <2>1 DEF Fits, Review!Current
  <2> QED
    BY <2>1, <2>2 DEF now
<1>5. CASE me.kind = "Discard" /\ me.pending = {}
  BY <1>1, <1>5 DEF Review!Read
<1>6. CASE me.kind \notin {"Show", "Discard"} /\ ~ Review!Current(me)
  <2>1. me.pending # {}
    BY <1>6 DEF Review!Current
  <2> QED
    BY <1>1, <1>6, <2>1 DEF Review!Read
<1>7. CASE me.kind \in {"AddThread", "Reply"} /\ me.pending = {}
  <2>1. Review!Current(me)
    BY <1>7 DEF Review!Current
  <2>2. Review!Read(me) = [me EXCEPT !.at = "create"]
    BY <1>7, <2>1 DEF Review!Read
  <2> QED
    BY <1>4, <1>7, <2>1, <2>2
<1>8. CASE /\ me.kind # "Show" /\ ~ (me.kind = "Discard" /\ me.pending = {})
           /\ ~ (me.kind \notin {"Show", "Discard"} /\ ~ Review!Current(me))
           /\ ~ (me.kind \in {"AddThread", "Reply"} /\ me.pending = {})
  <2>1. Review!Read(me) = [me EXCEPT !.at = "change"]
    BY <1>8 DEF Review!Read
  <2> QED
    BY <1>4, <1>8, <2>1
<1> QED
  BY <1>3, <1>5, <1>6, <1>7, <1>8

LEMMA PageKeeps ==
    ASSUME SoundPages, ReviewInv, NEW s \in Sessions, Review!Page(s)
    PROVE  ReviewInv'
<1> DEFINE next == Reading(s)
           whole == [next EXCEPT !.truncated = TRUE]
<1>1. sessions[s].at = "read"
  BY DEF Review!Page, Review!At
<1>2. /\ next \in Acts /\ Fits(next, pull) /\ next.at = "read"
      /\ PageOf(s) = Rest(s) => next.there \subseteq Review!Ids(next.threads)
  BY <1>1, ReadingFits
<1>3. \/ Review!Step(s, Review!Read(whole), pull)
      \/ Review!Step(s, IF PageOf(s) = Rest(s) THEN Review!Read(next) ELSE next, pull)
  BY DEF Review!Page, Reading, PageOf, Rest
<1> HIDE DEF next
<1>4. /\ whole \in Acts /\ whole.at = "read" /\ whole.truncated
      /\ whole.kind = next.kind /\ whole.head = next.head
      /\ whole.pending = next.pending /\ whole.cursor = next.cursor /\ whole.threads = next.threads
      /\ whole.there = next.there /\ whole.floor = next.floor
  BY <1>2 DEF Acts
<1> HIDE DEF whole
<1>5. Fits(whole, pull)
  BY <1>2, <1>4 DEF Fits
<1>6. Review!Read(whole) \in Acts /\ Fits(Review!Read(whole), pull)
  BY <1>4, <1>5, ReadFits
<1>7. PageOf(s) = Rest(s) => Review!Read(next) \in Acts /\ Fits(Review!Read(next), pull)
  BY <1>2, ReadFits
<1> QED
  BY <1>2, <1>3, <1>6, <1>7, PullStays, StepKeeps

LEMMA ReviewStartKeeps ==
    ASSUME SoundPages, ReviewInv, NEW s \in Sessions, NEW kind \in Asks \ {"none"}, NEW target \in Nat,
           Review!Start(s, kind, target)
    PROVE  ReviewInv'
<1> DEFINE label == IF kind \in Review!Begins THEN "read" ELSE "change"
           me == [Review!Idle EXCEPT !.at = label, !.kind = kind, !.target = target,
                                     !.there = Review!Ids(pull.threads), !.floor = pull.head]
<1>1. Review!Step(s, me, pull)
  BY DEF Review!Start
<1>2. label \in {"read", "change"} /\ (label = "change" => kind # "Show")
  BY DEF Review!Begins
<1>3. /\ pull.head \in Heads /\ pull.head \in Nat
      /\ Review!Ids(pull.threads) \in SUBSET Numbers
  BY DEF ReviewInv, PullIsSound, Pulls, Heads, SoundPages, Review!Ids, Threads
<1>4. /\ Review!Idle \in Acts /\ Review!Idle.pending = {} /\ Review!Idle.threads = {}
      /\ Review!Idle.head = Review!NoHead /\ Review!Idle.cursor = 0 /\ ~ Review!Idle.truncated
  BY IdleFits DEF Review!Idle
<1> HIDE DEF label
<1>5. /\ me \in Acts /\ me.at = label /\ me.kind = kind /\ me.pending = {} /\ me.threads = {}
      /\ me.head = Review!NoHead /\ me.floor = pull.head /\ me.cursor = 0
      /\ me.there = Review!Ids(pull.threads) /\ ~ me.truncated
  BY <1>2, <1>3, <1>4 DEF Acts, Steps
<1> HIDE DEF me
<1>6. Fits(me, pull)
  <2>1. \A x \in me.there : ~ (x <= me.cursor)
    BY <1>3, <1>5 DEF Numbers
  <2>2. IsFiniteSet(me.threads)
    BY <1>5, FS_EmptySet
  <2> QED
    BY <1>2, <1>3, <1>5, <2>1, <2>2 DEF Fits, Review!Current
<1> QED
  BY <1>1, <1>5, <1>6, PullStays, StepKeeps

LEMMA CloseKeeps ==
    ASSUME SoundPages, ReviewInv, NEW s \in Sessions, Review!Close(s)
    PROVE  ReviewInv'
BY IdleFits, PullStays, StepKeeps DEF Review!Close

LEMMA PushKeeps ==
    ASSUME SoundPages, ReviewInv, Review!Push
    PROVE  ReviewInv'
<1>1. PICK lost \in BOOLEAN :
          Review!Others([pull EXCEPT !.head = @ + 1,
              !.pending = {[p EXCEPT !.commit = IF lost THEN Review!NoHead ELSE @] : p \in @}])
  BY DEF Review!Push
<1> DEFINE now(q) == [q EXCEPT !.commit = IF lost THEN Review!NoHead ELSE @]
           pending == {now(q) : q \in pull.pending}
           p == [pull EXCEPT !.head = @ + 1, !.pending = pending]
<1>2. PullIsSound(pull) /\ pull \in Pulls /\ pull.head < MaxHead
  BY DEF ReviewInv, PullIsSound, Review!Push
<1>3. Review!Others(p)
  BY <1>1, <1>2 DEF Pulls
<1>4. ASSUME NEW q \in pull.pending
      PROVE  now(q) \in Pendings /\ now(q).id = q.id /\ now(q).commit \in {q.commit, Review!NoHead}
  <2>1. q \in Pendings /\ Review!NoHead \in Heads
    BY <1>2 DEF Pulls, Review!NoHead, Heads, SoundPages
  <2> QED
    BY <2>1 DEF Pendings
<1>5. /\ pending \in SUBSET Pendings
      /\ \A w \in pending : \E q \in pull.pending :
            w = now(q) /\ w.id = q.id /\ w.commit \in {q.commit, Review!NoHead}
      /\ Review!Ids(pending) = Review!Ids(pull.pending)
  <2> HIDE DEF now
  <2> QED
    BY <1>4 DEF Review!Ids
<1> HIDE DEF now, pending
<1>6. /\ p \in Pulls /\ p.head = pull.head + 1 /\ p.pending = pending /\ p.threads = pull.threads
      /\ p.comments = pull.comments /\ p.submitted = pull.submitted /\ p.next = pull.next
  <2>1. pull.head + 1 \in 0 .. MaxHead
    BY <1>2 DEF Pulls, SoundPages
  <2> QED
    BY <1>2, <1>5, <2>1 DEF Pulls
<1> HIDE DEF p
<1>7. PullIsSound(p)
  <2>1. \A w \in p.pending : w.id < p.next
    BY <1>2, <1>5, <1>6 DEF PullIsSound
  <2>2. \A w, o \in p.pending : w = o
    BY <1>2, <1>5, <1>6 DEF PullIsSound
  <2>3. \A c \in p.comments, w \in p.pending : c.review = w.id => w.commit \in {c.read, Review!NoHead}
    BY <1>2, <1>5, <1>6 DEF PullIsSound
  <2> QED
    BY <1>2, <1>5, <1>6, <2>1, <2>2, <2>3 DEF PullIsSound
<1>8. Follows(p)
  BY <1>2, <1>5, <1>6 DEF Follows, Pulls, Numbers, SoundPages
<1> QED
  BY <1>3, <1>7, <1>8, OthersKeep

LEMMA OtherCommentsKeeps ==
    ASSUME SoundPages, ReviewInv, Review!OtherComments
    PROVE  ReviewInv'
<1>1. PICK t \in Review!Ids(pull.threads) \cup {pull.next} :
          Review!Others([pull EXCEPT
              !.threads = @ \cup (IF t = pull.next THEN {[id |-> t, resolved |-> FALSE]} ELSE {}),
              !.comments = @ \cup {[id |-> pull.next + 1, thread |-> t, review |-> Review!NoReview,
                                    read |-> Review!NoHead, edited |-> FALSE]},
              !.next = @ + 2])
  BY DEF Review!OtherComments
<1> DEFINE new == IF t = pull.next THEN {[id |-> t, resolved |-> FALSE]} ELSE {}
           c == [id |-> pull.next + 1, thread |-> t, review |-> Review!NoReview,
                 read |-> Review!NoHead, edited |-> FALSE]
           p == [pull EXCEPT !.threads = @ \cup new, !.comments = @ \cup {c}, !.next = @ + 2]
<1>2. PullIsSound(pull) /\ pull \in Pulls /\ pull.next \in Numbers
  BY DEF ReviewInv, PullIsSound, Pulls
<1>3. Review!Others(p)
  BY <1>1
<1>4. t \in Numbers /\ t <= pull.next
  BY <1>2 DEF Review!Ids, Pulls, PullIsSound, Threads, Numbers
<1>5. new \in SUBSET Threads /\ (\A u \in new : u.id = t) /\ IsFiniteSet(pull.threads \cup new)
  <2>1. CASE t = pull.next
    <3>1. [id |-> t, resolved |-> FALSE] \in Threads
      BY <1>4 DEF Threads
    <3>2. IsFiniteSet(pull.threads \cup {[id |-> t, resolved |-> FALSE]})
      BY <1>2, FS_AddElement DEF PullIsSound
    <3> QED
      BY <2>1, <3>1, <3>2
  <2>2. CASE t # pull.next
    BY <1>2, <2>2 DEF PullIsSound
  <2> QED
    BY <2>1, <2>2
<1>6. c \in Comments /\ c.review = Review!NoReview /\ c.read = Review!NoHead
  BY <1>2, <1>4 DEF Comments, Review!NoReview, Review!NoHead, Heads, SoundPages, Numbers
<1>7. IsFiniteSet(pull.comments \cup {c})
  BY <1>2, FS_AddElement DEF PullIsSound
<1> HIDE DEF new, c
<1>8. /\ p \in Pulls /\ p.head = pull.head /\ p.pending = pull.pending
      /\ p.threads = pull.threads \cup new /\ p.comments = pull.comments \cup {c}
      /\ p.submitted = pull.submitted /\ p.next = pull.next + 2
  <2>1. /\ pull.next + 2 \in Numbers /\ pull.comments \cup {c} \in SUBSET Comments
        /\ pull.threads \cup new \in SUBSET Threads
    BY <1>2, <1>5, <1>6 DEF Pulls, Numbers
  <2> QED
    BY <1>2, <2>1 DEF Pulls
<1> HIDE DEF p
<1>9. PullIsSound(p)
  <2>1. \A u \in p.threads : u.id < p.next
    <3>1. \A u \in pull.threads : u.id < pull.next /\ u.id \in Nat
      BY <1>2 DEF PullIsSound, Pulls, Threads, Numbers
    <3> QED
      BY <1>2, <1>4, <1>5, <1>8, <3>1 DEF Numbers
  <2>2. \A d \in p.comments : d.review < p.next
    <3>1. \A d \in pull.comments : d.review < pull.next /\ d.review \in Nat
      BY <1>2 DEF PullIsSound, Pulls, Comments
    <3> QED
      BY <1>2, <1>6, <1>8, <3>1 DEF Numbers, Review!NoReview
  <2>3. \A w \in p.pending : w.id < p.next
    BY <1>2, <1>8 DEF PullIsSound, Pulls, Pendings, Numbers
  <2>4. \A d \in p.comments, w \in p.pending : d.review = w.id => w.commit \in {d.read, Review!NoHead}
    <3>1. \A w \in p.pending : w.id # c.review
      BY <1>2, <1>6, <1>8 DEF Pulls, Pendings, Numbers, Review!NoReview
    <3> QED
      BY <1>2, <1>8, <3>1 DEF PullIsSound
  <2>5. \A d \in p.comments :
            d.review \in {Review!NoReview} \cup Review!Ids(p.pending) \cup Review!Ids(p.submitted)
    BY <1>2, <1>6, <1>8 DEF PullIsSound
  <2> QED
    BY <1>2, <1>5, <1>7, <1>8, <2>1, <2>2, <2>3, <2>4, <2>5 DEF PullIsSound
<1>10. Follows(p)
  BY <1>2, <1>8 DEF Follows, Pulls, Numbers, SoundPages
<1> QED
  BY <1>3, <1>9, <1>10, OthersKeep

LEMMA ReviewStart == SoundPages /\ Review!Init => ReviewInv
<1> SUFFICES ASSUME SoundPages, Review!Init PROVE ReviewInv
  OBVIOUS
<1>1. PICK b \in ReviewBounds :
          pull = [head |-> 0, pending |-> {},
                  threads |-> {[id |-> t, resolved |-> FALSE] : t \in 1 .. b.threads},
                  comments |-> {[id |-> b.threads + t, thread |-> t, review |-> Review!NoReview,
                                 read |-> Review!NoHead, edited |-> FALSE] : t \in 1 .. b.threads},
                  submitted |-> {}, next |-> 2 * b.threads + 1]
  BY DEF Review!Init
<1> DEFINE n == b.threads
           comment(t) == [id |-> n + t, thread |-> t, review |-> Review!NoReview,
                          read |-> Review!NoHead, edited |-> FALSE]
           thread(t) == [id |-> t, resolved |-> FALSE]
           threads == {thread(t) : t \in 1 .. n}
           comments == {comment(t) : t \in 1 .. n}
<1>2. n \in Nat /\ sessions = [s \in Sessions |-> Review!Idle]
  BY DEF Review!Init, SoundPages
<1>3. pull = [head |-> 0, pending |-> {}, threads |-> threads, comments |-> comments,
              submitted |-> {}, next |-> 2 * n + 1]
  BY <1>1
<1> HIDE DEF n
<1>4. IsFiniteSet(1 .. n)
  BY <1>2, FS_Interval
<1>5. threads \in SUBSET Threads /\ (\A t \in threads : t.id \in Nat /\ t.id <= n) /\ IsFiniteSet(threads)
  <2>1. \A t \in 1 .. n : thread(t) \in Threads /\ thread(t).id = t /\ t \in Nat /\ t <= n
    BY <1>2 DEF Threads, Numbers
  <2> DEFINE f == [t \in 1 .. n |-> thread(t)]
  <2> HIDE DEF thread
  <2>2. f \in Surjection(1 .. n, threads)
    BY DEF Surjection
  <2>3. \A t \in threads : t.id \in Nat /\ t.id <= n /\ t \in Threads
    BY <2>1
  <2> HIDE DEF f, threads
  <2>4. IsFiniteSet(threads)
    BY <1>4, <2>2, FS_Surjection, Zenon
  <2> QED
    BY <2>3, <2>4
<1>6. \A t \in 1 .. n : comment(t) \in Comments /\ comment(t).review = Review!NoReview
  BY <1>2 DEF Comments, Numbers, Heads, SoundPages, Review!NoReview, Review!NoHead
<1>7. comments \in SUBSET Comments /\ (\A c \in comments : c.review = 0) /\ IsFiniteSet(comments)
  <2> DEFINE f == [t \in 1 .. n |-> comment(t)]
  <2> HIDE DEF comment
  <2>1. f \in Surjection(1 .. n, comments)
    BY DEF Surjection
  <2>3. \A c \in comments : c \in Comments /\ c.review = Review!NoReview
    BY <1>6
  <2> HIDE DEF f, comments
  <2>2. IsFiniteSet(comments)
    BY <1>4, <2>1, FS_Surjection, Zenon
  <2> QED
    BY <2>2, <2>3 DEF Review!NoReview
<1> HIDE DEF threads, comments
<1>8. PullIsSound(pull)
  <2>1. /\ pull.head = 0 /\ pull.pending = {} /\ pull.threads = threads
        /\ pull.comments = comments /\ pull.submitted = {} /\ pull.next = 2 * n + 1
    BY <1>3
  <2>2. pull \in Pulls
    BY <1>2, <1>3, <1>5, <1>7 DEF Pulls, Numbers, SoundPages
  <2>3. \A t \in pull.threads : t.id < pull.next
    BY <1>2, <1>5, <2>1
  <2>4. \A c \in pull.comments : c.review < pull.next /\ c.review = Review!NoReview
    BY <1>2, <1>7, <2>1 DEF Review!NoReview
  <2> QED
    BY <1>5, <1>7, <2>1, <2>2, <2>3, <2>4 DEF PullIsSound
<1>9. \A s \in Sessions : Fits(sessions[s], pull) /\ sessions[s].there \subseteq Review!Ids(pull.threads)
  BY <1>2, IdleFits DEF Review!Idle
<1> QED
  BY <1>2, <1>8, <1>9, IdleFits DEF ReviewInv

LEMMA ReviewStep ==
    ASSUME SoundPages
    PROVE  ReviewInv /\ [Review!Next]_(Review!reviewVars) => ReviewInv'
<1> SUFFICES ASSUME ReviewInv, [Review!Next]_(Review!reviewVars) PROVE ReviewInv'
  OBVIOUS
<1>1. CASE UNCHANGED Review!reviewVars
  BY <1>1 DEF Review!reviewVars, ReviewInv, Fits, Review!Current
<1>2. ASSUME NEW s \in Sessions, NEW kind \in {"Show", "AddThread", "Submit", "Discard"},
             Review!Start(s, kind, 0)
      PROVE  ReviewInv'
  BY <1>2, ReviewStartKeeps DEF Asks
<1>3. ASSUME NEW s \in Sessions, NEW t \in Review!Ids(pull.threads),
             NEW kind \in {"Reply", "Resolve", "Unresolve"}, Review!Start(s, kind, t)
      PROVE  ReviewInv'
  <2>1. t \in Nat
    BY DEF ReviewInv, PullIsSound, Pulls, Threads, Numbers, Review!Ids
  <2> QED
    BY <1>3, <2>1, ReviewStartKeeps DEF Asks
<1>4. ASSUME NEW s \in Sessions, NEW c \in Review!Ids(pull.comments),
             NEW kind \in {"UpdateComment", "DeleteComment"}, Review!Start(s, kind, c)
      PROVE  ReviewInv'
  <2>1. c \in Nat
    BY DEF ReviewInv, PullIsSound, Pulls, Comments, Review!Ids
  <2> QED
    BY <1>4, <2>1, ReviewStartKeeps DEF Asks
<1> QED
  BY <1>1, <1>2, <1>3, <1>4, PageKeeps, CloseKeeps, CreateKeeps, ChangeKeeps, PushKeeps,
     OtherCommentsKeeps DEF Review!Next

LEMMA ReviewsAreSound ==
    ASSUME SoundPages, ReviewInv
    PROVE  /\ Review!TypeOK /\ Review!FeedbackIsOfTheHead
           /\ Review!ReviewsAreWhole /\ Review!NoCommentIsStranded
<1>1. Review!TypeOK
  BY DEF ReviewInv, PullIsSound, Pulls, Pendings, Threads, Acts, Steps, Asks, Heads, Numbers,
     SoundPages, Review!TypeOK, Review!NoHead, Review!Begins, Review!Directly
<1>2. Review!FeedbackIsOfTheHead
  BY DEF ReviewInv, PullIsSound, Fits, Review!FeedbackIsOfTheHead, Review!At
<1>3. Review!ReviewsAreWhole
  BY DEF ReviewInv, Fits, Review!ReviewsAreWhole, Review!At
<1>4. Review!NoCommentIsStranded
  BY DEF ReviewInv, PullIsSound, Review!NoCommentIsStranded
<1> QED
  BY <1>1, <1>2, <1>3, <1>4

(* However many processes work on a review, however large its pages and bounds *)
(* are, whatever is pushed or said meanwhile and whatever calls are lost: what *)
(* is said is of the head that was read, a review that is shown is whole or    *)
(* says that it is not, and no comment is left in a review that is gone.       *)
THEOREM ReviewsStaySound ==
    ASSUME SoundPages
    PROVE  Review!Spec => [](/\ Review!TypeOK /\ Review!FeedbackIsOfTheHead
                             /\ Review!ReviewsAreWhole /\ Review!NoCommentIsStranded)
<1>1. Review!Init => ReviewInv
  BY ReviewStart
<1>2. ReviewInv /\ [Review!Next]_(Review!reviewVars) => ReviewInv'
  BY ReviewStep
<1>3. ReviewInv => /\ Review!TypeOK /\ Review!FeedbackIsOfTheHead
                   /\ Review!ReviewsAreWhole /\ Review!NoCommentIsStranded
  BY ReviewsAreSound
<1> QED
  BY <1>1, <1>2, <1>3, PTL DEF Review!Spec
=============================================================================
