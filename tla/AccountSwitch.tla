---------------------------- MODULE AccountSwitch ----------------------------
(***************************************************************************)
(* The GitHub account of a repository: a switch verifies the credential of *)
(* a login, takes the lock that `git config` takes, and replaces the whole *)
(* configuration with a copy that has the account's settings.  Commits are *)
(* checked against the account before they are made, and calls of gh use   *)
(* its credential.  Processes and `git config` interleave, and a process   *)
(* may die between any two steps.                                          *)
(*                                                                         *)
(* A login stands for its name and address as well; the settings that say  *)
(* how credentials are asked for are one.                                  *)
(***************************************************************************)
EXTENDS Naturals

CONSTANTS
    Runners,       \* the processes
    Logins,        \* the logins whose credentials gh may have
    Nobody,        \* no login
    AccountBounds  \* which operations there are, and bounds on them, on `git config`, on
                   \* logouts, on calls that fail and on processes that die

VARIABLES
    config,        \* the configuration file
    held,          \* who made the lock file, and the lock files that were left behind
    tokens,        \* for each login, whose credential is saved under it
    runners,       \* what each process is doing
    commits,       \* the commits, the last one included, and the calls of gh
    expended       \* the bounds, and how much of each was used

accountVars == <<config, held, tokens, runners, commits, expended>>

Own == "own"       \* the identity the user had before, and in the environment
Settings ==
    [account : Logins \cup {Nobody}, user : Logins \cup {Own}, pinned : Logins \cup {Nobody},
     credential : Logins \cup {Nobody}, edits : Nat]

Free0 == [by |-> Nobody, stale |-> FALSE]
Resting == [at |-> "idle", login |-> Nobody, read |-> Nobody, copy |-> Nobody, since |-> FALSE,
            override |-> FALSE, amend |-> FALSE]
Left(what) == expended[what] < expended.bounds[what]
Expend(what) == expended' = [expended EXCEPT ![what] = @ + 1]

Init ==
    /\ \E b \in AccountBounds :
          expended = [bounds |-> b, operations |-> 0, edits |-> 0, logouts |-> 0, failures |-> 0,
                      crashes |-> 0]
    /\ config = [account |-> Nobody, user |-> Own, pinned |-> Nobody, credential |-> Nobody,
                 edits |-> 0]
    /\ held = Free0
    /\ tokens \in [Logins -> Logins \cup {Nobody}]
    /\ runners = [r \in Runners |-> Resting]
    /\ commits = [author |-> Own, wrong |-> FALSE, calls |-> {}]

On(r, label) == runners[r].at = label
To(r, next) == runners' = [runners EXCEPT ![r] = next]
GoTo(r, label) == To(r, [runners[r] EXCEPT !.at = label])

(* A call that fails, or is refused, ends the operation. *)
GiveUp(r) == To(r, Resting)
Fails(r) == Left("failures") /\ Expend("failures") /\ GiveUp(r)
-----------------------------------------------------------------------------
(* switch_account *)

Switch(r, login) ==
    /\ On(r, "idle") /\ "switch" \in expended.bounds.kinds
    /\ Left("operations") /\ Expend("operations")
    /\ To(r, [Resting EXCEPT !.at = "verify", !.login = login])
    /\ UNCHANGED <<config, held, tokens, commits>>

(* account_token, and whose it is according to GitHub. *)
Verify(r) ==
    /\ On(r, "verify")
    /\ \/ /\ tokens[runners[r].login] = runners[r].login
          /\ GoTo(r, "lock") /\ UNCHANGED expended
       \/ /\ tokens[runners[r].login] # runners[r].login
          /\ GiveUp(r) /\ UNCHANGED expended
       \/ Fails(r)
    /\ UNCHANGED <<config, held, tokens, commits>>

Lock(r) ==
    /\ On(r, "lock")
    /\ IF held = Free0
       THEN held' = [by |-> r, stale |-> FALSE] /\ GoTo(r, "copy")
       ELSE held' = held /\ GiveUp(r)
    /\ UNCHANGED <<config, tokens, commits, expended>>

Unlocked(r) == held' = IF held.by = r /\ ~ held.stale THEN Free0 ELSE held

Copy(r) ==
    /\ On(r, "copy")
    /\ \/ /\ To(r, [runners[r] EXCEPT !.at = "set", !.copy = config])
          /\ UNCHANGED <<held, expended>>
       \/ Fails(r) /\ Unlocked(r)
    /\ UNCHANGED <<config, tokens, commits>>

Settled(c, login) ==
    [c EXCEPT !.account = login, !.user = login, !.pinned = login, !.credential = login]

Prepare(r) ==
    /\ On(r, "set")
    /\ \/ /\ To(r, [runners[r] EXCEPT !.at = "persist", !.copy = Settled(@, runners[r].login)])
          /\ UNCHANGED <<held, expended>>
       \/ Fails(r) /\ Unlocked(r)
    /\ UNCHANGED <<config, tokens, commits>>

(* What the others read before is now out of date. *)
Outdated == [r \in Runners |-> [runners[r] EXCEPT !.since = TRUE]]

Persist(r) ==
    /\ On(r, "persist")
    /\ \/ /\ config' = runners[r].copy
          /\ runners' = [Outdated EXCEPT ![r].at = "unlock"]
          /\ UNCHANGED <<held, expended>>
       \/ Fails(r) /\ Unlocked(r) /\ UNCHANGED config
    /\ UNCHANGED <<tokens, commits>>

Unlock(r) ==
    /\ On(r, "unlock")
    /\ Unlocked(r) /\ GiveUp(r)
    /\ UNCHANGED <<config, tokens, commits, expended>>
-----------------------------------------------------------------------------
(* verify_commit_account, and the commit; the environment may override who    *)
(* the author is.                                                             *)

Commit(r, amend, override) ==
    /\ On(r, "idle") /\ "commit" \in expended.bounds.kinds
    /\ Left("operations") /\ Expend("operations")
    /\ To(r, [Resting EXCEPT !.at = "account", !.amend = amend, !.override = override])
    /\ UNCHANGED <<config, held, tokens, commits>>

Quietly(r, next) == To(r, next) /\ UNCHANGED <<config, held, tokens, commits, expended>>
Identity(r) == IF runners[r].override THEN Own ELSE config.user

AskAccount(r) ==
    /\ On(r, "account")
    /\ Quietly(r, [runners[r] EXCEPT !.at = IF config.account = Nobody THEN "commit" ELSE "pinned",
                                     !.since = FALSE])
AskPinned(r) ==
    /\ On(r, "pinned")
    /\ Quietly(r, IF config.pinned = Nobody THEN Resting
                  ELSE [runners[r] EXCEPT !.at = "identity", !.read = config.pinned])
AskIdentity(r) ==
    /\ On(r, "identity")
    /\ Quietly(r, IF Identity(r) # runners[r].read THEN Resting
                  ELSE [runners[r] EXCEPT !.at = IF runners[r].amend THEN "author" ELSE "commit"])
AskAuthor(r) ==
    /\ On(r, "author")
    /\ Quietly(r, IF commits.author # runners[r].read THEN Resting
                  ELSE [runners[r] EXCEPT !.at = "commit"])

(* Git takes the identity it finds; an amended commit keeps its author.  Who   *)
(* is about to amend the commit that is last now has not checked its author.   *)
Record(r) ==
    /\ On(r, "commit")
    /\ LET author == IF runners[r].amend THEN commits.author ELSE Identity(r) IN
       commits' = [commits EXCEPT
           !.author = author,
           !.wrong = @ \/ /\ ~ runners[r].since /\ config.account # Nobody
                          /\ author # config.account \/ Identity(r) # config.account]
    /\ runners' = [q \in Runners |-> IF q = r THEN Resting
                   ELSE [runners[q] EXCEPT !.since = @ \/ (On(q, "commit") /\ runners[q].amend)]]
    /\ UNCHANGED <<config, held, tokens, expended>>
-----------------------------------------------------------------------------
(* pin_github_command: gh is given the credential of the account, or not run. *)

CallGh(r) ==
    /\ On(r, "idle") /\ "gh" \in expended.bounds.kinds
    /\ Left("operations") /\ Expend("operations")
    /\ To(r, [Resting EXCEPT !.at = "token", !.read = config.account])
    /\ UNCHANGED <<config, held, tokens, commits>>

RunGh(r) ==
    /\ On(r, "token")
    /\ LET login == runners[r].read
           as    == IF login = Nobody THEN Nobody ELSE tokens[login]
       IN
       \/ /\ login # Nobody => as # Nobody
          /\ commits' = [commits EXCEPT !.calls = @ \cup {[selected |-> login, as |-> as]}]
          /\ GiveUp(r) /\ UNCHANGED expended
       \/ /\ login # Nobody /\ as = Nobody
          /\ GiveUp(r) /\ UNCHANGED <<commits, expended>>
       \/ Fails(r) /\ UNCHANGED commits
    /\ UNCHANGED <<config, held, tokens>>
-----------------------------------------------------------------------------
(* Others: `git config` takes the lock, writes and renames it; the user logs  *)
(* out of gh; a process dies and leaves its lock.                             *)

GitConfig ==
    /\ held = Free0
    /\ Left("edits") /\ Expend("edits")
    /\ \E user \in {config.user, Own} : config' = [config EXCEPT !.user = user, !.edits = @ + 1]
    /\ runners' = Outdated
    /\ UNCHANGED <<held, tokens, commits>>

LogOut(login) ==
    /\ tokens[login] # Nobody
    /\ Left("logouts") /\ Expend("logouts")
    /\ tokens' = [tokens EXCEPT ![login] = Nobody]
    /\ UNCHANGED <<config, held, runners, commits>>

Crash(r) ==
    /\ ~ On(r, "idle")
    /\ Left("crashes") /\ Expend("crashes")
    /\ GiveUp(r)
    /\ held' = IF held.by = r /\ ~ held.stale THEN [held EXCEPT !.stale = TRUE] ELSE held
    /\ UNCHANGED <<config, tokens, commits>>

Next ==
    \/ \E r \in Runners :
          \/ \E login \in Logins : Switch(r, login)
          \/ Verify(r) \/ Lock(r) \/ Copy(r) \/ Prepare(r) \/ Persist(r) \/ Unlock(r)
          \/ \E amend, override \in BOOLEAN : Commit(r, amend, override)
          \/ AskAccount(r) \/ AskPinned(r) \/ AskIdentity(r) \/ AskAuthor(r) \/ Record(r)
          \/ CallGh(r) \/ RunGh(r) \/ Crash(r)
    \/ GitConfig \/ \E login \in Logins : LogOut(login)

Spec == Init /\ [][Next]_accountVars
-----------------------------------------------------------------------------
TypeOK ==
    /\ config \in Settings
    /\ held \in [by : Runners \cup {Nobody}, stale : BOOLEAN]
    /\ tokens \in [Logins -> Logins \cup {Nobody}]
    /\ commits.author \in Logins \cup {Own}

(* The settings of an account are all of one account, whose credential was its *)
(* own, and what `git config` wrote meanwhile is in the file.                   *)
SettingsAreWhole ==
    /\ config.account = config.pinned /\ config.account = config.credential
    /\ config.user \in {config.account, Own}
    /\ config.edits = expended.edits

(* One process at a time is between taking the lock and releasing it, and only *)
(* a process that died leaves it.                                              *)
LockIsReleased ==
    LET inside == {r \in Runners : runners[r].at \in {"copy", "set", "persist", "unlock"}} IN
    /\ \A r, q \in inside : r = q
    /\ held # Free0 => held.stale \/ held.by \in inside

(* A commit under a selected account is by that account, unless the settings,  *)
(* or the commit it amends, changed after they were checked; and calls under a *)
(* selected account are never made without the credential gh has for its login.*)
CommitsAreByTheAccount ==
    /\ ~ commits.wrong
    /\ \A c \in commits.calls : c.selected # Nobody => c.as # Nobody
=============================================================================
