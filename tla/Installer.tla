------------------------------- MODULE Installer -------------------------------
(***************************************************************************)
(* What quinjet installs by itself: completions for shells, their blocks   *)
(* in the profiles, the shortcut q, and newer executables.  Whoever runs   *)
(* quinjet maintains the installation first; the user may remove parts of  *)
(* it, which then stay away until an explicit installation.                *)
(*                                                                         *)
(* A file is written beside its place and renamed into it, in one step.    *)
(* The user does nothing in the short time in which an installation runs;  *)
(* several processes may run at once.                                      *)
(***************************************************************************)
EXTENDS Naturals, Sequences, FiniteSets

CONSTANTS
    Installers,     \* processes
    ShellOrder,     \* the supported shells, in the order in which they are maintained
    Profiled,       \* those whose profile needs a block for completions
    Alone,          \* whether nothing else runs beside an explicit installation
    MaxRuns,        \* bound on invocations
    MaxRemovals     \* bound on removals by the user

VARIABLES
    exe,        \* the executable: its version, and who owns it
    files,      \* scripts, profiles, and the records of what was installed
    runs,       \* what each process is doing
    removed,    \* what the user took away after it was installed
    runCount, current

installerVars == <<exe, files, runs, removed, runCount, current>>

Shells == {ShellOrder[i] : i \in DOMAIN ShellOrder}

NoRun == [at |-> "idle", queue |-> <<>>, shell |-> "none", automatic |-> TRUE, version |-> "v1",
          kind |-> "auto", got |-> "none", before |-> FALSE, contents |-> FALSE, legacy |-> FALSE, draft |-> {},
          alone |-> TRUE, failed |-> FALSE]

(* Older versions marked a shell without a record of the shortcut, and had a  *)
(* shortcut in the profile.                                                   *)
Init ==
    /\ \E owner \in {"user", "manager"} : exe = [version |-> "v1", owner |-> owner]
    /\ \E q \in {"none", "foreign"}, old \in SUBSET Shells, legacy \in SUBSET Shells :
          /\ legacy \subseteq old
          /\ files = [script |-> [s \in Shells |-> IF s \in old THEN "v0" ELSE "none"],
                      blocks |-> [s \in Shells |->
                          (IF s \in old \cap Profiled THEN {"completion"} ELSE {})
                          \cup (IF s \in legacy THEN {"legacy"} ELSE {})],
                      marker |-> [s \in Shells |-> s \in old],
                      shortcut |-> "none", q |-> q]
    /\ runs = [p \in Installers |-> NoRun]
    /\ removed = {} /\ runCount = 0 /\ current = FALSE

Quiet == \A p \in Installers : runs[p].at = "idle"
HasScript(s) == files.script[s] # "none"
Step(p, at) == runs' = [runs EXCEPT ![p].at = at]

Started(p, run) ==
    /\ runs[p].at = "idle" /\ runCount < MaxRuns
    /\ Alone => \A o \in Installers : runs[o].kind # "explicit"
    /\ runs' = [o \in Installers |->
                    IF o = p THEN [run EXCEPT !.version = exe.version, !.alone = Quiet]
                    ELSE [runs[o] EXCEPT !.alone = FALSE]]
    /\ runCount' = runCount + 1 /\ current' = FALSE
-----------------------------------------------------------------------------
(* install_shortcut: the first directory that can hold q does; elsewhere a q  *)
(* that is not quinjet's is never replaced.                                   *)

(* Mutant: the record of the shortcut is not asked. *)
ShortcutForgets(automatic, before, legacy) ==
    IF automatic /\ before /\ ~ legacy THEN {[files EXCEPT !.shortcut = "removed"]}
    ELSE {IF files.q = "foreign" THEN [files EXCEPT !.shortcut = "removed"]
          ELSE [files EXCEPT !.q = "own", !.shortcut = "installed"]}

(* What the files may be afterwards; none if it ends with an error.           *)
InstalledShortcut(automatic, before, legacy) ==
    IF automatic /\ files.shortcut # "none" THEN {files}
    ELSE IF automatic /\ before /\ ~ legacy THEN {[files EXCEPT !.shortcut = "removed"]}
    ELSE (IF files.q = "foreign" THEN {}
          ELSE {[files EXCEPT !.q = "own", !.shortcut = "installed"]})
         \cup (IF automatic THEN {[files EXCEPT !.shortcut = "removed"]} ELSE {})

(* shells_to_refresh: the active shell and those that have a script.          *)
ToRefresh(active) == SelectSeq(ShellOrder, LAMBDA s : s = active \/ HasScript(s))

IsCurrent(s, version) ==
    /\ files.marker[s] /\ files.shortcut # "none"
    /\ files.script[s] \in {"none", version}

(* dispatch, auto_install.  Without an active shell q is installed at once.   *)
AutoInstall(p) ==
    \E active \in Shells \cup {"none"} :
        /\ exe.owner # "manager"
        /\ Started(p, [NoRun EXCEPT !.at = "next", !.queue = ToRefresh(active)])
        /\ files' \in IF active # "none" THEN {files}
                      ELSE InstalledShortcut(TRUE, \E s \in Shells : files.marker[s], FALSE)
        /\ UNCHANGED <<exe, removed>>

(* completions --install: what the user removed comes back.                   *)
Explicit(p) ==
    \E s \in Shells :
        /\ Alone => Quiet
        /\ Started(p, [NoRun EXCEPT !.at = "install", !.kind = "explicit", !.shell = s,
                                   !.automatic = FALSE])
        /\ UNCHANGED <<exe, files, removed>>

(* The next shell that is not up to date.                                     *)
NextShell(p) ==
    /\ runs[p].at = "next" /\ runs[p].queue # <<>>
    /\ LET s == Head(runs[p].queue) IN
       runs' = [runs EXCEPT ![p].queue = Tail(@), ![p].shell = s,
                            ![p].at = IF IsCurrent(s, runs[p].version) THEN "next" ELSE "install"]
    /\ UNCHANGED <<exe, files, removed, runCount, current>>

(* install_with_mode reads what was installed before,                         *)
Install(p) ==
    /\ runs[p].at = "install"
    /\ LET s == runs[p].shell
           before == files.marker[s] IN
       runs' = [runs EXCEPT
           ![p].at = "script", ![p].before = before,
           ![p].contents = \/ ~ runs[p].automatic \/ ~ before
                           \/ files.script[s] \notin {"none", runs[p].version},
           ![p].legacy = "legacy" \in files.blocks[s]]
    /\ UNCHANGED <<exe, files, removed, runCount, current>>

Restored(p, item) == removed' = IF runs[p].automatic THEN removed ELSE removed \ {item}

Fresh(p) == ~ runs[p].automatic \/ ~ runs[p].before

(* writes the script,                                                         *)
WriteScript(p) ==
    /\ runs[p].at = "script"
    /\ files' = IF (Fresh(p) \/ HasScript(runs[p].shell)) /\ runs[p].contents
                THEN [files EXCEPT !.script[runs[p].shell] = runs[p].version] ELSE files
    /\ Step(p, "profile") /\ Restored(p, <<runs[p].shell, "script">>)
    /\ UNCHANGED <<exe, runCount, current>>

(* adds its block to the profile as it was read,                              *)
ReadProfile(p) ==
    /\ runs[p].at = "profile"
    /\ LET s == runs[p].shell IN
       runs' = [runs EXCEPT ![p].draft = files.blocks[s],
           ![p].at = IF s \in Profiled /\ "completion" \notin files.blocks[s] /\ Fresh(p)
                     THEN "integrate" ELSE "shortcut"]
    /\ UNCHANGED <<exe, files, removed, runCount, current>>

Integrate(p) ==
    /\ runs[p].at = "integrate"
    /\ files' = [files EXCEPT !.blocks[runs[p].shell] = runs[p].draft \cup {"completion"}]
    /\ Step(p, "shortcut") /\ Restored(p, <<runs[p].shell, "block">>)
    /\ UNCHANGED <<exe, runCount, current>>

(* installs q,                                                                *)
InstallShortcut(p) ==
    /\ runs[p].at = "shortcut"
    /\ files' \in InstalledShortcut(runs[p].automatic, runs[p].before, runs[p].legacy)
    /\ Step(p, "legacy") /\ Restored(p, <<"q", "shortcut">>)
    /\ UNCHANGED <<exe, runCount, current>>

(* takes the old shortcut out of the profile if there is a new one,           *)
ReadLegacy(p) ==
    /\ runs[p].at = "legacy"
    /\ LET blocks == files.blocks[runs[p].shell] IN
       runs' = [runs EXCEPT ![p].draft = blocks,
           ![p].at = IF files.shortcut = "installed" /\ "legacy" \in blocks THEN "remove" ELSE "mark"]
    /\ UNCHANGED <<exe, files, removed, runCount, current>>

RemoveLegacy(p) ==
    /\ runs[p].at = "remove"
    /\ files' = [files EXCEPT !.blocks[runs[p].shell] = runs[p].draft \ {"legacy"}]
    /\ Step(p, "mark")
    /\ UNCHANGED <<exe, removed, runCount, current>>

(* and records that the shell is installed.                                   *)
Mark(p) ==
    /\ runs[p].at = "mark"
    /\ files' = [files EXCEPT !.marker[runs[p].shell] = TRUE]
    /\ Step(p, "next")
    /\ UNCHANGED <<exe, removed, runCount, current>>

Working == {"install", "script", "profile", "integrate", "shortcut", "legacy", "remove", "mark"}

(* Any of these may fail.  Maintenance then goes on with the next shell.      *)
Fail(p) ==
    /\ runs[p].at \in Working
    /\ runs' = [runs EXCEPT ![p].at = "next", ![p].failed = TRUE]
    /\ UNCHANGED <<exe, files, removed, runCount, current>>

Finish(p) ==
    /\ runs[p].at = "next" /\ runs[p].queue = <<>>
    /\ runs' = [runs EXCEPT ![p] = NoRun]
    /\ current' = (runs[p].alone /\ ~ runs[p].failed /\ runs[p].kind = "auto")
    /\ UNCHANGED <<exe, files, removed, runCount>>

Crash(p) ==
    /\ runs[p].at # "idle"
    /\ runs' = [runs EXCEPT ![p] = NoRun]
    /\ UNCHANGED <<exe, files, removed, runCount, current>>

Maintain(p) ==
    \/ AutoInstall(p) \/ Explicit(p) \/ NextShell(p) \/ Install(p) \/ WriteScript(p)
    \/ ReadProfile(p) \/ Integrate(p) \/ InstallShortcut(p) \/ ReadLegacy(p)
    \/ RemoveLegacy(p) \/ Mark(p) \/ Fail(p) \/ Finish(p) \/ Crash(p)
-----------------------------------------------------------------------------
(* perform_update.  Any step may end it with an error, which changes nothing. *)
Updating == {"metadata", "checksums", "download", "verify", "replace"}

Update(p) ==
    /\ exe.owner = "user"
    /\ Started(p, [NoRun EXCEPT !.at = "metadata", !.kind = "update"])
    /\ UNCHANGED <<exe, files, removed>>

(* The latest release, its checksums, its binary; all as they were published, *)
(* or cut off or altered on the way.                                          *)
FetchMetadata(p) ==
    /\ runs[p].at = "metadata"
    /\ \/ runs[p].version = "v1" /\ Step(p, "checksums")
       \/ runs' = [runs EXCEPT ![p] = NoRun]     \* up to date, or only checked
    /\ UNCHANGED <<exe, files, removed, runCount, current>>

FetchChecksums(p) ==
    /\ runs[p].at = "checksums" /\ Step(p, "download")
    /\ UNCHANGED <<exe, files, removed, runCount, current>>

Download(p) ==
    /\ runs[p].at = "download"
    /\ \E got \in {"v2", "damaged"} :
          runs' = [runs EXCEPT ![p].at = "verify", ![p].got = got]
    /\ UNCHANGED <<exe, files, removed, runCount, current>>

Verify(p) ==
    /\ runs[p].at = "verify" /\ runs[p].got = "v2"
    /\ Step(p, "replace")
    /\ UNCHANGED <<exe, files, removed, runCount, current>>

(* The binary is copied beside the executable and renamed to it; then the new *)
(* executable maintains the completions of the active shell.                  *)
Replace(p) ==
    /\ runs[p].at = "replace"
    /\ exe' = [exe EXCEPT !.version = runs[p].got]
    /\ \E active \in Shells \cup {"none"} :
          runs' = [runs EXCEPT ![p].version = runs[p].got, ![p].shell = active,
                               ![p].at = IF active = "none" THEN "next" ELSE "install"]
    /\ UNCHANGED <<files, removed, runCount, current>>

UpdateFails(p) ==
    /\ runs[p].at \in Updating
    /\ runs' = [runs EXCEPT ![p] = NoRun]
    /\ UNCHANGED <<exe, files, removed, runCount, current>>

Upgrade(p) ==
    \/ Update(p) \/ FetchMetadata(p) \/ FetchChecksums(p) \/ Download(p) \/ Verify(p)
    \/ Replace(p) \/ UpdateFails(p)
-----------------------------------------------------------------------------
(* The user removes a script, a block or q.  What was recorded as installed   *)
(* is to stay away.                                                           *)
UserRemoves ==
    /\ Quiet /\ Cardinality(removed) < MaxRemovals
    /\ \/ \E s \in Shells :
             /\ HasScript(s)
             /\ files' = [files EXCEPT !.script[s] = "none"]
             /\ removed' = IF files.marker[s] THEN removed \cup {<<s, "script">>} ELSE removed
       \/ \E s \in Profiled :
             /\ "completion" \in files.blocks[s]
             /\ files' = [files EXCEPT !.blocks[s] = @ \ {"completion"}]
             /\ removed' = IF files.marker[s] THEN removed \cup {<<s, "block">>} ELSE removed
       \/ /\ files.q = "own"
          /\ files' = [files EXCEPT !.q = "none"]
          /\ removed' = IF files.shortcut # "none" THEN removed \cup {<<"q", "shortcut">>} ELSE removed
    /\ UNCHANGED <<exe, runs, runCount, current>>

Next == UserRemoves \/ \E p \in Installers : Maintain(p) \/ Upgrade(p)

Spec == Init /\ [][Next]_installerVars
-----------------------------------------------------------------------------
TypeOK ==
    /\ exe.version \in {"v1", "v2"} /\ exe.owner \in {"user", "manager"}
    /\ files.script \in [Shells -> {"none", "v0", "v1", "v2"}]
    /\ files.blocks \in [Shells -> SUBSET {"completion", "legacy"}]
    /\ files.shortcut \in {"none", "removed", "installed"}
    /\ files.q \in {"none", "own", "foreign"}
    /\ \A p \in Installers : runs[p].at \in Working \cup Updating \cup {"idle", "next"}

(* Automatic maintenance does not put back what the user removed.             *)
RemovalsStay ==
    \A item \in removed :
        CASE item[2] = "script"   -> files.script[item[1]] = "none"
          [] item[2] = "block"    -> "completion" \notin files.blocks[item[1]]
          [] item[2] = "shortcut" -> files.q # "own"

(* A shell that is recorded as installed has its block, wherever installations *)
(* crashed, failed or raced, unless the user removed it.                      *)
RecordedIsInstalled ==
    \A s \in Profiled :
        files.marker[s] /\ <<s, "block">> \notin removed => "completion" \in files.blocks[s]

(* After an undisturbed run every script there is is of this executable, which *)
(* is whole; what a manager owns is left alone.                               *)
ScriptsAreCurrent ==
    /\ current /\ Quiet => \A s \in Shells : files.script[s] \in {"none", exe.version}
    /\ exe.owner = "manager" => exe.version = "v1"
    /\ exe.version # "damaged"
=============================================================================
