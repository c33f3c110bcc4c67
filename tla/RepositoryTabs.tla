---------------------------- MODULE RepositoryTabs ----------------------------
(***************************************************************************)
(* Repository tabs.  A session on a machine holds one running repository   *)
(* per tab; the tabs of all machines are listed, in one order, in the      *)
(* context that the sessions hand to each other.  Choosing a tab of        *)
(* another machine, or another machine in the picker, ends the session and *)
(* starts one there, which makes its tabs anew from the list or, without   *)
(* any, from the session it saved.  Without known machines there is no     *)
(* context and the session's own tabs are all.                             *)
(*                                                                         *)
(* A pending tab is one whose project is still being picked.               *)
(***************************************************************************)
EXTENDS Naturals, Sequences, SequencesExt, FiniteSets

CONSTANTS
    Host,       \* the machine that owns the terminal
    Remotes,    \* the other machines
    Roots,      \* worktree roots, on each machine
    Folder,     \* each machine's folder
    Saved0,     \* what sessions before saved, by machine
    MaxTabs,    \* bound: the identities of tabs the user opens
    MaxSwitches, \* bound: sessions after the first
    MaxGone,    \* bound: roots that vanish
    MaxMoves,   \* bound: tabs reordered, and given another project
    Beyond,     \* whether a worktree open twice is followed further
    None

VARIABLES
    shared,     \* the context: the current machine, those that can be reached, all tabs
    local,      \* the tabs of the running session
    session,    \* running, choosing a first project, between two machines, or over
    saved,      \* the session saved on each machine
    gone,       \* roots that are no repository any more
    kept,       \* ghost: tabs opened and not closed since, unless their root was gone
    sought,     \* ghost: the tab for which the machine was switched
    doubled     \* ghost: some worktree was open in two tabs

tabsVars == <<shared, local, session, saved, gone, kept, sought, doubled>>

Machines == {Host} \cup Remotes
Ids(tabs) == {t.id : t \in ToSet(tabs)}
At(tabs, id) == CHOOSE i \in DOMAIN tabs : tabs[i].id = id
Exists(m, r) == <<m, r>> \notin gone

(* What takes the place of the tab at i when it is removed. *)
Successor(rest, i) ==
    IF rest = <<>> THEN None ELSE rest[IF i <= Len(rest) THEN i ELSE Len(rest)].id

Moved(tabs, source, target) ==
    InsertAt(RemoveAt(tabs, At(tabs, source)), At(tabs, target), tabs[At(tabs, source)])
-----------------------------------------------------------------------------
(* SshTabs *)

Of(c, m) == SelectSeq(c.entries, LAMBDA e : e.machine = m /\ ~ e.pending)
Get(c, id) == c.entries[At(c.entries, id)]

IdForRoot(c, root) ==
    LET same == SelectSeq(Of(c, c.current), LAMBDA e : e.root = root)
    IN IF same = <<>> THEN None ELSE same[1].id

ActivePending(c) ==
    IF c.active \in Ids(c.entries) /\ Get(c, c.active).pending /\ Get(c, c.active).machine = c.current
    THEN c.active ELSE None

ActiveFor(c, m) == IF c.byMachine[m] \in Ids(Of(c, m)) THEN c.byMachine[m] ELSE None

Activated(c, id) ==
    IF id \notin Ids(c.entries) THEN c
    ELSE [c EXCEPT !.active = id,
                   !.byMachine[Get(c, id).machine] = IF Get(c, id).pending THEN @ ELSE id]

Appended(c, root, pending) ==
    Activated([c EXCEPT !.entries = Append(@, [id |-> c.next, machine |-> c.current,
                                               root |-> root, pending |-> pending]),
                        !.next = @ + 1], c.next)

Replaced(c, id, root) ==
    IF id \notin Ids(c.entries) THEN c
    ELSE [c EXCEPT !.entries[At(c.entries, id)].root = root,
                   !.entries[At(c.entries, id)].pending = FALSE]

MovePending(c, id, m, root) ==
    IF id \notin Ids(c.entries) \/ ~ Get(c, id).pending THEN c
    ELSE [c EXCEPT !.entries[At(c.entries, id)].machine = m,
                   !.entries[At(c.entries, id)].root = root, !.active = id]

Closed(c, id) ==
    IF id \notin Ids(c.entries) THEN c
    ELSE LET i    == At(c.entries, id)
             m    == c.entries[i].machine
             rest == RemoveAt(c.entries, i)
             next == [c EXCEPT !.entries = rest,
                               !.active = IF @ = id THEN Successor(rest, i) ELSE @,
                               !.byMachine = [k \in Machines |-> IF @[k] = id THEN None ELSE @[k]]]
             done == Activated(next, next.active)
         IN IF ActiveFor(done, m) = None /\ Of(done, m) # <<>>
            THEN [done EXCEPT !.byMachine[m] = Of(done, m)[1].id] ELSE done

ClosedOthers(c, id) ==
    Activated([c EXCEPT !.entries = <<Get(c, id)>>, !.byMachine = [m \in Machines |-> None]], id)
-----------------------------------------------------------------------------
(* RepositoryTabs, the session's own *)

NoTabs == [tabs |-> <<>>, active |-> None, next |-> 0]

LocalAppended(l, id, root, pending) ==
    [tabs |-> Append(l.tabs, [id |-> id, root |-> root, pending |-> pending]),
     active |-> id, next |-> IF id >= l.next THEN id + 1 ELSE l.next]

LocalReplaced(l, id, root) ==
    [l EXCEPT !.tabs[At(l.tabs, id)] = [id |-> id, root |-> root, pending |-> FALSE]]

LocalClosed(l, id) ==
    IF id \notin Ids(l.tabs) THEN l
    ELSE LET i    == At(l.tabs, id)
             rest == RemoveAt(l.tabs, i)
         IN [l EXCEPT !.tabs = rest, !.active = IF @ = id THEN Successor(rest, i) ELSE @]

LocalClosedOthers(l, id) ==
    IF id \in Ids(l.tabs) THEN [l EXCEPT !.tabs = <<l.tabs[At(l.tabs, id)]>>, !.active = id] ELSE l

Strip == IF shared.on THEN shared.entries ELSE local.tabs
-----------------------------------------------------------------------------
(* Ending a session, and starting the next *)

ProjectSession(l) ==
    LET real == SelectSeq(l.tabs, LAMBDA t : ~ t.pending)
    IN [roots  |-> FoldLeft(LAMBDA s, t : IF Contains(s, t.root) THEN s ELSE Append(s, t.root), <<>>, real),
        active |-> IF l.active \in Ids(real) THEN real[At(real, l.active)].root ELSE None]

Saved(m, l) ==
    IF ProjectSession(l).roots = <<>> THEN saved ELSE [saved EXCEPT ![m] = ProjectSession(l)]

Running == session.at = "session"
Stay == UNCHANGED <<session, saved>>
Move == session.moves < MaxMoves /\ session' = [session EXCEPT !.moves = @ + 1] /\ UNCHANGED saved

Handoff(c, l, m, mode) ==
    /\ session' = [session EXCEPT !.at = "between", !.machine = m, !.mode = mode]
    /\ shared' = c /\ local' = NoTabs
    /\ saved' = Saved(c.current, l)

Over ==
    /\ session' = [session EXCEPT !.at = "over", !.mode = "none"]
    /\ local' = NoTabs
    /\ UNCHANGED saved

(* Mutant: the switch does not mark the tab. *)
SwitchUnmarked(c, l, id) ==
    IF c.on /\ id \in Ids(c.entries) /\ Get(c, id).machine \in c.up
    THEN Handoff(c, l, Get(c, id).machine, "activate") /\ sought' = id
    ELSE shared' = c /\ local' = l /\ Stay /\ sought' = None

(* switch_to_shared_tab: nothing happens when the machine cannot be reached. *)
SwitchToShared(c, l, id) ==
    IF c.on /\ id \in Ids(c.entries) /\ Get(c, id).machine \in c.up
    THEN Handoff(Activated(c, id), l, Get(c, id).machine, "activate") /\ sought' = id
    ELSE shared' = c /\ local' = l /\ Stay /\ sought' = None

FollowShared(c, l) ==
    IF c.active \in Ids(l.tabs)
    THEN shared' = c /\ local' = [l EXCEPT !.active = c.active] /\ Stay /\ sought' = None
    ELSE SwitchToShared(c, l, c.active)

(* One repository more in the session: append_repository, and new for the first. *)
Opened(pair, root) ==
    LET c  == pair[1]
        l  == pair[2]
        id == IF ~ c.on THEN l.next
              ELSE IF IdForRoot(c, root) # None THEN IdForRoot(c, root) ELSE c.next
    IN <<IF ~ c.on THEN c
         ELSE IF IdForRoot(c, root) # None THEN Activated(c, id) ELSE Appended(c, root, FALSE),
         LocalAppended(l, id, root, FALSE)>>

(* The first tab of a session; a pending one is taken over, or resolved. *)
New(c, mode, root) ==
    LET id == ActivePending(c)
    IN CASE id # None /\ mode = "host"    -> <<c, LocalAppended(NoTabs, id, root, TRUE)>>
         [] id # None /\ mode = "resolve" -> <<Activated(Replaced(c, id, root), id),
                                              LocalAppended(NoTabs, id, root, FALSE)>>
         [] OTHER                         -> Opened(<<c, NoTabs>>, root)

(* restore, when one of the roots is still a repository. *)
Restored(c, roots, desired) ==
    LET found    == SelectSeq(roots, LAMBDA r : Exists(c.current, r))
        opened   == FoldLeft(Opened, <<c, NoTabs>>, found)
        missing  == SelectSeq(Of(opened[1], c.current),
                              LAMBDA e : e.root \notin {t.root : t \in ToSet(opened[2].tabs)})
        pruned   == FoldLeft(LAMBDA d, e : Closed(d, e.id), opened[1], missing)
        pending  == ActivePending(c)
        l        == IF pending = None THEN opened[2]
                    ELSE LocalAppended(opened[2], pending, Get(c, pending).root, TRUE)
        matching == SelectSeq(opened[2].tabs, LAMBDA t : t.root = desired)
        active   == IF pending # None THEN pending
                    ELSE IF matching # <<>> THEN matching[Len(matching)].id ELSE l.active
    IN <<Activated(pruned, active), [l EXCEPT !.active = active]>>

(* Of two roots, the saved session is asked when the machine has no tab. *)
RestoreRoots(c) ==
    IF Of(c, c.current) # <<>> THEN [i \in DOMAIN Of(c, c.current) |-> Of(c, c.current)[i].root]
    ELSE saved[c.current].roots
RestoreActive(c) ==
    IF ActiveFor(c, c.current) # None THEN Get(c, ActiveFor(c, c.current)).root
    ELSE saved[c.current].active

Gone(c) == {e.id : e \in {f \in ToSet(c.entries) : f.machine = c.current /\ ~ Exists(f.machine, f.root)}}

(* open_terminal on the machine that was chosen. *)
Launch ==
    LET c      == [shared EXCEPT !.current = session.machine]
        folder == Folder[session.machine]
        roots  == RestoreRoots(c)
        start  == \E i \in DOMAIN roots : Exists(c.current, roots[i])
        begun(at) == [session EXCEPT !.at = at, !.count = @ + 1]
    IN /\ session.at = "between" /\ session.count < MaxSwitches
       /\ kept' = kept \ Gone(c)
       /\ IF start
          THEN LET r == Restored(c, roots, RestoreActive(c))
               IN /\ shared' = r[1] /\ local' = r[2]
                  /\ session' = begun("session")
          ELSE IF session.mode = "new" /\ Exists(c.current, folder)
          THEN LET r == New(c, "host", folder)
               IN /\ shared' = r[1] /\ local' = r[2]
                  /\ session' = begun("session")
          ELSE /\ shared' = c /\ local' = NoTabs
               /\ session' = begun("onboarding")
       /\ UNCHANGED <<saved, gone, sought>>

(* The first project is chosen in the onboarding. *)
Choose(root) ==
    /\ session.at = "onboarding" /\ Exists(shared.current, root)
    /\ shared.next < MaxTabs
    /\ LET r == New(shared, IF session.mode = "new" THEN "resolve" ELSE "normal", root)
       IN /\ shared' = r[1] /\ local' = r[2]
          /\ kept' = kept \cup {r[2].active}
    /\ session' = [session EXCEPT !.at = "session", !.mode = "none"]
    /\ sought' = None
    /\ UNCHANGED <<saved, gone>>

(* Esc in the onboarding: a tab that was being opened is given up. *)
GiveUp ==
    /\ session.at = "onboarding"
    /\ LET id == ActivePending(shared)
           c  == Closed(shared, id)
       IN /\ kept' = kept \ {id}
          /\ IF session.mode = "new" /\ id # None /\ c.active # None
                /\ Get(c, c.active).machine \in c.up
             THEN /\ session' = [session EXCEPT !.at = "between", !.mode = "activate",
                                               !.machine = Get(c, c.active).machine]
                  /\ shared' = c /\ sought' = c.active
                  /\ UNCHANGED <<local, saved>>
             ELSE /\ shared' = IF session.mode = "new" /\ id # None THEN c ELSE shared
                  /\ Over /\ sought' = None
    /\ UNCHANGED gone
-----------------------------------------------------------------------------
(* RepositoryWorkspace *)

Activate(id) ==
    /\ Running /\ id \in Ids(Strip)
    /\ IF id \in Ids(local.tabs)
       THEN /\ local' = [local EXCEPT !.active = id]
            /\ shared' = Activated(shared, id)
            /\ Stay /\ sought' = None
       ELSE SwitchToShared(shared, local, id)
    /\ UNCHANGED <<gone, kept>>

Reorder(source, target) ==
    /\ Running /\ source # target /\ {source, target} \subseteq Ids(Strip)
    /\ shared' = IF shared.on THEN [shared EXCEPT !.entries = Moved(@, source, target)] ELSE shared
    /\ local' = IF {source, target} \subseteq Ids(local.tabs)
                THEN [local EXCEPT !.tabs = Moved(@, source, target)] ELSE local
    /\ Move /\ sought' = None
    /\ UNCHANGED <<gone, kept>>

(* close, also cancel_repository_tab_picker *)
Close(id) ==
    /\ Running /\ id \in Ids(Strip)
    /\ kept' = kept \ {id}
    /\ LET c == Closed(shared, id)
           l == LocalClosed(local, id)
       IN IF shared.on /\ c.entries # <<>>
          THEN IF c.active \in Ids(l.tabs) \/ Get(c, c.active).machine \in c.up \/ l.tabs # <<>>
               THEN FollowShared(c, l)
               ELSE shared' = c /\ Over /\ sought' = None
          ELSE IF l.tabs = <<>> \/ shared.on
          THEN shared' = c /\ Over /\ sought' = None
          ELSE shared' = c /\ local' = l /\ Stay /\ sought' = None
    /\ UNCHANGED gone

CloseOthers(id) ==
    /\ Running /\ id \in Ids(Strip)
    /\ kept' = kept \cap {id}
    /\ IF shared.on
       THEN FollowShared(ClosedOthers(shared, id),
                         IF id \in Ids(local.tabs) THEN LocalClosedOthers(local, id)
                         ELSE [local EXCEPT !.tabs = <<>>, !.active = None])
       ELSE local' = LocalClosedOthers(local, id) /\ UNCHANGED shared /\ Stay /\ sought' = None
    /\ UNCHANGED gone

(* Quit and close_all *)
Quit ==
    /\ Running
    /\ shared' \in {shared, [shared EXCEPT !.entries = <<>>, !.active = None,
                                           !.byMachine = [m \in Machines |-> None]]}
    /\ Over /\ kept' = {} /\ sought' = None
    /\ UNCHANGED gone

ActiveTab == local.tabs[At(local.tabs, local.active)]

(* N: a tab whose project is picked in it; it runs the source's repository. *)
OpenPicker ==
    /\ Running /\ local.active # None
    /\ shared.next < MaxTabs /\ local.next < MaxTabs
    /\ Exists(shared.current, ActiveTab.root)
    /\ LET id == IF shared.on THEN shared.next ELSE local.next
       IN /\ shared' = IF shared.on THEN Appended(shared, ActiveTab.root, TRUE) ELSE shared
          /\ local' = LocalAppended(local, id, ActiveTab.root, TRUE)
          /\ kept' = kept \cup {id}
    /\ Stay /\ sought' = None
    /\ UNCHANGED gone

(* A project is picked, in a pending tab or to take the place of another: the *)
(* tab keeps its identity.                                                    *)
SwitchRepository(root) ==
    /\ Running /\ local.active # None /\ Exists(shared.current, root)
    /\ ~ ActiveTab.pending => root # ActiveTab.root
    /\ local' = LocalReplaced(local, local.active, root)
    /\ shared' = IF shared.on
                 THEN Activated(Replaced(shared, local.active, root), local.active) ELSE shared
    /\ (IF ActiveTab.pending THEN Stay ELSE Move) /\ sought' = None
    /\ UNCHANGED <<gone, kept>>

(* Another machine is chosen in the picker. *)
SwitchMachine(m) ==
    LET folder == Folder[m] IN
    /\ shared.on /\ m \in shared.up \ {shared.current}
    /\ \/ /\ Running /\ local.active # None
          /\ IF ActiveTab.pending
             THEN Handoff(MovePending(shared, local.active, m, folder), local, m, "new")
             ELSE Handoff(shared, local, m, "current")
       \/ /\ session.at = "onboarding"
          /\ shared' = IF session.mode = "new"
                       THEN MovePending(shared, ActivePending(shared), m, folder) ELSE shared
          /\ session' = [session EXCEPT !.at = "between", !.machine = m,
                                       !.mode = IF @ = "new" THEN "new" ELSE "current"]
          /\ UNCHANGED <<local, saved>>
    /\ sought' = None
    /\ UNCHANGED <<gone, kept>>

(* The probe that each session repeats until one answers. *)
Probe(up) ==
    /\ shared.on /\ shared.probing /\ session.at \in {"session", "onboarding"}
    /\ {Host, shared.current} \subseteq up
    /\ shared' = [shared EXCEPT !.up = up, !.probing = FALSE]
    /\ UNCHANGED <<local, session, saved, gone, kept, sought>>

Vanish(m, root) ==
    /\ Cardinality(gone) < MaxGone /\ Exists(m, root) /\ session.at # "over"
    /\ gone' = gone \cup {<<m, root>>}
    /\ sought' = IF session.at = "between" THEN sought ELSE None
    /\ UNCHANGED <<shared, local, session, saved, kept>>

Context(on, m) ==
    [on |-> on, current |-> m, up |-> {Host, m}, probing |-> TRUE, entries |-> <<>>,
     active |-> None, byMachine |-> [k \in Machines |-> None], next |-> 0]

Init ==
    /\ \E on \in BOOLEAN, m \in Machines :
          /\ ~ on => m = Host
          /\ LET r == New(Context(on, m), "normal", Folder[m])
             IN shared = r[1] /\ local = r[2]
          /\ session = [at |-> "session", machine |-> m, mode |-> "none", count |-> 0, moves |-> 0]
    /\ saved \in Saved0
    /\ gone = {} /\ kept = {0} /\ sought = None /\ doubled = FALSE

(* Two tabs of one worktree, as the picker of a new tab makes them. *)
Doubled(tabs) == \E i, j \in DOMAIN tabs :
    i # j /\ tabs[i] = [tabs[j] EXCEPT !.id = tabs[i].id] /\ ~ tabs[i].pending

Step ==
    \/ \E root \in Roots : Choose(root) \/ SwitchRepository(root)
    \/ Launch \/ GiveUp \/ Quit \/ OpenPicker
    \/ \E id \in Ids(Strip) : Activate(id) \/ Close(id) \/ CloseOthers(id)
    \/ \E source, target \in Ids(Strip) : Reorder(source, target)
    \/ \E m \in Machines : SwitchMachine(m) \/ \E root \in Roots : Vanish(m, root)
    \/ \E up \in SUBSET Machines : Probe(up)

Next == (~ doubled \/ Beyond) /\ Step /\ doubled' = (doubled \/ Doubled(shared.entries'))

Spec == Init /\ [][Next]_tabsVars
-----------------------------------------------------------------------------
TypeOK ==
    /\ shared.current \in Machines /\ shared.up \subseteq Machines
    /\ \A id \in Ids(Strip) : id < shared.next \/ id < local.next
    /\ local.active \in Ids(local.tabs) \cup {None}
    /\ session.at \in {"session", "onboarding", "between", "over"}

(* As long as no worktree was open twice, the session's tabs are the listed   *)
(* ones of its machine, each once and with its root, and none is missing but  *)
(* a pending one that was left and one whose root is gone.                    *)
TabsAgree ==
    Running /\ shared.on /\ ~ doubled =>
        /\ \A t \in ToSet(local.tabs) : \E e \in ToSet(shared.entries) :
              /\ e.id = t.id /\ e.machine = shared.current
              /\ e.root = t.root /\ e.pending = t.pending
        /\ \A e \in ToSet(shared.entries) :
              e.machine = shared.current =>
                  e.id \in Ids(local.tabs) \/ e.pending \/ ~ Exists(e.machine, e.root)
        /\ IsInjective([i \in DOMAIN local.tabs |-> local.tabs[i].id])

(* The tab that is shown is the one that is marked in the strip, unless that  *)
(* is on a machine that turned out not to be reachable.                       *)
ShownIsMarked ==
    Running /\ shared.on =>
        \/ shared.active = local.active
        \/ shared.active # None /\ Get(shared, shared.active).machine \notin shared.up

(* No switch, restart or reordering loses a tab: whatever was opened is       *)
(* listed, once, until it is closed or its root is gone.                      *)
TabsAreKept ==
    /\ session.at # "over" =>
          kept \subseteq IF shared.on THEN Ids(shared.entries) ELSE Ids(local.tabs)
    /\ IsInjective([i \in DOMAIN shared.entries |-> shared.entries[i].id])

(* A switch arrives: the session that starts for a tab shows it, unless its   *)
(* root is gone, a worktree was open twice, or it is a pending tab alone on   *)
(* its machine: that starts with the choice of a project.                     *)
SoughtIsShown ==
    session.at \in {"session", "onboarding"} /\ sought \in kept /\ ~ doubled =>
        \/ Running /\ local.active = sought
        \/ ~ Exists(shared.current, Get(shared, sought).root)
        \/ Get(shared, sought).pending /\ session.at = "onboarding"

(* A project selected for a new tab activates its existing tab when the exact *)
(* worktree root is already open on that machine.                             *)
PickActivatesExisting ==
    [][Running /\ local.active # None /\ ActiveTab.pending /\ local'.active = local.active
       /\ ~ (\E t \in ToSet(local'.tabs) : t.id = local.active /\ t.pending) =>
           \A t \in ToSet(local.tabs) :
              ~ t.pending => t.root # local'.tabs[At(local'.tabs, local.active)].root]_tabsVars
=============================================================================
