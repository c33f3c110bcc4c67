---------------------------- MODULE MachineHandoff ----------------------------
(***************************************************************************)
(* One terminal handed from session to session.  The outer process either  *)
(* runs a session itself, or starts one by ssh; when the user switches to  *)
(* another machine the session ends with a code that names the machine,    *)
(* leaving the terminal as it is, and the outer process starts the next    *)
(* session, which inherits the terminal.                                   *)
(*                                                                         *)
(* The terminal is cooked or raw and has modes.  Raw mode belongs to the   *)
(* local terminal: crossterm saves what it found in each process.  Modes   *)
(* are set and reset by what a session prints, from wherever it runs.      *)
(***************************************************************************)
EXTENDS Integers, Sequences, FiniteSets

CONSTANTS
    HandoffBounds  \* how the user began (local or remote), the machines listed, the
                   \* first of which is the host, whether the mouse is captured, and
                   \* bounds on the switches and on the toggles of the mouse

VARIABLES
    tty,      \* the terminal, and what each process remembers about it
    outer,    \* the process that owns the terminal
    session,  \* the session that is running, or ran last
    chosen    \* the machine and mode the user chose last

handoffVars == <<tty, outer, session, chosen>>

(* switch_exit_code and switch_request: a switch is an exit code.              *)
SwitchModes == {"current", "new", "activate"}
MAX_SSH_MACHINES == 16
SwitchBase(mode) == CASE mode = "current" -> 80 [] mode = "new" -> 96 [] mode = "activate" -> 112

SwitchExitCode(index, mode) == SwitchBase(mode) + index

NoRequest == [index |-> 0, mode |-> "none"]
IsSwitch(code, mode) == code - SwitchBase(mode) \in 0 .. MAX_SSH_MACHINES - 1

(* Mutant: whatever is not below the first base is a switch of that mode. *)
SwitchRequestFirst(code) ==
    IF IsSwitch(code, "current") THEN [index |-> code - 80, mode |-> "current"] ELSE NoRequest

SwitchRequest(code) ==
    IF \E m \in SwitchModes : IsSwitch(code, m)
    THEN LET m == CHOOSE m \in SwitchModes : IsSwitch(code, m) IN
         [index |-> code - SwitchBase(m), mode |-> m]
    ELSE NoRequest

Count == outer.bounds.machines
Listed(index) == index \in 0 .. Count - 1
IsLocal(index) == index = 0
-----------------------------------------------------------------------------
(* What a process does to the terminal. *)

Clean == [handoff |-> FALSE, entered |-> FALSE, keyboard |-> FALSE]
Modes == {"screen", "paste", "mouse", "keyboard"}

(* Only a process on this machine reaches the terminal's attributes. *)
Enabled(t, p) ==
    IF p = "remote" \/ t.saved[p] # "none" THEN t
    ELSE [t EXCEPT !.saved[p] = t.raw, !.raw = "raw"]
Disabled(t, p) ==
    IF p = "remote" \/ t.saved[p] = "none" THEN t
    ELSE [t EXCEPT !.raw = t.saved[p], !.saved[p] = "none"]

Entered(t, p, keyboard) == [t EXCEPT !.flags[p].entered = TRUE, !.flags[p].keyboard = keyboard]
Reset(t, modes) == [t EXCEPT !.modes = @ \ modes]

(* Mutant: leaves the keyboard enhancement pushed. *)
RestoreTerminalKeyboard(t, p) ==
    LET handoff == IF t.flags[p].handoff THEN Disabled(t, p) ELSE t
        modes   == {"screen", "paste", "mouse"} IN
    [(IF t.flags[p].entered THEN Reset(Disabled(handoff, p), modes) ELSE handoff)
        EXCEPT !.flags[p] = Clean]

RestoreTerminal(t, p) ==
    LET handoff == IF t.flags[p].handoff THEN Disabled(t, p) ELSE t
        modes   == IF t.flags[p].keyboard THEN Modes ELSE Modes \ {"keyboard"} IN
    [(IF t.flags[p].entered THEN Reset(Disabled(handoff, p), modes) ELSE handoff)
        EXCEPT !.flags[p] = Clean]

RestoreInherited(t) == Reset(Disabled(t, "outer"), Modes)

(* HandoffTerminalGuard *)
HandoffEntered(t) == [Enabled(t, "outer") EXCEPT !.flags["outer"].handoff = TRUE]
HandoffDropped(t) ==
    IF t.flags["outer"].handoff
    THEN [Disabled(t, "outer") EXCEPT !.flags["outer"].handoff = FALSE] ELSE t
-----------------------------------------------------------------------------
Session(process, index, inherited) ==
    [at |-> "starting", process |-> process, index |-> index, inherited |-> inherited,
     mouse |-> FALSE, code |-> 0, ended |-> "not"]

Init ==
    /\ \E b \in HandoffBounds :
          outer = [at |-> "launch", bounds |-> b, switched |-> FALSE, switches |-> 0,
                   toggles |-> 0, next |-> IF b.first = "local" THEN 0 ELSE 1]
    /\ tty = [raw |-> "cooked", modes |-> {},
              saved |-> [p \in {"outer", "inner"} |-> "none"],
              flags |-> [p \in {"outer", "inner", "remote"} |-> Clean]]
    /\ session = [Session("outer", 0, FALSE) EXCEPT !.at = "over", !.ended = "none"]
    /\ chosen = [index |-> outer.next, mode |-> "none"]

(* terminal_launch, and the start of run_terminal_loop for a remote target. *)
Launch ==
    /\ outer.at = "launch"
    /\ IF outer.bounds.first = "local"
       THEN /\ session' = Session("outer", 0, FALSE)
            /\ outer' = [outer EXCEPT !.at = "waiting"]
            /\ UNCHANGED tty
       ELSE /\ tty' = HandoffEntered(tty)
            /\ outer' = [outer EXCEPT !.at = "spawn"]
            /\ UNCHANGED session
    /\ UNCHANGED chosen

(* ssh_status or local_status; the local session always inherits. *)
Spawn ==
    /\ outer.at = "spawn"
    /\ session' = Session(IF IsLocal(outer.next) /\ outer.switched THEN "inner" ELSE "remote",
                          outer.next, outer.switched)
    /\ tty' = [tty EXCEPT !.saved["inner"] = "none", !.flags["inner"] = Clean,
                          !.flags["remote"] = Clean]
    /\ outer' = [outer EXCEPT !.at = "waiting"]
    /\ UNCHANGED chosen

(* ssh or the own binary cannot be started: the loop ends with an error. *)
SpawnFails ==
    /\ outer.at = "spawn"
    /\ tty' = HandoffDropped(tty)
    /\ outer' = [outer EXCEPT !.at = "gone"]
    /\ UNCHANGED <<session, chosen>>
-----------------------------------------------------------------------------
(* TerminalGuard *)

Ends(how, code) == session' = [session EXCEPT !.at = "over", !.ended = how, !.code = code]
Printed(t) == [t EXCEPT !.modes = @ \cup {"screen", "paste"}]

(* enter, when nothing was inherited: a failure after raw mode rolls back. *)
Enter ==
    /\ session.at = "starting" /\ ~ session.inherited
    /\ LET p == session.process
           raw == Entered(Enabled(tty, p), p, FALSE)
           all == IF outer.bounds.mouse
                  THEN [Printed(raw) EXCEPT !.modes = @ \cup {"mouse"}] ELSE Printed(raw) IN
       \/ UNCHANGED tty /\ Ends("error", 1)
       \/ \E t \in {raw, Printed(raw), all} :
             tty' = RestoreTerminal(t, p) /\ Ends("error", 1)
       \/ \E enhanced \in BOOLEAN :
          LET t == IF enhanced THEN [Entered(all, p, TRUE) EXCEPT !.modes = @ \cup {"keyboard"}]
                   ELSE all IN
          \/ /\ tty' = t
             /\ session' = [session EXCEPT !.at = "running", !.mouse = outer.bounds.mouse]
          \/ tty' = RestoreTerminal(t, p) /\ Ends("error", 1)
    /\ UNCHANGED <<outer, chosen>>

(* enter, when the terminal was inherited: nothing rolls back. *)
Inherit ==
    /\ session.at = "starting" /\ session.inherited
    /\ LET p == session.process
           raw == Entered(Enabled(tty, p), p, TRUE) IN
       \/ UNCHANGED tty /\ Ends("error", 1)
       \/ tty' = raw /\ Ends("error", 1)
       \/ /\ tty' = raw
          /\ session' = [session EXCEPT !.at = "running", !.mouse = outer.bounds.mouse]
    /\ UNCHANGED <<outer, chosen>>

(* set_mouse_capture, after the key m; the print may fail. *)
ToggleMouse ==
    /\ session.at = "running" /\ outer.toggles < outer.bounds.toggles
    /\ outer' = [outer EXCEPT !.toggles = @ + 1]
    /\ \/ UNCHANGED <<tty, session>>
       \/ /\ tty' = [tty EXCEPT !.modes = IF session.mouse THEN @ \ {"mouse"} ELSE @ \cup {"mouse"}]
          /\ session' = [session EXCEPT !.mouse = ~ @]
    /\ UNCHANGED chosen

(* The session quits, fails or panics: guard or panic hook restore; an abort  *)
(* leaves no code.                                                            *)
Quit ==
    /\ session.at = "running"
    /\ tty' = RestoreTerminal(tty, session.process)
    /\ \/ Ends("quit", 0) \/ Ends("error", 1) \/ Ends("panic", -1)
    /\ UNCHANGED <<outer, chosen>>

(* The connection breaks, or the process is killed: nothing is printed.       *)
Vanish ==
    /\ session.at \in {"starting", "running"} /\ session.process # "outer"
    /\ Ends("vanished", IF session.process = "remote" THEN 255 ELSE -1)
    /\ UNCHANGED <<tty, outer, chosen>>

(* The shell on the machine finds no quinjet, or none it may execute. *)
NotFound ==
    /\ session.at = "starting" /\ session.process = "remote"
    /\ \E code \in {126, 127} : Ends("missing", code)
    /\ UNCHANGED <<tty, outer, chosen>>

(* The user switches: the guard preserves the terminal.  A session that was   *)
(* started by the outer process sends its context first, and if it cannot,    *)
(* fails without restoring.                                                   *)
Switch ==
    /\ session.at = "running" /\ outer.switches < outer.bounds.switches
    /\ \E i \in 0 .. Count - 1, m \in SwitchModes :
          /\ i # session.index
          /\ chosen' = [index |-> i, mode |-> m]
          /\ \/ Ends("switch", SwitchExitCode(i, m))
             \/ session.process # "outer" /\ Ends("unsent", 1)
    /\ outer' = [outer EXCEPT !.switches = @ + 1]
    /\ UNCHANGED tty
-----------------------------------------------------------------------------
(* terminal_launch::exit_code, after the first session of a local start. *)
Continue ==
    /\ outer.at = "waiting" /\ session.at = "over" /\ session.process = "outer"
    /\ IF session.ended = "switch"
       THEN \/ /\ tty' = HandoffEntered(tty)
               /\ outer' = [outer EXCEPT !.at = "spawn", !.switched = TRUE, !.next = chosen.index]
            \/ UNCHANGED tty /\ outer' = [outer EXCEPT !.at = "gone"]
       ELSE UNCHANGED tty /\ outer' = [outer EXCEPT !.at = "exited"]
    /\ UNCHANGED <<session, chosen>>

(* run_terminal_loop, after a session it started.  Any code that decodes to a *)
(* machine in the list is a switch; else the terminal is restored if a switch *)
(* came before.                                                               *)
Decide ==
    /\ outer.at = "waiting" /\ session.at = "over" /\ session.process # "outer"
    /\ LET request == SwitchRequest(session.code) IN
       IF request # NoRequest /\ Listed(request.index)
       THEN /\ outer' = [outer EXCEPT !.at = "spawn", !.switched = TRUE, !.next = request.index]
            /\ UNCHANGED tty
       ELSE /\ outer' = [outer EXCEPT !.at = "exited"]
            /\ tty' = HandoffDropped(IF outer.switched THEN RestoreInherited(tty) ELSE tty)
    /\ UNCHANGED <<session, chosen>>

Next == \/ Launch \/ Spawn \/ SpawnFails \/ Continue \/ Decide
        \/ Enter \/ Inherit \/ ToggleMouse \/ Quit \/ Vanish \/ NotFound \/ Switch

Spec == Init /\ [][Next]_handoffVars
-----------------------------------------------------------------------------
TypeOK ==
    /\ tty.raw \in {"cooked", "raw"} /\ tty.modes \subseteq Modes
    /\ outer.at \in {"launch", "spawn", "waiting", "exited", "gone"}
    /\ session.at \in {"starting", "running", "over"}
    /\ Listed(outer.next) /\ Listed(session.index)
    /\ chosen.mode \in SwitchModes \cup {"none"}

(* A remote session that was the first one and ended without restoring. *)
LeftByTheFirst ==
    session.process = "remote" /\ ~ outer.switched /\ session.ended \in {"vanished", "unsent"}

(* However the last session ended, the terminal is as the user had it, with   *)
(* two exceptions the code does not care for: the next session could not be   *)
(* started, or the first remote session broke off.                            *)
TerminalIsRestored ==
    /\ outer.at = "exited" /\ ~ LeftByTheFirst => tty.raw = "cooked" /\ tty.modes = {}
    /\ outer.at = "gone" => tty.raw = "cooked" \/ tty.saved["outer"] = "cooked"

(* A session runs on the machine that was chosen last; and the outer process  *)
(* ends only if no switch was asked for, or its message could not be sent.    *)
SwitchesAreFollowed ==
    /\ session.at = "running" => session.index = chosen.index
    /\ outer.at = "exited" => session.ended # "switch"
=============================================================================
