----------------------------- MODULE BoundedChild -----------------------------
(***************************************************************************)
(* Running git, gh or a decoder as a child process with bounds on what is  *)
(* kept of its output.  The parent writes the input, if there is any; then *)
(* a thread drains stderr while the parent itself reads stdout; beyond the *)
(* bound the child is killed; the parent waits for the child, then for the *)
(* thread.                                                                 *)
(*                                                                         *)
(* Pipes carry units of data and hold Pipe of them.  The child commits to  *)
(* one operation at a time and blocks on it.  It is external: which        *)
(* operations it does in which order is its script's.                      *)
(***************************************************************************)
EXTENDS Naturals, Sequences, FiniteSets

CONSTANTS
    Pipe,       \* what a pipe holds
    Limit,      \* units of stdout, or of one record, that are kept
    ErrorLimit, \* units of stderr that are kept
    Scripts     \* children: the reader (collect or records), the units of input,
                \* whether all input is read first, the lengths of the records
                \* written, the units of stderr, the exit status, and whether a
                \* process the child started keeps its stderr open

VARIABLES
    child,      \* the script, what is left of it, what is being done, and whether it lives
    pipes,      \* the units in each pipe
    parent,     \* where the parent is, what it wrote and kept, what it returned
    drainer     \* the thread that reads stderr

childVars == <<child, pipes, parent, drainer>>

Script == child.script
Total(s) == LET sum[n \in 0 .. Len(s)] == IF n = 0 THEN 0 ELSE sum[n - 1] + s[n] IN sum[Len(s)]
EndOfRecord(n) == \E k \in 1 .. Len(Script.records) : n = Total(SubSeq(Script.records, 1, k))

Init ==
    /\ \E s \in Scripts :
          child = [script |-> s, state |-> "running", doing |-> "nothing",
                   read |-> 0, out |-> 0, err |-> 0, held |-> s.grandchild]
    /\ pipes = [in |-> 0, out |-> 0, err |-> 0]
    /\ parent = [at |-> "write", written |-> 0, kept |-> 0, record |-> 0, seen |-> 0,
                 cut |-> FALSE, result |-> "none"]
    /\ drainer = [state |-> "none", kept |-> 0, cut |-> FALSE]

(* Who may still write to, or read from, a pipe. *)
StdinOpen  == parent.at = "write"
StdoutRead == parent.at \in {"write", "read"}
StderrHeld == child.state = "running" \/ child.held

Killed == IF child.state = "running" THEN [child EXCEPT !.state = "killed", !.doing = "nothing"]
          ELSE child
-----------------------------------------------------------------------------
(* The child, external. *)

Left(op) ==
    CASE op = "read"  -> child.read < Script.input
      [] op = "out"   -> /\ child.out < Total(Script.records)
                         /\ Script.readsFirst => child.read = Script.input
      [] op = "err"   -> child.err < Script.err

Choose ==
    /\ child.state = "running" /\ child.doing = "nothing"
    /\ \E op \in {"read", "out", "err"} :
          Left(op) /\ child' = [child EXCEPT !.doing = op]
    /\ UNCHANGED <<pipes, parent, drainer>>

(* At the end of its input the child reads no more, whatever it expected. *)
ChildReads ==
    /\ child.state = "running" /\ child.doing = "read"
    /\ \/ /\ pipes.in > 0
          /\ pipes' = [pipes EXCEPT !.in = @ - 1]
          /\ child' = [child EXCEPT !.doing = "nothing", !.read = @ + 1]
       \/ /\ pipes.in = 0 /\ ~ StdinOpen
          /\ child' = [child EXCEPT !.doing = "nothing", !.read = Script.input]
          /\ UNCHANGED pipes
    /\ UNCHANGED <<parent, drainer>>

(* Writing to a pipe that nobody reads ends the child. *)
ChildWrites(op) ==
    /\ child.state = "running" /\ child.doing = op
    /\ \/ /\ op = "out" => StdoutRead
          /\ pipes[op] < Pipe
          /\ pipes' = [pipes EXCEPT ![op] = @ + 1]
          /\ child' = [child EXCEPT !.doing = "nothing", ![op] = @ + 1]
       \/ /\ op = "out" /\ ~ StdoutRead
          /\ child' = [child EXCEPT !.state = "failed", !.doing = "nothing"]
          /\ UNCHANGED pipes
    /\ UNCHANGED <<parent, drainer>>

(* It may leave input unread, but writes all of its output first. *)
ChildExits ==
    /\ child.state = "running" /\ child.doing = "nothing"
    /\ child.out = Total(Script.records) \/ Script.status = "failed"
    /\ child.err = Script.err
    /\ child' = [child EXCEPT !.state = Script.status]
    /\ UNCHANGED <<pipes, parent, drainer>>

GrandchildExits ==
    /\ child.held
    /\ child' = [child EXCEPT !.held = FALSE]
    /\ UNCHANGED <<pipes, parent, drainer>>

Child == \/ Choose \/ ChildReads \/ ChildExits \/ GrandchildExits
         \/ \E op \in {"out", "err"} : ChildWrites(op)
-----------------------------------------------------------------------------
(* run_bounded_command_inner and read_records *)

(* write_all, before anything is read. *)
Write ==
    /\ parent.at = "write" /\ parent.written < Script.input
    /\ \/ /\ child.state = "running" /\ pipes.in < Pipe
          /\ pipes' = [pipes EXCEPT !.in = @ + 1]
          /\ parent' = [parent EXCEPT !.written = @ + 1]
          /\ UNCHANGED child
       \/ /\ child.state # "running"
          /\ child' = Killed
          /\ parent' = [parent EXCEPT !.at = "done", !.result = "error"]
          /\ UNCHANGED pipes
    /\ UNCHANGED drainer

(* Mutant: stderr is read after stdout. *)
StartDrainerLate ==
    /\ parent.at = "write" /\ parent.written = Script.input
    /\ parent' = [parent EXCEPT !.at = "read"]
    /\ UNCHANGED <<child, pipes, drainer>>

(* Stdin is closed and the thread started. *)
StartDrainer ==
    /\ parent.at = "write" /\ parent.written = Script.input
    /\ parent' = [parent EXCEPT !.at = "read"]
    /\ drainer' = [drainer EXCEPT !.state = "reading"]
    /\ UNCHANGED <<child, pipes>>

(* One unit of stdout.  A reader of records begins anew after each, and gives *)
(* a record that is too long up.                                              *)
ReadOut ==
    /\ parent.at = "read" /\ pipes.out > 0
    /\ pipes' = [pipes EXCEPT !.out = @ - 1]
    /\ IF parent.record = Limit
       THEN /\ parent' = [parent EXCEPT !.at = "wait", !.cut = TRUE]
            /\ child' = Killed
       ELSE /\ parent' = [parent EXCEPT
                   !.kept = @ + 1, !.seen = @ + 1,
                   !.record = IF Script.reader = "records" /\ EndOfRecord(parent.seen + 1)
                              THEN 0 ELSE @ + 1]
            /\ UNCHANGED child
    /\ UNCHANGED drainer

EndOfOut ==
    /\ parent.at = "read" /\ pipes.out = 0 /\ child.state # "running"
    /\ parent' = [parent EXCEPT !.at = "wait"]
    /\ UNCHANGED <<child, pipes, drainer>>

(* Reading fails: the child is killed, and reported after both are joined. *)
ReadFails ==
    /\ parent.at = "read" /\ Script.readFails
    /\ parent' = [parent EXCEPT !.at = "wait", !.result = "error"]
    /\ child' = Killed
    /\ UNCHANGED <<pipes, drainer>>

WaitChild ==
    /\ parent.at = "wait" /\ child.state # "running"
    /\ parent' = [parent EXCEPT !.at = "join"]
    /\ UNCHANGED <<child, pipes, drainer>>

(* read_and_drain: what exceeds the bound is read and dropped. *)
Drain ==
    /\ drainer.state = "reading"
    /\ \/ /\ pipes.err > 0
          /\ pipes' = [pipes EXCEPT !.err = @ - 1]
          /\ drainer' = IF drainer.kept < ErrorLimit THEN [drainer EXCEPT !.kept = @ + 1]
                        ELSE [drainer EXCEPT !.cut = TRUE]
       \/ /\ pipes.err = 0 /\ ~ StderrHeld
          /\ drainer' = [drainer EXCEPT !.state = "ended"]
          /\ UNCHANGED pipes
    /\ UNCHANGED <<child, parent>>

(* A reader of records answers whether all records were read and the child    *)
(* succeeded; the other returns the status and what it kept.                  *)
Result ==
    CASE parent.result = "error"                               -> "error"
      [] Script.reader = "records" /\ parent.cut               -> "incomplete"
      [] Script.reader = "records" /\ child.state # "succeeded" -> "incomplete"
      [] OTHER                                                 -> child.state

Join ==
    /\ parent.at = "join" /\ drainer.state = "ended"
    /\ parent' = [parent EXCEPT !.at = "done", !.result = Result]
    /\ UNCHANGED <<child, pipes, drainer>>

Next == \/ Child \/ Write \/ StartDrainer \/ ReadOut \/ EndOfOut \/ ReadFails
        \/ WaitChild \/ Drain \/ Join

Spec == Init /\ [][Next]_childVars
-----------------------------------------------------------------------------
TypeOK ==
    /\ pipes \in [{"in", "out", "err"} -> 0 .. Pipe]
    /\ child.state \in {"running", "succeeded", "failed", "killed"}
    /\ parent.at \in {"write", "read", "wait", "join", "done"}
    /\ parent.kept \in 0 .. Total(Script.records)
    /\ drainer.kept \in 0 .. ErrorLimit

(* A command that is answered as complete returns all that the child wrote,   *)
(* with the child's own exit status and the beginning of its stderr; one that *)
(* is cut returns what fits and never passes for complete.                    *)
AnswersAreComplete ==
    /\ Script.reader = "collect" => parent.kept <= Limit
    /\ parent.at = "done" /\ parent.result # "error" =>
          /\ child.state # "running"
          /\ ~ parent.cut => parent.kept = child.out
          /\ parent.cut => \E k \in DOMAIN Script.records : Script.records[k] > Limit
          /\ parent.result = "succeeded" /\ ~ parent.cut =>
                child.out = Total(Script.records) /\ child.state = "succeeded"
          /\ ~ child.held /\ child.state # "killed" =>
                drainer.cut = (child.err > ErrorLimit)

(* As long as the parent has not returned, it, the thread, the child or a     *)
(* process that keeps the child's stderr can go on.  There is one way to      *)
(* wait for ever: the parent still writes an input that is longer than the    *)
(* pipe, and the child writes more than a pipe holds before it has read it.   *)
WritesBeforeItRead ==
    /\ Script.input > Pipe
    /\ Script.err > Pipe \/ (~ Script.readsFirst /\ Total(Script.records) > Pipe)

SomeoneMoves ==
    parent.at # "done" /\ ~ ENABLED Next =>
        /\ WritesBeforeItRead
        /\ parent.at = "write" /\ child.read < Script.input
        /\ child.doing \in {"out", "err"} /\ pipes[child.doing] = Pipe
=============================================================================
