---------------------------- MODULE RemoteArguments ----------------------------
(***************************************************************************)
(* The arguments of the sessions on other machines, made from those of the *)
(* outer process: transport options are taken out, --folder becomes --path,*)
(* and after a switch the folder is the new machine's.                     *)
(*                                                                         *)
(* A command line is a sequence of options and words.  An option carries   *)
(* its value in the same word, in the next one, or has none.               *)
(***************************************************************************)
EXTENDS Naturals, Sequences, SequencesExt, FiniteSets

CONSTANTS
    Lines       \* the command lines: sequences of arguments

VARIABLES line, folder, sent

argumentVars == <<line, folder, sent>>

Option(name, value) == [kind |-> "option", name |-> name, value |-> value]
Word(word)          == [kind |-> "word", name |-> "none", value |-> word]
Transport == {"--remote", "--ssh-control-path"}
PathOptions == {"--path", "-C"}

(* An option whose value is the next word takes it along. *)
Forwarded(args) ==
    LET kept == SelectSeq(args, LAMBDA a : a.kind = "word" \/ a.name \notin Transport) IN
    [i \in DOMAIN kept |->
        IF kept[i].name = "--folder" THEN Option("--path", kept[i].value) ELSE kept[i]]

Implicit(args, path) ==
    <<Word("tui"), Word(path)>>
    \o SelectSeq(Forwarded(args), LAMBDA a : a.name \notin PathOptions)

IsWord(a, w) == a.kind = "word" /\ a.value = w

(* Mutant: whatever follows tui is kept. *)
SwitchedKeepsWord(args, path) ==
    LET all == Forwarded(args) IN
    IF \A i \in DOMAIN all : ~ IsWord(all[i], "tui") THEN Implicit(all, path)
    ELSE LET tui == CHOOSE i \in DOMAIN all :
                        IsWord(all[i], "tui") /\ \A j \in 1 .. i - 1 : ~ IsWord(all[j], "tui") IN
         <<Word("tui"), Word(path)>> \o SubSeq(all, tui + 1, Len(all))

(* After tui, a first argument that is no option is taken for the old path. *)
Switched(args, path) ==
    LET all == Forwarded(args) IN
    IF \A i \in DOMAIN all : ~ IsWord(all[i], "tui") THEN Implicit(all, path)
    ELSE LET tui  == CHOOSE i \in DOMAIN all :
                         IsWord(all[i], "tui") /\ \A j \in 1 .. i - 1 : ~ IsWord(all[j], "tui")
             rest == SubSeq(all, tui + 1, Len(all)) IN
         <<Word("tui"), Word(path)>>
         \o (IF rest # <<>> /\ rest[1].kind = "word" THEN Tail(rest) ELSE rest)

Init == line \in Lines /\ folder = "old" /\ sent = line

(* The first session gets the forwarded line, every later one the switched.   *)
Forward ==
    /\ folder = "old" /\ sent = line
    /\ sent' = Forwarded(line)
    /\ UNCHANGED <<line, folder>>

Switch ==
    /\ \E next \in {"new", "newer"} :
          /\ folder' = next
          /\ sent' = Switched(line, next)
    /\ UNCHANGED line

Next == Forward \/ Switch

Spec == Init /\ [][Next]_argumentVars
-----------------------------------------------------------------------------
Words(args)   == SelectSeq(args, LAMBDA a : a.kind = "word")
Options(args) == {args[i] : i \in {j \in DOMAIN args : args[j].kind = "option"}}

(* Every option but those of the transport and of the path, wherever it is.   *)
Carried(args) == {o \in Options(args) : o.name \notin Transport \cup PathOptions \cup {"--folder"}}

(* Whether the line has tui, and whether it is first, then the path if there  *)
(* is one, and then only options that say nothing of the path.                *)
IsTui(args) == \E i \in DOMAIN args : IsWord(args[i], "tui")
PathFirst(args) ==
    IsTui(args) =>
        /\ IsWord(args[1], "tui")
        /\ \A i \in 3 .. Len(args) : args[i].kind = "option"
        /\ \A o \in Options(args) : o.name \notin PathOptions

(* Sessions on another machine are started there, in the folder of that        *)
(* machine and with the options of the first: for command lines without tui,  *)
(* or with tui first and the path right after it.                             *)
SessionsKeepTheirOptions ==
    /\ \A o \in Options(sent) : sent # line => o.name \notin Transport
    /\ folder # "old" /\ PathFirst(Forwarded(line)) =>
          /\ Words(sent) = <<Word("tui"), Word(folder)>>
          /\ Options(sent) = Carried(line)
=============================================================================
