----------------------------- MODULE HandoffRelay -----------------------------
(***************************************************************************)
(* What a session prints is relayed to the terminal byte by byte; a frame  *)
(* between Prefix and Suffix is not shown but decoded as the session's     *)
(* context.  Output may end anywhere, also within a frame or its prefix.   *)
(***************************************************************************)
EXTENDS Naturals, Sequences, SequencesExt

CONSTANTS
    Prefix,     \* HANDOFF_CONTEXT_PREFIX; its first byte occurs nowhere else in it
    Suffix,     \* HANDOFF_CONTEXT_SUFFIX
    Bytes,      \* the bytes a session may print
    MaxBytes    \* bound on what it prints

VARIABLES
    input,      \* what was read
    output,     \* what was written
    candidate,  \* how much of the prefix was matched and held back
    frame,      \* the frame that is being read, if any
    context,    \* the last frame that was decoded
    ended       \* whether the session closed its output

relayVars == <<input, output, candidate, frame, context, ended>>

None == [open |-> FALSE, data |-> <<>>]
Frame(data) == [open |-> TRUE, data |-> data]

Init ==
    /\ input = <<>> /\ output = <<>>
    /\ candidate = 0 /\ frame = None /\ context = None /\ ended = FALSE

Read(byte) == ~ ended /\ Len(input) < MaxBytes /\ input' = Append(input, byte)

(* A frame that is not a context clears the one before it. *)
InFrame(byte) ==
    /\ frame.open /\ Read(byte)
    /\ IF byte = Suffix
       THEN \E decodes \in BOOLEAN :
            context' = (IF decodes THEN Frame(frame.data) ELSE None) /\ frame' = None
       ELSE frame' = Frame(Append(frame.data, byte)) /\ UNCHANGED context
    /\ UNCHANGED <<output, candidate, ended>>

Matches(byte) ==
    /\ ~ frame.open /\ byte = Prefix[candidate + 1] /\ Read(byte)
    /\ IF candidate + 1 = Len(Prefix)
       THEN candidate' = 0 /\ frame' = Frame(<<>>)
       ELSE candidate' = candidate + 1 /\ UNCHANGED frame
    /\ UNCHANGED <<output, context, ended>>

(* Mutant: the held bytes are forgotten. *)
MismatchForgets(byte) ==
    /\ ~ frame.open /\ byte # Prefix[candidate + 1] /\ Read(byte)
    /\ IF byte = Prefix[1]
       THEN candidate' = 1 /\ UNCHANGED output
       ELSE candidate' = 0 /\ output' = Append(output, byte)
    /\ UNCHANGED <<frame, context, ended>>

(* What was held back is written; the byte may begin the prefix anew. *)
Mismatch(byte) ==
    /\ ~ frame.open /\ byte # Prefix[candidate + 1] /\ Read(byte)
    /\ LET held == output \o SubSeq(Prefix, 1, candidate) IN
       IF byte = Prefix[1]
       THEN candidate' = 1 /\ output' = held
       ELSE candidate' = 0 /\ output' = Append(held, byte)
    /\ UNCHANGED <<frame, context, ended>>

(* An incomplete frame is shown after all. *)
End ==
    /\ ~ ended /\ ended' = TRUE
    /\ output' = IF frame.open THEN output \o Prefix \o frame.data
                 ELSE output \o SubSeq(Prefix, 1, candidate)
    /\ UNCHANGED <<input, candidate, frame, context>>

Next == End \/ \E byte \in Bytes : InFrame(byte) \/ Matches(byte) \/ Mismatch(byte)

Spec == Init /\ [][Next]_relayVars
-----------------------------------------------------------------------------
(* The input without its complete frames, found from the left. *)
StartsAt(s, t, i) == i + Len(t) - 1 <= Len(s) /\ SubSeq(s, i, i + Len(t) - 1) = t

Shown(s) ==
    LET shown[i \in 1 .. Len(s) + 1] ==
        IF i > Len(s) THEN <<>>
        ELSE LET after == i + Len(Prefix)
                 ends  == {j \in after .. Len(s) : s[j] = Suffix} IN
             IF StartsAt(s, Prefix, i) /\ ends # {}
             THEN shown[1 + CHOOSE j \in ends : \A k \in ends : j <= k]
             ELSE <<s[i]>> \o shown[i + 1] IN
    shown[1]

TypeOK ==
    /\ input \in Seq(Bytes) /\ Len(input) <= MaxBytes
    /\ candidate \in 0 .. Len(Prefix) - 1
    /\ frame.open => candidate = 0

(* The terminal gets what the session printed without the complete frames,    *)
(* and nothing else is ever missing or out of order, wherever the output was  *)
(* split; what is held back is a prefix of what follows.                      *)
OutputIsRelayed ==
    /\ ended => output = Shown(input)
    /\ ~ ended =>
          Shown(input) = output \o (IF frame.open THEN Prefix \o frame.data
                                    ELSE SubSeq(Prefix, 1, candidate))
=============================================================================
