------------------------- MODULE StackInspectorProofs -------------------------
(***************************************************************************)
(* The inspector of a stack, for any number of members, keys, polls,       *)
(* changes and failures: its types, what its panes wait for, what they     *)
(* show, and that they keep it.                                            *)
(*                                                                         *)
(* Every handler is first sorted by what it does to the three things that  *)
(* read: each stream (StreamMoves, StreamTold), the lookup (LookupGoes)    *)
(* and the browser (BrowserGoes).  The invariants then follow from these   *)
(* and from what the lanes do with commands.                               *)
(***************************************************************************)
EXTENDS StackInspector, ServedLanesProofs

Names      == Member \cup {NoMember}
Generation == 0 .. Wrap - 1

LookupPane == [loading : BOOLEAN, stack_loading : BOOLEAN, refresh : BOOLEAN,
               generation : Generation]
Inspector  == [selected : Names, tip : Names, section : Sections, sync_due : BOOLEAN]
Stream     == [loading : BOOLEAN, again : BOOLEAN, generation : Generation, shows : Names]
Browser    == [owner : Names, loading : BOOLEAN, introduced : BOOLEAN, shows : Names,
               generation : Generation]

(* The read of a stream. *)
Reading(s, g, m) == [kind |-> KindOf[s], generation |-> g, member |-> m]

(* What the clearing of a stream does to it, when m was read and n is.        *)
Clears(st, mid, m, n) ==
    \/ m = n /\ mid = st
    \/ (m # n \/ n = NoMember) /\ mid = Forget(st)

(* What a handler does to a stream that is not told anything.                 *)
StreamMoves(s, st, new, m, n, sent) ==
    /\ new \in Stream /\ (new.again => new.loading)
    /\ new.generation \in {st.generation, Following(st.generation),
                           Following(Following(st.generation))}
    /\ new.generation = st.generation => m = n
    /\ new.loading => \/ Reading(s, new.generation, n) \in sent
                      \/ st.loading /\ m = n /\ new.generation = st.generation
    /\ new.shows = NoMember \/ (m = n /\ new.shows = st.shows)
    /\ m = n /\ st.shows # NoMember => new.shows # NoMember
    /\ n = NoMember => new.shows = NoMember /\ ~ new.loading
    /\ \A c \in sent : c.kind = KindOf[s] => c = Reading(s, new.generation, n)
                                             /\ new.generation # st.generation

(* ... and to the one that the answer is for, whose member stays. *)
StreamTold(s, st, new, m, sent, a) ==
    /\ new \in Stream /\ (new.again => new.loading)
    /\ new.generation \in {st.generation, Following(st.generation)}
    /\ new.loading => Reading(s, new.generation, m) \in sent
    /\ \/ new.shows = st.shows
       \/ new.shows = a.seen /\ (s = "detail" => SameHead(a.seen, m))
    /\ m # NoMember
    /\ \A c \in sent : c.kind = KindOf[s] => c = Reading(s, new.generation, m)
                                             /\ new.generation # st.generation
-----------------------------------------------------------------------------
(* Kinds, generations, members and stacks. *)

LEMMA StreamKindsDiffer ==
    /\ \A s \in Streams : /\ KindOf[s] \in StreamKinds /\ KindOf[s] \in CommandKinds
                          /\ KindOf[s] \notin {"LookupPullRequest", "LoadPullRequestStack",
                                               "LoadPullRequestCommits"}
                          /\ StreamOf(KindOf[s]) = s
    /\ \A s, t \in Streams : KindOf[s] = KindOf[t] => s = t
    /\ \A k \in StreamKinds : StreamOf(k) \in Streams /\ KindOf[StreamOf(k)] = k
<1>1. \A s \in Streams : /\ KindOf[s] \in StreamKinds /\ KindOf[s] \in CommandKinds
                         /\ KindOf[s] \notin {"LookupPullRequest", "LoadPullRequestStack",
                                              "LoadPullRequestCommits"}
    BY DEF Streams, KindOf, StreamKinds, CommandKinds
<1>2. \A s, t \in Streams : KindOf[s] = KindOf[t] => s = t
    BY DEF Streams, KindOf
<1>3. \A k \in StreamKinds : \E s \in Streams : KindOf[s] = k
    BY DEF StreamKinds
<1>4. \A k \in StreamKinds : StreamOf(k) \in Streams /\ KindOf[StreamOf(k)] = k
    BY <1>3 DEF StreamOf
<1> QED
    BY <1>1, <1>2, <1>4

LEMMA FollowingModulo ==
    ASSUME NEW g \in Generation
    PROVE  Following(g) = IF g = Wrap - 1 THEN 0 ELSE g + 1
<1>1. Wrap \in Nat /\ Wrap > 2 /\ g \in Nat /\ g <= Wrap - 1
    BY InspectorAssumption DEF Generation
<1>2. CASE g = Wrap - 1
    <2>1. Wrap % Wrap = 0
        BY <1>1
    <2> QED
        BY <1>1, <1>2, <2>1 DEF Following
<1>3. CASE g # Wrap - 1
    <2>1. g + 1 \in 0 .. Wrap - 1
        BY <1>1, <1>3
    <2>2. (g + 1) % Wrap = g + 1
        BY <1>1, <2>1
    <2> QED
        BY <1>3, <2>2 DEF Following
<1> QED
    BY <1>2, <1>3

(* Neither the next generation nor the one after it is the present one; and   *)
(* when they are not smaller, they are greater.                               *)
LEMMA GenerationsMove ==
    ASSUME NEW g \in Generation
    PROVE  /\ Following(g) \in Generation /\ Following(Following(g)) \in Generation
           /\ Following(g) # g /\ Following(Following(g)) # g
<1>1. Wrap \in Nat /\ Wrap > 2 /\ g \in Nat /\ g <= Wrap - 1
    BY InspectorAssumption DEF Generation
<1>2. Following(g) = IF g = Wrap - 1 THEN 0 ELSE g + 1
    BY FollowingModulo
<1>3. Following(g) \in Generation
    BY <1>1, <1>2 DEF Generation
<1>4. Following(Following(g)) = IF Following(g) = Wrap - 1 THEN 0 ELSE Following(g) + 1
    BY <1>3, FollowingModulo
<1>5. Following(Following(g)) \in Generation /\ Following(Following(g)) # g
    BY <1>1, <1>2, <1>4 DEF Generation
<1> QED
    BY <1>1, <1>2, <1>3, <1>5

LEMMA NamesAre ==
    /\ NoMember \notin Member /\ NoMember \in Names /\ Member \subseteq Names
    /\ \A m \in Names : m = NoMember \/ m \in Member
    /\ \A m \in Member : m.id \in 1 .. Size /\ m.id # NoMember.id
BY InspectorAssumption DEF NoMember, Member, Names

LEMMA SameHeadIsShared ==
    ASSUME NEW m, NEW n, NEW o
    PROVE  /\ SameHead(m, m)
           /\ SameHead(m, n) => SameHead(n, m)
           /\ SameHead(m, n) /\ SameHead(n, o) => SameHead(m, o)
           /\ SameHead(m, n) => m.id = n.id
BY DEF SameHead

LEMMA StacksAre ==
    ASSUME NEW st \in Stacks
    PROVE  /\ st \in Seq(Member) /\ Len(st) \in Nat /\ DOMAIN st = 1 .. Len(st)
           /\ \A i \in DOMAIN st : st[i] \in Member
           /\ st # <<>> => Len(st) \in DOMAIN st
<1>1. PICK n \in 0 .. Size : st \in [1 .. n -> Member]
    BY DEF Stacks
<1>2. n \in Nat
    BY InspectorAssumption
<1>3. st \in Seq(Member) /\ DOMAIN st = 1 .. n /\ \A i \in DOMAIN st : st[i] \in Member
    BY <1>1, <1>2, SeqDef
<1>4. Len(st) \in Nat /\ DOMAIN st = 1 .. Len(st)
    BY <1>3, LenProperties
<1>5. st # <<>> => Len(st) # 0
    BY <1>3, EmptySeq
<1> QED
    BY <1>3, <1>4, <1>5

LEMMA EmptyStack == <<>> \in Stacks /\ NoMember \in Names /\ DOMAIN <<>> = {}
<1>1. <<>> \in [1 .. 0 -> Member]
    OBVIOUS
<1>2. 0 \in 0 .. Size
    BY InspectorAssumption
<1> QED
    BY <1>1, <1>2, NamesAre DEF Stacks

(* Cursor and anchor are positions of the stack, if it has any. *)
Fits(r, st) ==
    \/ st = <<>> /\ r = NoRange
    \/ st # <<>> /\ r \in [cursor : DOMAIN st, anchor : DOMAIN st]

LEMMA CursorsAreMembers ==
    ASSUME NEW st \in Stacks, NEW r, Fits(r, st)
    PROVE  /\ Cursor(st, r) \in Names /\ Tip(st) \in Names
           /\ st # <<>> => Cursor(st, r) \in Member /\ Tip(st) \in Member
           /\ st = <<>> => Cursor(st, r) = NoMember /\ Tip(st) = NoMember
<1>1. CASE st = <<>>
    BY <1>1, NamesAre DEF Cursor, Tip
<1>2. CASE st # <<>>
    <2>1. r.cursor \in DOMAIN st
        BY <1>2 DEF Fits
    <2>2. st[r.cursor] \in Member /\ st[Len(st)] \in Member
        BY <1>2, <2>1, StacksAre
    <2> QED
        BY <1>2, <2>2, NamesAre DEF Cursor, Tip
<1> QED
    BY <1>1, <1>2

LEMMA ReconciledIs ==
    ASSUME NEW st \in Stacks, NEW r, Fits(r, st), NEW i \in Inspector
    PROVE  /\ Reconciled(i, st, r) \in Inspector
           /\ Reconciled(i, st, r).selected = Cursor(st, r)
           /\ Reconciled(i, st, r).tip = Tip(st)
           /\ st # <<>> => Reconciled(i, st, r).section = i.section
<1>1. Cursor(st, r) \in Names /\ Tip(st) \in Names
    BY CursorsAreMembers
<1>2. "Files" \in Sections /\ i.section \in Sections
    BY DEF Sections, Inspector
<1>3. (st # <<>> /\ (i.sync_due \/ i.selected # Cursor(st, r) \/ i.tip # Tip(st))) \in BOOLEAN
    BY DEF Inspector
<1> QED
    BY <1>1, <1>2, <1>3 DEF Reconciled, Inspector

LEMMA WhoIsNamed ==
    ASSUME NEW i \in Inspector, NEW s \in Streams
    PROVE  /\ Who(i, s) \in Names
           /\ Who(Synced(i), s) = Who(i, s) /\ Synced(i) \in Inspector
           /\ StreamsOf(Synced(i)) = StreamsOf(i)
<1>1. Who(i, s) \in Names
    BY DEF Who, Inspector
<1>2. /\ Synced(i) \in Inspector /\ Synced(i).tip = i.tip /\ Synced(i).selected = i.selected
      /\ Synced(i).section = i.section
    BY DEF Synced, Inspector
<1> QED
    BY <1>1, <1>2 DEF Who, StreamsOf
-----------------------------------------------------------------------------
(* What asking and clearing do to one stream. *)

Rests(st, m) == /\ st \in Stream /\ (st.again => st.loading)
                /\ m = NoMember => st.shows = NoMember /\ ~ st.loading

LEMMA ForgottenIs ==
    ASSUME NEW st \in Stream
    PROVE  /\ Forget(st) \in Stream /\ ~ Forget(st).loading /\ ~ Forget(st).again
           /\ Forget(st).shows = NoMember /\ Forget(st).generation = Following(st.generation)
<1>1. st.generation \in Generation
    BY DEF Stream
<1>2. Following(st.generation) \in Generation
    BY <1>1, GenerationsMove
<1> QED
    BY <1>2, NamesAre DEF Forget, Idle, Stream

LEMMA AskMoves ==
    ASSUME NEW i, NEW s \in Streams, Who(i, s) \in Names, NEW st, Rests(st, Who(i, s)),
           NEW refresh \in BOOLEAN
    PROVE  /\ Rests(Ask(i, st, s, refresh), Who(i, s))
           /\ Ask(i, st, s, refresh).shows = st.shows
           /\ \/ /\ Ask(i, st, s, refresh).generation = st.generation
                 /\ Ask(i, st, s, refresh).loading = st.loading
              \/ /\ Ask(i, st, s, refresh).generation = Following(st.generation)
                 /\ Ask(i, st, s, refresh).loading
                 /\ Who(i, s) \in Member
<1> DEFINE m   == Who(i, s)
           new == Ask(i, st, s, refresh)
<1>1. st \in Stream /\ st.generation \in Generation /\ st.loading \in BOOLEAN
      /\ st.again \in BOOLEAN
    BY DEF Rests, Stream
<1>2. CASE st.loading
    <2>1. new = [st EXCEPT !.again = st.again \/ (refresh /\ s # "commits")]
        BY <1>2 DEF Ask
    <2>2. (st.again \/ (refresh /\ s # "commits")) \in BOOLEAN
        OBVIOUS
    <2>3. /\ new \in Stream /\ new.loading = st.loading /\ new.shows = st.shows
          /\ new.generation = st.generation
        BY <1>1, <2>1, <2>2 DEF Stream
    <2> HIDE DEF new
    <2> QED
        BY <1>2, <2>3 DEF Rests, new
<1>3. CASE ~ st.loading /\ ((~ refresh /\ st.shows # NoMember) \/ m = NoMember)
    <2>1. new = st
        BY <1>3 DEF Ask
    <2> QED
        BY <2>1
<1>4. CASE ~ st.loading /\ ~ ((~ refresh /\ st.shows # NoMember) \/ m = NoMember)
    <2>1. new = [st EXCEPT !.loading = TRUE, !.generation = Following(st.generation)]
        BY <1>4 DEF Ask
    <2>2. Following(st.generation) \in Generation
        BY <1>1, GenerationsMove
    <2>3. /\ new \in Stream /\ new.loading /\ new.shows = st.shows
          /\ new.generation = Following(st.generation)
        BY <1>1, <2>1, <2>2 DEF Stream
    <2>4. m \in Member
        BY <1>4, NamesAre
    <2> HIDE DEF new
    <2> QED
        BY <1>4, <2>3, <2>4 DEF Rests, new
<1> QED
    BY <1>2, <1>3, <1>4

(* A stream that no command is for, and whose member stays. *)
LEMMA StreamStays ==
    ASSUME NEW s, NEW m, NEW st, Rests(st, m), NEW sent, \A c \in sent : c.kind # KindOf[s]
    PROVE  StreamMoves(s, st, st, m, m, sent)
<1>1. st.generation \in Generation
    BY DEF Rests, Stream
<1> QED
    BY <1>1 DEF StreamMoves, Rests

(* Commands of other kinds do not matter to a stream. *)
LEMMA MovesWithMore ==
    ASSUME NEW s, NEW st, NEW new, NEW m, NEW n, NEW sent, NEW more,
           StreamMoves(s, st, new, m, n, sent),
           sent \subseteq more, \A c \in more : c \in sent \/ c.kind # KindOf[s]
    PROVE  StreamMoves(s, st, new, m, n, more)
BY DEF StreamMoves

LEMMA ClearedStream ==
    ASSUME NEW s, NEW m, NEW n, NEW st, Rests(st, m), NEW mid, Clears(st, mid, m, n),
           NEW sent, \A c \in sent : c.kind # KindOf[s]
    PROVE  StreamMoves(s, st, mid, m, n, sent) /\ Rests(mid, n)
<1>1. CASE m = n /\ mid = st
    BY <1>1, StreamStays
<1>2. CASE (m # n \/ n = NoMember) /\ mid = Forget(st)
    <2>1. st \in Stream /\ st.generation \in Generation
        BY DEF Rests, Stream
    <2>2. /\ mid \in Stream /\ ~ mid.loading /\ ~ mid.again
          /\ mid.shows = NoMember /\ mid.generation = Following(st.generation)
        BY <1>2, <2>1, ForgottenIs
    <2>3. Following(st.generation) # st.generation
        BY <2>1, GenerationsMove
    <2>4. m = n => st.shows = NoMember
        BY <1>2 DEF Rests
    <2>5. Rests(mid, n)
        BY <2>2 DEF Rests
    <2> QED
        BY <2>2, <2>3, <2>4, <2>5 DEF StreamMoves
<1> QED
    BY <1>1, <1>2 DEF Clears

(* Cleared and then asked for, or not. *)
LEMMA AskedStream ==
    ASSUME NEW j, NEW s \in Streams, Who(j, s) \in Names, NEW m, NEW st, Rests(st, m),
           NEW mid, Clears(st, mid, m, Who(j, s)), NEW new, NEW refresh \in BOOLEAN,
           new \in {mid, Ask(j, mid, s, refresh)}, NEW sent,
           \A c \in sent : c.kind = KindOf[s] =>
               c = Reading(s, new.generation, Who(j, s)) /\ new.generation # mid.generation,
           new.generation # mid.generation => Reading(s, new.generation, Who(j, s)) \in sent
    PROVE  /\ StreamMoves(s, st, new, m, Who(j, s), sent) /\ Rests(new, Who(j, s))
           /\ new.generation # mid.generation =>
                 Who(j, s) \in Member /\ new.generation \in Generation
<1> DEFINE n == Who(j, s)
<1>1. st \in Stream /\ st.generation \in Generation
    BY DEF Rests, Stream
<1>2. /\ Following(st.generation) \in Generation
      /\ Following(st.generation) # st.generation
      /\ Following(Following(st.generation)) # st.generation
      /\ Following(Following(st.generation)) # Following(st.generation)
    BY <1>1, GenerationsMove
<1>3. Rests(mid, n) /\ StreamMoves(s, st, mid, m, n, {})
    BY ClearedStream
<1>4. mid \in Stream /\ mid.generation \in Generation
    BY <1>3 DEF Rests, Stream
<1>5. Following(mid.generation) # mid.generation
    BY <1>4, GenerationsMove
<1>6. \/ new = mid
      \/ /\ Rests(new, n) /\ new.shows = mid.shows
         /\ \/ new.generation = mid.generation /\ new.loading = mid.loading
            \/ new.generation = Following(mid.generation) /\ new.loading /\ n \in Member
    BY <1>3, AskMoves
<1>7. CASE new.generation = mid.generation
    <2>1. Rests(new, n) /\ new.shows = mid.shows /\ new.loading = mid.loading
        BY <1>3, <1>5, <1>6, <1>7
    <2>2. \A c \in sent : c.kind # KindOf[s]
        BY <1>7
    <2> QED
        BY <1>3, <1>7, <2>1, <2>2 DEF StreamMoves, Rests
<1>8. CASE new.generation # mid.generation
    <2>1. /\ Rests(new, n) /\ new.shows = mid.shows /\ new.loading /\ n \in Member
          /\ new.generation = Following(mid.generation)
        BY <1>6, <1>8
    <2>2. /\ new \in Stream /\ new.generation \in Generation /\ (new.again => new.loading)
          /\ n # NoMember
        BY <2>1, NamesAre DEF Rests, Stream
    <2>3. (mid.generation = st.generation /\ m = n) \/ mid.generation = Following(st.generation)
        BY <1>1, ForgottenIs DEF Clears
    <2>4. new.generation # st.generation
          /\ new.generation \in {Following(st.generation), Following(Following(st.generation))}
        BY <1>2, <2>1, <2>3
    <2>5. Reading(s, new.generation, n) \in sent
        BY <1>8
    <2>6. /\ new.shows = NoMember \/ (m = n /\ new.shows = st.shows)
          /\ m = n /\ st.shows # NoMember => new.shows # NoMember
        BY <1>3, <2>1 DEF StreamMoves
    <2>7. StreamMoves(s, st, new, m, n, sent)
        BY <2>2, <2>4, <2>5, <2>6 DEF StreamMoves
    <2> QED
        BY <2>1, <2>2, <2>7
<1> QED
    BY <1>7, <1>8
-----------------------------------------------------------------------------
(* What is sent. *)

LEMMA OneEffect ==
    ASSUME NEW S, NEW e \in S
    PROVE  <<e>> \in Seq(S) /\ Elements(<<e>>) = {e}
BY DEF Elements

LEMMA NoEffect ==
    ASSUME NEW S
    PROVE  <<>> \in Seq(S) /\ Elements(<<>>) = {}
BY DEF Elements

LEMMA ReadingIs ==
    ASSUME NEW s \in Streams, NEW g \in Generation, NEW m \in Member
    PROVE  Reading(s, g, m) \in Command /\ Reading(s, g, m).kind = KindOf[s]
           /\ Reading(s, g, m).generation = g /\ Reading(s, g, m).member = m
BY StreamKindsDiffer DEF Reading, Command, Generation

LEMMA StreamEffectsAre ==
    ASSUME NEW j, NEW mid, NEW new,
           \A s \in Streams : mid[s].generation # new[s].generation =>
               Who(j, s) \in Member /\ new[s].generation \in Generation
    PROVE  /\ StreamEffects(j, mid, new) \in Seq(Command)
           /\ \A c \in Elements(StreamEffects(j, mid, new)) : c.kind \in StreamKinds
           /\ \A s \in Streams : mid[s].generation # new[s].generation =>
                 Reading(s, new[s].generation, Who(j, s)) \in Elements(StreamEffects(j, mid, new))
           /\ \A s \in Streams, c \in Elements(StreamEffects(j, mid, new)) :
                 c.kind = KindOf[s] => /\ c = Reading(s, new[s].generation, Who(j, s))
                                       /\ mid[s].generation # new[s].generation
<1> DEFINE asked(s) == IF mid[s].generation = new[s].generation THEN <<>>
                       ELSE <<[kind |-> KindOf[s], generation |-> new[s].generation,
                               member |-> Who(j, s)]>>
           r(s) == Reading(s, new[s].generation, Who(j, s))
           of(s) == {c \in {r(s)} : mid[s].generation # new[s].generation}
<1>1. ASSUME NEW s \in Streams
      PROVE  asked(s) \in Seq(Command) /\ Elements(asked(s)) = of(s)
    <2>1. CASE mid[s].generation = new[s].generation
        <3>1. asked(s) = <<>> /\ of(s) = {}
            BY <2>1
        <3> QED
            BY <3>1, NoEffect
    <2>2. CASE mid[s].generation # new[s].generation
        <3>1. r(s) \in Command
            BY <2>2, ReadingIs
        <3>2. asked(s) = <<r(s)>> /\ of(s) = {r(s)}
            BY <2>2 DEF Reading
        <3> HIDE DEF r, asked, of
        <3> QED
            BY <3>1, <3>2, OneEffect
    <2> QED
        BY <2>1, <2>2
<1>2. StreamEffects(j, mid, new) =
        asked("tip") \o asked("detail") \o asked("conversation") \o asked("checks")
            \o asked("commits")
    BY DEF StreamEffects
<1>3. {"tip", "detail", "conversation", "checks", "commits"} = Streams
    BY DEF Streams
<1> HIDE DEF asked, of
<1> DEFINE two == asked("tip") \o asked("detail")
           three == two \o asked("conversation")
           four == three \o asked("checks")
           five == four \o asked("commits")
<1>4. two \in Seq(Command) /\ Elements(two) = of("tip") \cup of("detail")
    BY <1>1, <1>3, ConcatElements
<1> HIDE DEF two
<1>5. three \in Seq(Command) /\ Elements(three) = Elements(two) \cup of("conversation")
    BY <1>1, <1>3, <1>4, ConcatElements
<1> HIDE DEF three
<1>6. four \in Seq(Command) /\ Elements(four) = Elements(three) \cup of("checks")
    BY <1>1, <1>3, <1>5, ConcatElements
<1> HIDE DEF four
<1>7. five \in Seq(Command) /\ Elements(five) = Elements(four) \cup of("commits")
    BY <1>1, <1>3, <1>6, ConcatElements
<1>8. StreamEffects(j, mid, new) = five
    BY <1>2 DEF two, three, four
<1> HIDE DEF five
<1>9. \A c \in Elements(five) : \E s \in Streams : c \in of(s)
    BY <1>3, <1>4, <1>5, <1>6, <1>7
<1>10. \A s \in Streams : of(s) \subseteq Elements(five)
    BY <1>3, <1>4, <1>5, <1>6, <1>7
<1>11. ASSUME NEW s \in Streams, NEW c \in of(s)
       PROVE  /\ c = r(s) /\ mid[s].generation # new[s].generation
              /\ c.kind = KindOf[s] /\ c.kind \in StreamKinds
    <2>1. c = r(s) /\ mid[s].generation # new[s].generation
        BY DEF of
    <2> QED
        BY <2>1, ReadingIs, StreamKindsDiffer
<1>12. ASSUME NEW s \in Streams, mid[s].generation # new[s].generation
       PROVE  r(s) \in Elements(five)
    BY <1>10, <1>12 DEF of
<1>13. ASSUME NEW s \in Streams, NEW c \in Elements(five), c.kind = KindOf[s]
       PROVE  c = r(s) /\ mid[s].generation # new[s].generation
    <2>1. PICK t \in Streams : c \in of(t)
        BY <1>9
    <2>2. t = s
        BY <1>11, <1>13, <2>1, StreamKindsDiffer
    <2> QED
        BY <1>11, <2>1, <2>2
<1>14. \A c \in Elements(five) : c.kind \in StreamKinds
    BY <1>9, <1>11
<1> QED
    BY <1>7, <1>8, <1>12, <1>13, <1>14
-----------------------------------------------------------------------------
(* All streams at once. *)

StreamsRest == \A s \in Streams : Rests(streams[s], Who(inspector, s))

Clearing(mid, j) ==
    /\ DOMAIN mid = Streams
    /\ \A s \in Streams : Clears(streams[s], mid[s], Who(inspector, s), Who(j, s))

LEMMA AskAllMoves ==
    ASSUME StreamsRest, NEW j \in Inspector, NEW mid, Clearing(mid, j),
           NEW which, NEW refresh \in BOOLEAN, NEW new, new = AskAll(j, mid, which, refresh)
    PROVE  /\ new \in [Streams -> Stream] /\ \A s \in Streams : Rests(new[s], Who(j, s))
           /\ StreamEffects(j, mid, new) \in Seq(Command)
           /\ \A c \in Elements(StreamEffects(j, mid, new)) : c.kind \in StreamKinds
           /\ \A s \in Streams : StreamMoves(s, streams[s], new[s], Who(inspector, s), Who(j, s),
                                             Elements(StreamEffects(j, mid, new)))
<1> DEFINE e == StreamEffects(j, mid, new)
<1>0. DOMAIN new = Streams
      /\ \A s \in Streams : new[s] \in {mid[s], Ask(j, mid[s], s, refresh)}
    BY DEF AskAll
<1>1. \A s \in Streams : /\ Rests(streams[s], Who(inspector, s)) /\ Who(j, s) \in Names
                         /\ Clears(streams[s], mid[s], Who(inspector, s), Who(j, s))
    BY WhoIsNamed DEF StreamsRest, Clearing
<1>2. ASSUME NEW s \in Streams
      PROVE  mid[s].generation # new[s].generation =>
                 Who(j, s) \in Member /\ new[s].generation \in Generation
    <2> DEFINE all == {Reading(s, new[s].generation, Who(j, s)) : x \in {y \in {1} : mid[s].generation # new[s].generation}}
    <2>1. /\ \A c \in all : c = Reading(s, new[s].generation, Who(j, s))
                            /\ new[s].generation # mid[s].generation
          /\ new[s].generation # mid[s].generation
                => Reading(s, new[s].generation, Who(j, s)) \in all
        OBVIOUS
    <2> HIDE DEF all
    <2> QED
        BY <1>0, <1>1, <2>1, AskedStream
<1>3. /\ e \in Seq(Command)
      /\ \A c \in Elements(e) : c.kind \in StreamKinds
      /\ \A s \in Streams : mid[s].generation # new[s].generation =>
            Reading(s, new[s].generation, Who(j, s)) \in Elements(e)
      /\ \A s \in Streams, c \in Elements(e) :
            c.kind = KindOf[s] => /\ c = Reading(s, new[s].generation, Who(j, s))
                                  /\ mid[s].generation # new[s].generation
    BY <1>2, StreamEffectsAre
<1> HIDE DEF e
<1>4. ASSUME NEW s \in Streams
      PROVE  /\ StreamMoves(s, streams[s], new[s], Who(inspector, s), Who(j, s), Elements(e))
             /\ Rests(new[s], Who(j, s))
    <2>1. /\ \A c \in Elements(e) : c.kind = KindOf[s] =>
                c = Reading(s, new[s].generation, Who(j, s))
                /\ new[s].generation # mid[s].generation
          /\ new[s].generation # mid[s].generation =>
                Reading(s, new[s].generation, Who(j, s)) \in Elements(e)
        BY <1>3
    <2> QED
        BY <1>0, <1>1, <2>1, AskedStream
<1>5. new \in [Streams -> Stream]
    <2>1. \A s \in Streams : new[s] \in Stream
        BY <1>4 DEF Rests
    <2> QED
        BY <1>0, <2>1 DEF AskAll
<1> QED
    BY <1>3, <1>4, <1>5 DEF e

LEMMA ClearedIs ==
    ASSUME NEW j \in Inspector,
           j.tip = NoMember => j.selected = NoMember
    PROVE  Clearing(Cleared(inspector, j, streams), j)
BY DEF Clearing, Clears, Cleared, Who

LEMMA NothingIsCleared ==
    ASSUME streams \in [Streams -> Stream]
    PROVE  Clearing(streams, inspector)
BY DEF Clearing, Clears

LEMMA ClearedStreams ==
    ASSUME StreamsRest, NEW j \in Inspector, NEW mid, Clearing(mid, j),
           mid = [s \in Streams |-> mid[s]], NEW sent,
           \A c \in sent : c.kind \notin StreamKinds
    PROVE  /\ mid \in [Streams -> Stream] /\ \A s \in Streams : Rests(mid[s], Who(j, s))
           /\ \A s \in Streams : StreamMoves(s, streams[s], mid[s], Who(inspector, s),
                                             Who(j, s), sent)
<1>1. ASSUME NEW s \in Streams
      PROVE  /\ StreamMoves(s, streams[s], mid[s], Who(inspector, s), Who(j, s), sent)
             /\ Rests(mid[s], Who(j, s))
    <2>1. \A c \in sent : c.kind # KindOf[s]
        BY StreamKindsDiffer
    <2>2. /\ Rests(streams[s], Who(inspector, s))
          /\ Clears(streams[s], mid[s], Who(inspector, s), Who(j, s))
        BY DEF StreamsRest, Clearing
    <2> QED
        BY <2>1, <2>2, ClearedStream
<1>2. \A s \in Streams : mid[s] \in Stream
    BY <1>1 DEF Rests
<1> QED
    BY <1>1, <1>2
-----------------------------------------------------------------------------
(* The invariant of types and shapes. *)

LookupKinds == {"LookupPullRequest", "LoadPullRequestStack"}

(* A change of GitHub is counted, and a stack without the opened pull request *)
(* is none.                                                                   *)
World ==
    /\ remote \in [heads : [1 .. Size -> 0 .. MaxChanges],
                   details : [1 .. Size -> 0 .. MaxChanges], bottom : 1 .. Size + 1]
    /\ remote.bottom <= Opened \/ remote.bottom = Size + 1
    /\ used \in [script : Scripts, keys : Nat, polls : Nat, changes : 0 .. MaxChanges,
                 failures : Nat]
    /\ \A i \in 1 .. Size : /\ remote.heads[i] <= used.changes
                           /\ remote.details[i] <= used.changes

PanesTyped ==
    /\ lookup \in LookupPane /\ pull_request \in Names /\ stack \in Stacks
    /\ section \in {"Overview", "Files", "Commits", "Stack"}
    /\ inspector \in Inspector /\ streams \in [Streams -> Stream] /\ browser \in Browser

(* The stack on display has its cursor and its inspector, and no owner of the *)
(* browser: a member owns it only in the sections that are left for the stack. *)
ShapeOK ==
    /\ Fits(range, stack)
    /\ SelectionFollowsTheStack
    /\ section = "Stack" => stack # <<>> /\ browser.owner = NoMember
    /\ stack = <<>> => browser.owner = NoMember

HoldsOpened(st) == st # <<>> => \E i \in DOMAIN st : st[i].id = Opened

AnswersSound ==
    \A a \in Elements(answers) :
        /\ HoldsOpened(a.members)
        /\ a.command.kind \notin {"LookupPullRequest", "LoadPullRequestStackMember"}
              => a.seen = a.command.member

InspectorInv ==
    /\ LaneTypeOK(Command, Event)
    /\ World /\ PanesTyped /\ ShapeOK /\ StreamsRest /\ AnswersSound

(* The answer that is heard is the one of this kind that is waited for. *)
Hearing(hearing, k) ==
    hearing /\ Head(answers).command.kind = k /\ Current(Head(answers).command)

StreamGoes(s, hearing) ==
    \/ /\ ~ Hearing(hearing, KindOf[s])
       /\ StreamMoves(s, streams[s], streams'[s], Who(inspector, s), Who(inspector', s),
                      Elements(outbox'))
    \/ /\ Hearing(hearing, KindOf[s])
       /\ Who(inspector', s) = Who(inspector, s)
       /\ StreamTold(s, streams[s], streams'[s], Who(inspector, s), Elements(outbox'),
                     Head(answers))

LookupGoes(hearing) ==
    /\ lookup'.loading =>
          \/ \E c \in Elements(outbox') : /\ c.kind = "LookupPullRequest"
                                          /\ c.generation = lookup'.generation
          \/ /\ ~ Hearing(hearing, "LookupPullRequest")
             /\ lookup.loading /\ lookup'.generation = lookup.generation
    /\ lookup'.stack_loading =>
          \/ \E c \in Elements(outbox') : /\ c.kind = "LoadPullRequestStack"
                                          /\ c.generation = lookup'.generation
          \/ /\ ~ Hearing(hearing, "LoadPullRequestStack")
             /\ lookup.stack_loading /\ lookup'.generation = lookup.generation
    /\ \A c \in Elements(outbox') :
          /\ c.kind = "LookupPullRequest" =>
                ~ lookup'.stack_loading /\ c.generation = lookup'.generation
          /\ c.kind = "LoadPullRequestStack" =>
                ~ lookup'.loading /\ c.generation = lookup'.generation

BrowserGoes(hearing) ==
    /\ browser'.generation \in {browser.generation, Following(browser.generation),
                                Following(Following(browser.generation))}
    /\ browser'.generation = browser.generation =>
          SameHead(Listed(browser', pull_request'), Listed(browser, pull_request))
    /\ \/ browser'.shows = NoMember
       \/ /\ browser'.shows = browser.shows
          /\ SameHead(Listed(browser', pull_request'), Listed(browser, pull_request))
       \/ /\ browser'.shows = streams["commits"].shows
          /\ section = "Stack" /\ Listed(browser', pull_request') = SelectedPullRequest
       \/ /\ Hearing(hearing, "LoadPullRequestCommits")
          /\ browser'.shows = Head(answers).seen
          /\ browser'.generation = browser.generation
    /\ \A c \in Elements(outbox') : c.kind = "LoadPullRequestCommits" =>
          /\ c.generation = browser'.generation /\ browser'.generation # browser.generation
          /\ c.member = Listed(browser', pull_request')

Handled(hearing) ==
    /\ IF hearing THEN answers # <<>> /\ HandleAnswer(outbox') ELSE Handle(outbox')
    /\ outbox' \in Seq(Command)
    /\ World' /\ PanesTyped' /\ ShapeOK' /\ StreamsRest'
    /\ \A s \in Streams : StreamGoes(s, hearing)
    /\ LookupGoes(hearing) /\ BrowserGoes(hearing)
-----------------------------------------------------------------------------
(* Parts of steps. *)

LEMMA StreamsGo ==
    ASSUME NEW hearing \in BOOLEAN, \A s \in Streams : ~ Hearing(hearing, KindOf[s]),
           NEW j, \A s \in Streams : Who(inspector', s) = Who(j, s),
           NEW new, streams' = new, NEW sent,
           \A s \in Streams : /\ StreamMoves(s, streams[s], new[s], Who(inspector, s),
                                             Who(j, s), sent)
                              /\ Rests(new[s], Who(j, s)),
           sent \subseteq Elements(outbox'),
           \A c \in Elements(outbox') : c \in sent \/ c.kind \notin StreamKinds
    PROVE  /\ \A s \in Streams : StreamGoes(s, hearing)
           /\ StreamsRest'
<1>1. ASSUME NEW s \in Streams
      PROVE  StreamGoes(s, hearing)
    <2>1. \A c \in Elements(outbox') : c \in sent \/ c.kind # KindOf[s]
        BY StreamKindsDiffer
    <2>2. StreamMoves(s, streams[s], new[s], Who(inspector, s), Who(j, s), Elements(outbox'))
        BY <2>1, MovesWithMore
    <2> QED
        BY <2>2 DEF StreamGoes
<1>2. StreamsRest'
    <2>1. ASSUME NEW s \in Streams
          PROVE  Rests(streams'[s], Who(inspector', s))
        OBVIOUS
    <2> QED
        BY <2>1 DEF StreamsRest, Rests, Who
<1> QED
    BY <1>1, <1>2

LEMMA StreamsStayPut ==
    ASSUME InspectorInv, NEW hearing \in BOOLEAN,
           \A s \in Streams : ~ Hearing(hearing, KindOf[s]),
           streams' = streams, \A s \in Streams : Who(inspector', s) = Who(inspector, s),
           \A c \in Elements(outbox') : c.kind \notin StreamKinds
    PROVE  /\ \A s \in Streams : StreamGoes(s, hearing)
           /\ StreamsRest'
<1>1. ASSUME NEW s \in Streams
      PROVE  /\ StreamMoves(s, streams[s], streams[s], Who(inspector, s), Who(inspector, s), {})
             /\ Rests(streams[s], Who(inspector, s))
    BY StreamStays DEF InspectorInv, StreamsRest
<1> QED
    BY <1>1, StreamsGo

LEMMA LookupStays ==
    ASSUME lookup' = lookup, NEW hearing \in BOOLEAN,
           \A k \in LookupKinds : ~ Hearing(hearing, k),
           \A c \in Elements(outbox') : c.kind \notin LookupKinds
    PROVE  LookupGoes(hearing)
BY DEF LookupGoes, LookupKinds

LEMMA BrowserStays ==
    ASSUME browser' = browser, pull_request' = pull_request, NEW hearing \in BOOLEAN,
           \A c \in Elements(outbox') : c.kind # "LoadPullRequestCommits"
    PROVE  BrowserGoes(hearing)
BY SameHeadIsShared DEF BrowserGoes, Listed

(* The selected pull request is a named one, the selected member's or itself. *)
LEMMA SelectedIsNamed ==
    ASSUME PanesTyped
    PROVE  /\ SelectedPullRequest \in Names
           /\ section = "Stack" /\ inspector.selected \in Member
                 => SelectedPullRequest \in Member
<1>1. /\ inspector.selected \in Names /\ streams["detail"].shows \in Names
      /\ Listed(browser, pull_request) \in Names
    BY DEF PanesTyped, Inspector, Streams, Stream, Browser, Listed
<1> QED
    BY <1>1, NamesAre DEF SelectedPullRequest

LEMMA SortsOfKinds ==
    /\ "LoadPullRequestCommits" \notin StreamKinds
    /\ \A k \in LookupKinds : k \notin StreamKinds
    /\ "LoadPullRequestCommits" \notin LookupKinds
    /\ \A c \in Command : /\ c.kind \in StreamKinds \/ c.kind \in LookupKinds
                             \/ c.kind = "LoadPullRequestCommits"
                          /\ c.member \in Member /\ c.generation \in Generation
BY DEF StreamKinds, KindOf, Streams, LookupKinds, Command, CommandKinds, Generation

LEMMA WorldCounts ==
    ASSUME World, remote' = remote,
           \/ used' = used
           \/ used' = [used EXCEPT !.keys = @ + 1]
           \/ used' = [used EXCEPT !.polls = @ + 1]
    PROVE  World'
<1>1. used \in [script : Scripts, keys : Nat, polls : Nat, changes : 0 .. MaxChanges,
                failures : Nat]
    BY DEF World
<1>2. used'.changes = used.changes
      /\ used' \in [script : Scripts, keys : Nat, polls : Nat, changes : 0 .. MaxChanges,
                    failures : Nat]
    <2>1. CASE used' = used
        BY <1>1, <2>1
    <2>2. CASE used' = [used EXCEPT !.keys = @ + 1]
        <3>1. used.keys + 1 \in Nat
            BY <1>1
        <3> QED
            BY <1>1, <2>2, <3>1
    <2>3. CASE used' = [used EXCEPT !.polls = @ + 1]
        <3>1. used.polls + 1 \in Nat
            BY <1>1
        <3> QED
            BY <1>1, <2>3, <3>1
    <2> QED
        BY <2>1, <2>2, <2>3
<1> QED
    BY <1>2 DEF World

LEMMA PressCounts ==
    ASSUME World, NEW key, Press(key)
    PROVE  World' /\ remote' = remote
<1>1. remote' = remote /\ used' = [used EXCEPT !.keys = @ + 1]
    BY DEF Press, Count
<1> QED
    BY <1>1, WorldCounts

LEMMA LookUpIs ==
    ASSUME NEW l \in LookupPane, NEW refresh \in BOOLEAN
    PROVE  /\ LookUp(l, refresh) \in LookupPane
           /\ LookUp(l, refresh).loading /\ ~ LookUp(l, refresh).stack_loading
           /\ LookUp(l, refresh).generation # l.generation
           /\ LookUp(l, refresh) # l
<1>1. l.generation \in Generation
    BY DEF LookupPane
<1>2. Following(l.generation) \in Generation /\ Following(l.generation) # l.generation
    BY <1>1, GenerationsMove
<1> QED
    BY <1>2 DEF LookUp, LookupPane

LEMMA LookupEffectsAre ==
    ASSUME NEW l, NEW n \in LookupPane, NEW k \in LookupKinds
    PROVE  /\ LookupEffects(l, n, k) \in Seq(Command)
           /\ \A c \in Elements(LookupEffects(l, n, k)) :
                 c.kind = k /\ c.generation = n.generation
           /\ l # n => \E c \in Elements(LookupEffects(l, n, k)) :
                 c.kind = k /\ c.generation = n.generation
<1> DEFINE c == [kind |-> k, generation |-> n.generation,
                 member |-> [id |-> Opened, head |-> 0, details |-> 0]]
<1>1. CASE l = n
    <2>1. LookupEffects(l, n, k) = <<>>
        BY <1>1 DEF LookupEffects
    <2> QED
        BY <1>1, <2>1, NoEffect
<1>2. CASE l # n
    <2>1. LookupEffects(l, n, k) = <<c>>
        BY <1>2 DEF LookupEffects
    <2>2. [id |-> Opened, head |-> 0, details |-> 0] \in Member
        BY InspectorAssumption DEF Member
    <2>3. k \in CommandKinds
        BY DEF LookupKinds, CommandKinds
    <2>4. c \in Command /\ c.kind = k /\ c.generation = n.generation
        BY <2>2, <2>3 DEF Command, LookupPane, Generation
    <2> HIDE DEF c
    <2>5. <<c>> \in Seq(Command) /\ Elements(<<c>>) = {c}
        BY <2>4, OneEffect
    <2> QED
        BY <2>1, <2>4, <2>5
<1> QED
    BY <1>1, <1>2

LEMMA NewBrowserIs ==
    ASSUME NEW b, b.generation \in Generation
    PROVE  /\ NewBrowser(b) \in Browser /\ NewBrowser(b).owner = NoMember
           /\ NewBrowser(b).shows = NoMember
           /\ NewBrowser(b).generation = Following(b.generation)
           /\ NewBrowser(b).generation # b.generation
<1>1. Following(b.generation) \in Generation /\ Following(b.generation) # b.generation
    BY GenerationsMove
<1> QED
    BY <1>1, NamesAre DEF NewBrowser, Browser

LEMMA BrowseIs ==
    ASSUME NEW b \in Browser, NEW p \in Names
    PROVE  /\ Browse(b, p) \in Browser /\ Browse(b, p).owner = b.owner
           /\ Browse(b, p).shows = b.shows
           /\ Listed(Browse(b, p), p) = Listed(b, p)
           /\ Browse(b, p).generation \in {b.generation, Following(b.generation)}
           /\ BrowserEffects(b, Browse(b, p), p) \in Seq(Command)
           /\ \A c \in Elements(BrowserEffects(b, Browse(b, p), p)) :
                 /\ c.kind = "LoadPullRequestCommits"
                 /\ c.generation = Browse(b, p).generation
                 /\ c.generation = Following(b.generation)
                 /\ c.member = Listed(b, p)
<1> DEFINE n == Browse(b, p)
           c == [kind |-> "LoadPullRequestCommits", generation |-> n.generation,
                 member |-> Listed(n, p)]
           idle == \/ b.loading \/ (b.shows # NoMember /\ ~ b.introduced)
                   \/ Listed(b, p) = NoMember
<1>1. b.generation \in Generation /\ Listed(b, p) \in Names
    BY DEF Browser, Listed
<1>2. CASE idle
    <2>1. n = b
        BY <1>2 DEF Browse
    <2>2. BrowserEffects(b, n, p) = <<>>
        BY <2>1 DEF BrowserEffects
    <2> QED
        BY <2>1, <2>2, NoEffect
<1>3. CASE ~ idle
    <2>1. n = [b EXCEPT !.loading = TRUE, !.generation = Following(b.generation)]
        BY <1>3 DEF Browse
    <2>2. Following(b.generation) \in Generation /\ Following(b.generation) # b.generation
        BY <1>1, GenerationsMove
    <2>3. /\ n \in Browser /\ n.owner = b.owner /\ n.shows = b.shows /\ n.loading
          /\ n.generation = Following(b.generation)
        BY <2>1, <2>2 DEF Browser
    <2> HIDE DEF n
    <2>4. BrowserEffects(b, n, p) = <<c>>
        BY <2>2, <2>3 DEF BrowserEffects
    <2>5. Listed(n, p) = Listed(b, p) /\ Listed(b, p) \in Member
        BY <1>1, <1>3, <2>3, NamesAre DEF Listed
    <2>6. /\ c \in Command /\ c.kind = "LoadPullRequestCommits" /\ c.member = Listed(b, p)
          /\ c.generation = n.generation
        BY <2>2, <2>3, <2>5 DEF Command, CommandKinds, Generation
    <2> HIDE DEF c
    <2>7. <<c>> \in Seq(Command) /\ Elements(<<c>>) = {c}
        BY <2>6, OneEffect
    <2> QED
        BY <2>3, <2>4, <2>5, <2>6, <2>7 DEF n
<1> QED
    BY <1>2, <1>3
-----------------------------------------------------------------------------
(* The clock. *)

LEMMA SyncHandled ==
    ASSUME InspectorInv, Sync
    PROVE  Handled(FALSE)
<1> DEFINE new == Read(inspector, streams, FALSE)
           e == StreamEffects(inspector, streams, new)
<1>0. /\ World /\ PanesTyped /\ ShapeOK /\ StreamsRest
      /\ inspector \in Inspector /\ streams \in [Streams -> Stream] /\ lookup \in LookupPane
    BY DEF InspectorInv, PanesTyped
<1>1. /\ inspector' = Synced(inspector) /\ streams' = new /\ Handle(e) /\ outbox' = e
      /\ UNCHANGED <<remote, lookup, pull_request, stack, range, section, browser, used>>
    BY DEF Sync, Handle
<1>2. Clearing(streams, inspector)
    BY <1>0, NothingIsCleared
<1>3. new = AskAll(inspector, streams, {"tip"} \cup StreamsOf(inspector), FALSE)
    BY DEF Read
<1> HIDE DEF new
<1>4. /\ new \in [Streams -> Stream] /\ \A s \in Streams : Rests(new[s], Who(inspector, s))
      /\ e \in Seq(Command) /\ \A c \in Elements(e) : c.kind \in StreamKinds
      /\ \A s \in Streams : StreamMoves(s, streams[s], new[s], Who(inspector, s),
                                        Who(inspector, s), Elements(e))
    BY <1>0, <1>2, <1>3, AskAllMoves
<1> HIDE DEF e
<1>5. /\ inspector' \in Inspector /\ \A s \in Streams : Who(inspector', s) = Who(inspector, s)
      /\ inspector'.selected = inspector.selected /\ inspector'.tip = inspector.tip
    BY <1>0, <1>1, WhoIsNamed DEF Synced, Inspector
<1>6. \A k : ~ Hearing(FALSE, k)
    BY DEF Hearing
<1>7. (\A s \in Streams : StreamGoes(s, FALSE)) /\ StreamsRest'
    BY <1>1, <1>4, <1>5, <1>6, StreamsGo
<1>8. LookupGoes(FALSE) /\ BrowserGoes(FALSE)
    BY <1>1, <1>4, <1>6, LookupStays, BrowserStays, SortsOfKinds
<1>9. World'
    BY <1>0, <1>1, WorldCounts
<1>10. PanesTyped'
    BY <1>0, <1>1, <1>4, <1>5 DEF PanesTyped
<1>11. ShapeOK'
    BY <1>0, <1>1, <1>5 DEF ShapeOK, SelectionFollowsTheStack, Fits, Cursor, Tip
<1> QED
    BY <1>1, <1>4, <1>7, <1>8, <1>9, <1>10, <1>11 DEF Handled

LEMMA PollHandled ==
    ASSUME InspectorInv, NEW due, Poll(due)
    PROVE  Handled(FALSE)
<1> DEFINE new == AskAll(inspector, streams, due, TRUE)
           l == IF "lookup" \in due /\ ~ lookup.loading THEN LookUp(lookup, TRUE) ELSE lookup
           e == StreamEffects(inspector, streams, new)
           f == LookupEffects(lookup, l, "LookupPullRequest")
<1>0. /\ World /\ PanesTyped /\ ShapeOK /\ StreamsRest
      /\ inspector \in Inspector /\ streams \in [Streams -> Stream] /\ lookup \in LookupPane
    BY DEF InspectorInv, PanesTyped
<1>1. /\ streams' = new /\ lookup' = l /\ Handle(e \o f) /\ outbox' = e \o f
      /\ used' = used \/ used' = [used EXCEPT !.polls = @ + 1]
      /\ UNCHANGED <<remote, pull_request, stack, range, section, inspector, browser>>
    BY DEF Poll, Handle
<1>2. Clearing(streams, inspector)
    BY <1>0, NothingIsCleared
<1> HIDE DEF new
<1>4. /\ new \in [Streams -> Stream] /\ \A s \in Streams : Rests(new[s], Who(inspector, s))
      /\ e \in Seq(Command) /\ \A c \in Elements(e) : c.kind \in StreamKinds
      /\ \A s \in Streams : StreamMoves(s, streams[s], new[s], Who(inspector, s),
                                        Who(inspector, s), Elements(e))
    BY <1>0, <1>2, AskAllMoves DEF new
<1>5. /\ l \in LookupPane
      /\ l = lookup \/ (l # lookup /\ l.loading /\ ~ l.stack_loading)
    BY <1>0, LookUpIs
<1> HIDE DEF l, e
<1>6. /\ f \in Seq(Command)
      /\ \A c \in Elements(f) : c.kind = "LookupPullRequest" /\ c.generation = l.generation
      /\ lookup # l => \E c \in Elements(f) : c.kind = "LookupPullRequest"
                                              /\ c.generation = l.generation
      /\ lookup = l => Elements(f) = {}
    <2>1. "LookupPullRequest" \in LookupKinds
        BY DEF LookupKinds
    <2>2. lookup = l => f = <<>>
        BY DEF LookupEffects
    <2> QED
        BY <1>5, <2>1, <2>2, LookupEffectsAre, NoEffect
<1> HIDE DEF f
<1>7. outbox' \in Seq(Command) /\ Elements(outbox') = Elements(e) \cup Elements(f)
    BY <1>1, <1>4, <1>6, ConcatElements
<1>8. \A k : ~ Hearing(FALSE, k)
    BY DEF Hearing
<1>9. \A c \in Elements(f) : c.kind \notin StreamKinds
    BY <1>6, SortsOfKinds DEF LookupKinds
<1>10. (\A s \in Streams : StreamGoes(s, FALSE)) /\ StreamsRest'
    BY <1>1, <1>4, <1>7, <1>8, <1>9, StreamsGo
<1>11. LookupGoes(FALSE)
    <2>1. \A c \in Elements(e) : c.kind \notin LookupKinds
        BY <1>4, SortsOfKinds
    <2> QED
        BY <1>1, <1>5, <1>6, <1>7, <1>8, <2>1 DEF LookupGoes, LookupKinds
<1>12. BrowserGoes(FALSE)
    <2>1. \A c \in Elements(outbox') : c.kind # "LoadPullRequestCommits"
        BY <1>4, <1>6, <1>7, SortsOfKinds
    <2> QED
        BY <1>1, <2>1, BrowserStays
<1>13. World'
    BY <1>0, <1>1, WorldCounts
<1>14. PanesTyped'
    BY <1>0, <1>1, <1>4, <1>5 DEF PanesTyped
<1>15. ShapeOK'
    BY <1>0, <1>1 DEF ShapeOK, SelectionFollowsTheStack, Fits, Cursor, Tip
<1> QED
    BY <1>1, <1>7, <1>10, <1>11, <1>12, <1>13, <1>14, <1>15 DEF Handled
-----------------------------------------------------------------------------
(* The user. *)

(* What is left of a pull request that is closed. *)
LEMMA ResetLeaves ==
    ASSUME InspectorInv, Reset, NEW hearing \in BOOLEAN,
           \A s \in Streams : ~ Hearing(hearing, KindOf[s]),
           \A c \in Elements(outbox') : c.kind \in LookupKinds
    PROVE  /\ stack' = <<>> /\ stack' \in Stacks /\ section' = "Overview"
           /\ inspector' \in Inspector /\ streams' \in [Streams -> Stream]
           /\ browser' \in Browser /\ ShapeOK' /\ StreamsRest'
           /\ \A s \in Streams : StreamGoes(s, hearing)
           /\ BrowserGoes(hearing)
<1> DEFINE i == Reconciled(inspector, <<>>, NoRange)
           new == Cleared(inspector, i, streams)
<1>0. /\ StreamsRest /\ inspector \in Inspector /\ streams \in [Streams -> Stream]
      /\ browser \in Browser /\ browser.generation \in Generation
    BY DEF InspectorInv, PanesTyped, Browser
<1>1. /\ stack' = <<>> /\ range' = NoRange /\ section' = "Overview" /\ inspector' = i
      /\ streams' = new /\ browser' = NewBrowser(browser)
    BY DEF Reset
<1>2. Fits(NoRange, <<>>) /\ <<>> \in Stacks
    BY EmptyStack DEF Fits
<1>3. /\ i \in Inspector /\ i.selected = NoMember /\ i.tip = NoMember
      /\ i.selected = Cursor(<<>>, NoRange) /\ i.tip = Tip(<<>>)
    BY <1>0, <1>2, ReconciledIs, CursorsAreMembers
<1> HIDE DEF i
<1>4. Clearing(new, i) /\ new = [s \in Streams |-> new[s]]
    BY <1>3, ClearedIs DEF Cleared
<1> HIDE DEF new
<1>5. /\ new \in [Streams -> Stream] /\ \A s \in Streams : Rests(new[s], Who(i, s))
      /\ \A s \in Streams : StreamMoves(s, streams[s], new[s], Who(inspector, s), Who(i, s), {})
    BY <1>0, <1>3, <1>4, ClearedStreams
<1>6. (\A s \in Streams : StreamGoes(s, hearing)) /\ StreamsRest'
    BY <1>1, <1>5, StreamsGo, SortsOfKinds
<1>7. /\ browser' \in Browser /\ browser'.owner = NoMember /\ browser'.shows = NoMember
      /\ browser'.generation = Following(browser.generation)
      /\ browser'.generation # browser.generation
    BY <1>0, <1>1, NewBrowserIs
<1>8. BrowserGoes(hearing)
    BY <1>7, SortsOfKinds DEF BrowserGoes
<1>9. ShapeOK'
    BY <1>1, <1>2, <1>3, <1>7 DEF ShapeOK, SelectionFollowsTheStack
<1> QED
    BY <1>1, <1>2, <1>3, <1>5, <1>6, <1>7, <1>8, <1>9

LEMMA OpenHandled ==
    ASSUME InspectorInv, NEW refresh \in BOOLEAN, Open(refresh)
    PROVE  Handled(FALSE)
<1>0. /\ World /\ PanesTyped /\ ShapeOK /\ StreamsRest /\ lookup \in LookupPane
    BY DEF InspectorInv, PanesTyped
<1>1. World'
    BY <1>0, PressCounts DEF Open
<1>2. \A k : ~ Hearing(FALSE, k)
    BY DEF Hearing
<1>3. PICK l : lookup' = l /\ l \in {lookup, LookUp(lookup, TRUE), LookUp(lookup, refresh)}
    BY DEF Open
<1>4. l \in LookupPane /\ (l = lookup \/ (l # lookup /\ l.loading /\ ~ l.stack_loading))
    BY <1>0, <1>3, LookUpIs
<1> DEFINE f == LookupEffects(lookup, l, "LookupPullRequest")
<1>5. Handle(f) /\ outbox' = f
    BY <1>3 DEF Open, Handle
<1>6. /\ f \in Seq(Command)
      /\ \A c \in Elements(f) : c.kind = "LookupPullRequest" /\ c.generation = l.generation
      /\ lookup # l => \E c \in Elements(f) : c.kind = "LookupPullRequest"
                                              /\ c.generation = l.generation
      /\ lookup = l => Elements(f) = {}
    <2>1. "LookupPullRequest" \in LookupKinds
        BY DEF LookupKinds
    <2>2. lookup = l => f = <<>>
        BY DEF LookupEffects
    <2> QED
        BY <1>4, <2>1, <2>2, LookupEffectsAre, NoEffect
<1> HIDE DEF f
<1>7. LookupGoes(FALSE)
    BY <1>2, <1>3, <1>4, <1>5, <1>6 DEF LookupGoes
<1>8. \A c \in Elements(outbox') : c.kind \in LookupKinds /\ c.kind \notin StreamKinds
                                   /\ c.kind # "LoadPullRequestCommits"
    BY <1>5, <1>6, SortsOfKinds DEF LookupKinds
<1>9. CASE refresh /\ stack # <<>>
    <2>1. UNCHANGED <<pull_request, stack, range, section, inspector, streams, browser>>
        BY <1>9 DEF Open
    <2>2. (\A s \in Streams : StreamGoes(s, FALSE)) /\ StreamsRest'
        BY <1>2, <1>8, <2>1, StreamsStayPut
    <2>3. BrowserGoes(FALSE)
        BY <1>8, <2>1, BrowserStays
    <2>4. PanesTyped'
        BY <1>0, <1>3, <1>4, <2>1 DEF PanesTyped
    <2>5. ShapeOK'
        BY <1>0, <2>1 DEF ShapeOK, SelectionFollowsTheStack, Fits, Cursor, Tip
    <2> QED
        BY <1>1, <1>5, <1>6, <1>7, <2>2, <2>3, <2>4, <2>5 DEF Handled
<1>10. CASE ~ (refresh /\ stack # <<>>)
    <2>1. Reset /\ pull_request' = NoMember
        BY <1>10 DEF Open
    <2>2. /\ stack' \in Stacks /\ section' = "Overview"
          /\ inspector' \in Inspector /\ streams' \in [Streams -> Stream]
          /\ browser' \in Browser /\ ShapeOK' /\ StreamsRest'
          /\ \A s \in Streams : StreamGoes(s, FALSE)
          /\ BrowserGoes(FALSE)
        BY <1>2, <1>8, <2>1, ResetLeaves
    <2>3. PanesTyped'
        BY <1>3, <1>4, <2>1, <2>2, NamesAre DEF PanesTyped
    <2> QED
        BY <1>1, <1>5, <1>6, <1>7, <2>2, <2>3 DEF Handled
<1> QED
    BY <1>9, <1>10
(* Clearing what is of another member and asking for what is not shown. *)
LEMMA ReadAnew ==
    ASSUME StreamsRest, NEW i \in Inspector, i.tip = NoMember => i.selected = NoMember,
           NEW j \in Inspector, \A s \in Streams : Who(j, s) = Who(i, s),
           NEW refresh \in BOOLEAN, NEW mid, mid = Cleared(inspector, i, streams),
           NEW new, new = Read(j, mid, refresh)
    PROVE  /\ new \in [Streams -> Stream] /\ \A s \in Streams : Rests(new[s], Who(j, s))
           /\ StreamEffects(j, mid, new) \in Seq(Command)
           /\ \A c \in Elements(StreamEffects(j, mid, new)) : c.kind \in StreamKinds
           /\ \A s \in Streams : StreamMoves(s, streams[s], new[s], Who(inspector, s), Who(j, s),
                                             Elements(StreamEffects(j, mid, new)))
<1>1. Clearing(mid, i)
    BY ClearedIs
<1>2. Clearing(mid, j)
    BY <1>1 DEF Clearing
<1>3. new = AskAll(j, mid, {"tip"} \cup StreamsOf(j), refresh)
    BY DEF Read
<1> QED
    BY <1>2, <1>3, AskAllMoves

LEMMA MoveIs ==
    ASSUME PanesTyped, ShapeOK, NEW p, NEW extend \in BOOLEAN, Move(p, extend)
    PROVE  /\ section = "Stack" /\ stack # <<>> /\ Fits(range', stack)
           /\ Moved \in Inspector
           /\ Moved.selected = Cursor(stack, range') /\ Moved.tip = Tip(stack)
           /\ Tip(stack) \in Member
<1>1. /\ section = "Stack" /\ p \in DOMAIN stack
      /\ range' = [cursor |-> p, anchor |-> IF extend THEN range.anchor ELSE p]
    BY DEF Move
<1>2. stack # <<>> /\ range \in [cursor : DOMAIN stack, anchor : DOMAIN stack]
    BY <1>1 DEF ShapeOK, Fits
<1>3. PICK r : r = range'
    OBVIOUS
<1>4. r = [cursor |-> p, anchor |-> IF extend THEN range.anchor ELSE p]
    BY <1>1, <1>3
<1>5. r \in [cursor : DOMAIN stack, anchor : DOMAIN stack] /\ r.cursor = p
    BY <1>1, <1>2, <1>4
<1>6. Fits(r, stack)
    BY <1>2, <1>5 DEF Fits
<1>7. stack \in Stacks /\ inspector \in Inspector
    BY DEF PanesTyped
<1>8. /\ Reconciled(inspector, stack, r) \in Inspector
      /\ Reconciled(inspector, stack, r).selected = Cursor(stack, r)
      /\ Reconciled(inspector, stack, r).tip = Tip(stack) /\ Tip(stack) \in Member
    BY <1>2, <1>6, <1>7, ReconciledIs, CursorsAreMembers
<1>9. Moved = IF Ends(r) = Ends(range) THEN inspector ELSE Reconciled(inspector, stack, r)
    BY <1>3 DEF Moved
<1>10. Ends(r) = Ends(range) => r.cursor = range.cursor
    BY <1>4 DEF Ends
<1>11. /\ Moved \in Inspector /\ Moved.selected = Cursor(stack, r) /\ Moved.tip = Tip(stack)
    <2>1. CASE Ends(r) = Ends(range)
        <3>1. Cursor(stack, r) = Cursor(stack, range)
            BY <1>10, <2>1 DEF Cursor
        <3> QED
            BY <1>7, <1>9, <2>1, <3>1 DEF ShapeOK, SelectionFollowsTheStack
    <2>2. CASE Ends(r) # Ends(range)
        BY <1>8, <1>9, <2>2
    <2> QED
        BY <2>1, <2>2
<1> QED
    BY <1>1, <1>2, <1>3, <1>6, <1>8, <1>11

LEMMA SelectMemberHandled ==
    ASSUME InspectorInv, NEW p, NEW extend \in BOOLEAN, SelectMember(p, extend)
    PROVE  Handled(FALSE)
<1>0. /\ World /\ PanesTyped /\ ShapeOK /\ StreamsRest /\ inspector \in Inspector
    BY DEF InspectorInv, PanesTyped
<1>1. /\ Move(p, extend) /\ inspector' = Moved
      /\ streams' = Cleared(inspector, inspector', streams) /\ Handle(<<>>) /\ outbox' = <<>>
      /\ UNCHANGED <<lookup, pull_request, stack, section, browser>>
    BY DEF SelectMember, Handle
<1>2. World'
    BY <1>0, PressCounts DEF SelectMember
<1>3. \A k : ~ Hearing(FALSE, k)
    BY DEF Hearing
<1>4. /\ section = "Stack" /\ stack # <<>> /\ Fits(range', stack)
      /\ inspector' \in Inspector
      /\ inspector'.selected = Cursor(stack, range') /\ inspector'.tip = Tip(stack)
      /\ Tip(stack) \in Member
    BY <1>0, <1>1, MoveIs
<1>5. PICK i : i = inspector'
    OBVIOUS
<1> DEFINE new == Cleared(inspector, i, streams)
<1>6. i \in Inspector /\ i.tip # NoMember
    BY <1>4, <1>5, NamesAre
<1>7. Clearing(new, i) /\ new = [s \in Streams |-> new[s]]
    BY <1>6, ClearedIs DEF Cleared
<1>8. streams' = new
    BY <1>1, <1>5
<1> HIDE DEF new
<1>9. /\ new \in [Streams -> Stream] /\ \A s \in Streams : Rests(new[s], Who(i, s))
      /\ \A s \in Streams : StreamMoves(s, streams[s], new[s], Who(inspector, s), Who(i, s), {})
    BY <1>0, <1>6, <1>7, ClearedStreams
<1>10. outbox' \in Seq(Command) /\ Elements(outbox') = {}
    BY <1>1, NoEffect
<1>11. (\A s \in Streams : StreamGoes(s, FALSE)) /\ StreamsRest'
    BY <1>3, <1>5, <1>8, <1>9, <1>10, StreamsGo
<1>12. LookupGoes(FALSE) /\ BrowserGoes(FALSE)
    BY <1>1, <1>3, <1>10, LookupStays, BrowserStays
<1>13. PanesTyped'
    BY <1>0, <1>1, <1>4, <1>8, <1>9 DEF PanesTyped
<1>14. ShapeOK'
    BY <1>0, <1>1, <1>4 DEF ShapeOK, SelectionFollowsTheStack, Fits, Cursor, Tip
<1> QED
    BY <1>1, <1>2, <1>10, <1>11, <1>12, <1>13, <1>14 DEF Handled

(* A section is selected of a member that was moved to, or not. *)
LEMMA SelectHandled ==
    ASSUME InspectorInv, World', NEW i \in Inspector, NEW s \in Sections,
           section = "Stack", stack # <<>>, Fits(range', stack),
           i.selected = Cursor(stack, range'), i.tip = Tip(stack),
           inspector' = Synced([i EXCEPT !.section = s]),
           streams' = Read(inspector', Cleared(inspector, i, streams), FALSE),
           Handle(StreamEffects(inspector', Cleared(inspector, i, streams), streams')),
           UNCHANGED <<lookup, pull_request, stack, section, browser>>
    PROVE  Handled(FALSE)
<1>0. /\ PanesTyped /\ ShapeOK /\ StreamsRest /\ inspector \in Inspector /\ stack \in Stacks
    BY DEF InspectorInv, PanesTyped
<1>1. PICK j : j = inspector'
    OBVIOUS
<1>2. j = Synced([i EXCEPT !.section = s])
    BY <1>1
<1>3. /\ j \in Inspector /\ j.selected = i.selected /\ j.tip = i.tip
    BY <1>2 DEF Synced, Inspector
<1>4. \A t \in Streams : Who(j, t) = Who(i, t)
    BY <1>3 DEF Who
<1>5. i.tip # NoMember
    <2>1. Tip(stack) \in Member
        <3>1. stack[Len(stack)] \in Member
            BY <1>0, StacksAre
        <3> QED
            BY <3>1 DEF Tip
    <2> QED
        BY <2>1, NamesAre
<1> DEFINE mid == Cleared(inspector, i, streams)
           new == Read(j, mid, FALSE)
           e == StreamEffects(j, mid, new)
<1>6. streams' = new /\ Handle(e) /\ outbox' = e
    BY <1>1 DEF Handle
<1> HIDE DEF mid, new
<1>7. /\ new \in [Streams -> Stream] /\ \A t \in Streams : Rests(new[t], Who(j, t))
      /\ e \in Seq(Command) /\ \A c \in Elements(e) : c.kind \in StreamKinds
      /\ \A t \in Streams : StreamMoves(t, streams[t], new[t], Who(inspector, t),
                                        Who(j, t), Elements(e))
    BY <1>0, <1>3, <1>4, <1>5, ReadAnew DEF mid, new
<1> HIDE DEF e
<1>8. \A k : ~ Hearing(FALSE, k)
    BY DEF Hearing
<1>9. (\A t \in Streams : StreamGoes(t, FALSE)) /\ StreamsRest'
    BY <1>1, <1>6, <1>7, <1>8, StreamsGo
<1>10. LookupGoes(FALSE) /\ BrowserGoes(FALSE)
    BY <1>6, <1>7, <1>8, LookupStays, BrowserStays, SortsOfKinds
<1>11. PanesTyped'
    BY <1>0, <1>1, <1>3, <1>6, <1>7 DEF PanesTyped
<1>12. ShapeOK'
    BY <1>0, <1>1, <1>3 DEF ShapeOK, SelectionFollowsTheStack, Fits, Cursor, Tip
<1> QED
    BY <1>6, <1>7, <1>9, <1>10, <1>11, <1>12 DEF Handled

LEMMA SelectSectionHandled ==
    ASSUME InspectorInv, NEW s \in Sections, SelectSection(s)
    PROVE  Handled(FALSE)
<1>0. /\ World /\ PanesTyped /\ ShapeOK /\ inspector \in Inspector
    BY DEF InspectorInv, PanesTyped
<1>1. World'
    BY <1>0, PressCounts DEF SelectSection
<1>2. /\ section = "Stack"
      /\ range' = IF s = "Files" THEN [range EXCEPT !.anchor = range.cursor] ELSE range
      /\ Select(inspector, s)
    BY DEF SelectSection
<1>3. stack # <<>> /\ range \in [cursor : DOMAIN stack, anchor : DOMAIN stack]
    BY <1>0, <1>2 DEF ShapeOK, Fits
<1>4. /\ range' \in [cursor : DOMAIN stack, anchor : DOMAIN stack]
      /\ range'.cursor = range.cursor
    BY <1>2, <1>3
<1>5. Fits(range', stack) /\ Cursor(stack, range') = Cursor(stack, range)
    BY <1>3, <1>4 DEF Fits, Cursor
<1>6. inspector.selected = Cursor(stack, range') /\ inspector.tip = Tip(stack)
    BY <1>0, <1>5 DEF ShapeOK, SelectionFollowsTheStack
<1>7. /\ inspector' = Synced([inspector EXCEPT !.section = s])
      /\ streams' = Read(inspector', Cleared(inspector, inspector, streams), FALSE)
      /\ Handle(StreamEffects(inspector', Cleared(inspector, inspector, streams), streams'))
      /\ UNCHANGED <<lookup, pull_request, stack, section, browser>>
    BY <1>2 DEF Select
<1> QED
    BY <1>0, <1>1, <1>2, <1>3, <1>5, <1>6, <1>7, SelectHandled

LEMMA InspectTipHandled ==
    ASSUME InspectorInv, InspectTip
    PROVE  Handled(FALSE)
<1>0. World /\ PanesTyped /\ ShapeOK
    BY DEF InspectorInv
<1>1. World'
    BY <1>0, PressCounts DEF InspectTip
<1>2. Move(Len(stack), FALSE) /\ Select(Moved, "Checks")
    BY DEF InspectTip
<1>3. /\ section = "Stack" /\ stack # <<>> /\ Fits(range', stack)
      /\ Moved \in Inspector
      /\ Moved.selected = Cursor(stack, range') /\ Moved.tip = Tip(stack)
    BY <1>0, <1>2, MoveIs
<1>4. /\ inspector' = Synced([Moved EXCEPT !.section = "Checks"])
      /\ streams' = Read(inspector', Cleared(inspector, Moved, streams), FALSE)
      /\ Handle(StreamEffects(inspector', Cleared(inspector, Moved, streams), streams'))
      /\ UNCHANGED <<lookup, pull_request, stack, section, browser>>
    BY <1>2 DEF Select
<1>5. PICK i : i = Moved
    OBVIOUS
<1>6. "Checks" \in Sections
    BY DEF Sections
<1>7. /\ inspector' = Synced([i EXCEPT !.section = "Checks"])
      /\ streams' = Read(inspector', Cleared(inspector, i, streams), FALSE)
      /\ Handle(StreamEffects(inspector', Cleared(inspector, i, streams), streams'))
    BY <1>4, <1>5 DEF Handle
<1>8. i \in Inspector /\ i.selected = Cursor(stack, range') /\ i.tip = Tip(stack)
    BY <1>3, <1>5
<1> QED
    BY <1>1, <1>3, <1>4, <1>6, <1>7, <1>8, SelectHandled

LEMMA ShowSectionHandled ==
    ASSUME InspectorInv, NEW s \in {"Overview", "Files"}, ShowSection(s)
    PROVE  Handled(FALSE)
<1>0. World /\ PanesTyped /\ ShapeOK
    BY DEF InspectorInv
<1>1. World'
    BY <1>0, PressCounts DEF ShowSection
<1>2. /\ section' = s /\ Handle(<<>>) /\ outbox' = <<>>
      /\ UNCHANGED <<lookup, pull_request, stack, range, inspector, streams, browser>>
    BY DEF ShowSection, Handle
<1>3. outbox' \in Seq(Command) /\ Elements(outbox') = {}
    BY <1>2, NoEffect
<1>4. \A k : ~ Hearing(FALSE, k)
    BY DEF Hearing
<1>5. (\A t \in Streams : StreamGoes(t, FALSE)) /\ StreamsRest'
    BY <1>2, <1>3, <1>4, StreamsStayPut
<1>6. LookupGoes(FALSE) /\ BrowserGoes(FALSE)
    BY <1>2, <1>3, <1>4, LookupStays, BrowserStays
<1>7. PanesTyped'
    BY <1>0, <1>2 DEF PanesTyped
<1>8. ShapeOK'
    BY <1>0, <1>2 DEF ShapeOK, SelectionFollowsTheStack, Fits, Cursor, Tip
<1> QED
    BY <1>1, <1>2, <1>3, <1>5, <1>6, <1>7, <1>8 DEF Handled

LEMMA ListCommitsHandled ==
    ASSUME InspectorInv, ListCommits
    PROVE  Handled(FALSE)
<1>0. /\ World /\ PanesTyped /\ ShapeOK /\ browser \in Browser /\ pull_request \in Names
      /\ browser.generation \in Generation /\ SelectedPullRequest \in Names
    BY SelectedIsNamed DEF InspectorInv, PanesTyped, Browser
<1>1. World'
    BY <1>0, PressCounts DEF ListCommits
<1> DEFINE b == IF section = "Stack"
                THEN [NewBrowser(browser) EXCEPT !.owner = SelectedPullRequest] ELSE browser
           n == Browse(b, pull_request)
           f == BrowserEffects(b, n, pull_request)
<1>2. /\ section' = "Commits" /\ browser' = n /\ Handle(f) /\ outbox' = f
      /\ UNCHANGED <<lookup, pull_request, stack, range, inspector, streams>>
    BY DEF ListCommits, Handle
<1>3. /\ NewBrowser(browser) \in Browser /\ NewBrowser(browser).shows = NoMember
      /\ NewBrowser(browser).generation = Following(browser.generation)
    BY <1>0, NewBrowserIs
<1>4. /\ Following(browser.generation) # browser.generation
      /\ Following(Following(browser.generation)) # browser.generation
    BY <1>0, GenerationsMove
<1>5. /\ b \in Browser
      /\ \/ b = browser
         \/ b.generation = Following(browser.generation) /\ b.shows = NoMember
            /\ section = "Stack"
    BY <1>0, <1>3 DEF Browser
<1>6. b.owner = NoMember \/ b.owner = browser.owner \/ stack # <<>>
    BY <1>0, <1>3 DEF Browser, ShapeOK
<1> HIDE DEF b
<1>7. /\ n \in Browser /\ n.owner = b.owner /\ n.shows = b.shows
      /\ Listed(n, pull_request) = Listed(b, pull_request)
      /\ n.generation \in {b.generation, Following(b.generation)}
      /\ f \in Seq(Command)
      /\ \A c \in Elements(f) : /\ c.kind = "LoadPullRequestCommits"
                                /\ c.generation = n.generation
                                /\ c.generation = Following(b.generation)
                                /\ c.member = Listed(b, pull_request)
    BY <1>0, <1>5, BrowseIs
<1> HIDE DEF n, f
<1>8. \A k : ~ Hearing(FALSE, k)
    BY DEF Hearing
<1>9. \A c \in Elements(outbox') : c.kind = "LoadPullRequestCommits"
    BY <1>2, <1>7
<1>10. (\A t \in Streams : StreamGoes(t, FALSE)) /\ StreamsRest'
    BY <1>2, <1>8, <1>9, SortsOfKinds, StreamsStayPut
<1>11. LookupGoes(FALSE)
    BY <1>2, <1>8, <1>9, SortsOfKinds, LookupStays
<1>12. BrowserGoes(FALSE)
    <2>1. \A c \in Elements(outbox') : /\ c.generation = n.generation
                                       /\ c.generation = Following(b.generation)
                                       /\ c.member = Listed(n, pull_request)
        BY <1>2, <1>7
    <2>2. CASE b = browser
        <3>1. SameHead(Listed(n, pull_request), Listed(browser, pull_request))
            BY <1>7, <2>2, SameHeadIsShared
        <3> QED
            BY <1>2, <1>4, <1>7, <2>1, <2>2, <3>1 DEF BrowserGoes
    <2>3. CASE b.generation = Following(browser.generation) /\ b.shows = NoMember
        BY <1>2, <1>4, <1>7, <2>1, <2>3 DEF BrowserGoes
    <2> QED
        BY <1>5, <2>2, <2>3
<1>13. PanesTyped'
    BY <1>0, <1>2, <1>7 DEF PanesTyped
<1>14. ShapeOK'
    BY <1>0, <1>2, <1>6, <1>7 DEF ShapeOK, SelectionFollowsTheStack, Fits, Cursor, Tip
<1> QED
    BY <1>1, <1>2, <1>7, <1>10, <1>11, <1>12, <1>13, <1>14 DEF Handled

LEMMA InspectCommitHandled ==
    ASSUME InspectorInv, InspectCommit
    PROVE  Handled(FALSE)
<1>0. /\ World /\ PanesTyped /\ ShapeOK /\ pull_request \in Names
      /\ browser.generation \in Generation /\ SelectedPullRequest \in Names
      /\ streams["commits"].shows \in Names /\ inspector \in Inspector /\ stack \in Stacks
    BY SelectedIsNamed DEF InspectorInv, PanesTyped, Browser, Streams, Stream
<1>1. World'
    BY <1>0, PressCounts DEF InspectCommit
<1>2. /\ section = "Stack" /\ section' = "Files" /\ Handle(<<>>) /\ outbox' = <<>>
      /\ browser' = [NewBrowser(browser) EXCEPT
                       !.owner = SelectedPullRequest, !.introduced = TRUE,
                       !.shows = streams["commits"].shows]
      /\ UNCHANGED <<lookup, pull_request, stack, range, inspector, streams>>
    BY DEF InspectCommit, Handle
<1>3. /\ NewBrowser(browser) \in Browser
      /\ NewBrowser(browser).generation = Following(browser.generation)
      /\ Following(browser.generation) # browser.generation
    BY <1>0, NewBrowserIs, GenerationsMove
<1>4. /\ browser' \in Browser /\ browser'.owner = SelectedPullRequest
      /\ browser'.shows = streams["commits"].shows
      /\ browser'.generation = Following(browser.generation)
    BY <1>0, <1>2, <1>3 DEF Browser
<1>5. stack # <<>> /\ SelectedPullRequest \in Member
    <2>1. stack # <<>> /\ inspector.selected \in Member
        BY <1>0, <1>2, CursorsAreMembers DEF ShapeOK, SelectionFollowsTheStack
    <2> QED
        BY <1>0, <1>2, <2>1, SelectedIsNamed
<1>6. Listed(browser', pull_request') = SelectedPullRequest
    BY <1>4, <1>5, NamesAre DEF Listed
<1>7. outbox' \in Seq(Command) /\ Elements(outbox') = {}
    BY <1>2, NoEffect
<1>8. \A k : ~ Hearing(FALSE, k)
    BY DEF Hearing
<1>9. (\A t \in Streams : StreamGoes(t, FALSE)) /\ StreamsRest'
    BY <1>2, <1>7, <1>8, StreamsStayPut
<1>10. LookupGoes(FALSE)
    BY <1>2, <1>7, <1>8, LookupStays
<1>11. BrowserGoes(FALSE)
    BY <1>2, <1>3, <1>4, <1>6, <1>7 DEF BrowserGoes
<1>12. PanesTyped'
    BY <1>0, <1>2, <1>4 DEF PanesTyped
<1>13. ShapeOK'
    BY <1>0, <1>2, <1>5 DEF ShapeOK, SelectionFollowsTheStack, Fits, Cursor, Tip
<1> QED
    BY <1>1, <1>2, <1>7, <1>9, <1>10, <1>11, <1>12, <1>13 DEF Handled

LEMMA BackToStackHandled ==
    ASSUME InspectorInv, BackToStack
    PROVE  Handled(FALSE)
<1>0. /\ World /\ PanesTyped /\ ShapeOK /\ StreamsRest /\ stack \in Stacks
      /\ inspector \in Inspector /\ browser \in Browser /\ browser.generation \in Generation
    BY DEF InspectorInv, PanesTyped, Browser
<1>1. World'
    BY <1>0, PressCounts DEF BackToStack
<1> DEFINE i == Reconciled(inspector, stack, range)
           mid == Cleared(inspector, i, streams)
           new == Read(i, mid, FALSE)
           e == StreamEffects(i, mid, new)
<1>2. /\ stack # <<>> /\ section' = "Stack"
      /\ browser' = IF browser.owner = NoMember THEN browser ELSE NewBrowser(browser)
      /\ inspector' = Synced(i) /\ streams' = new /\ Handle(e) /\ outbox' = e
      /\ UNCHANGED <<lookup, pull_request, stack, range>>
    BY DEF BackToStack, Handle
<1>3. /\ i \in Inspector /\ i.selected = Cursor(stack, range) /\ i.tip = Tip(stack)
      /\ i.tip \in Member
    BY <1>0, <1>2, ReconciledIs, CursorsAreMembers DEF ShapeOK
<1> HIDE DEF i
<1>4. /\ inspector' \in Inspector /\ \A t \in Streams : Who(inspector', t) = Who(i, t)
      /\ inspector'.selected = i.selected /\ inspector'.tip = i.tip
    BY <1>2, <1>3, WhoIsNamed DEF Synced, Inspector
<1> HIDE DEF mid, new
<1>5. /\ new \in [Streams -> Stream] /\ \A t \in Streams : Rests(new[t], Who(i, t))
      /\ e \in Seq(Command) /\ \A c \in Elements(e) : c.kind \in StreamKinds
      /\ \A t \in Streams : StreamMoves(t, streams[t], new[t], Who(inspector, t),
                                        Who(i, t), Elements(e))
    BY <1>0, <1>3, NamesAre, ReadAnew DEF mid, new
<1> HIDE DEF e
<1>6. \A k : ~ Hearing(FALSE, k)
    BY DEF Hearing
<1>7. (\A t \in Streams : StreamGoes(t, FALSE)) /\ StreamsRest'
    BY <1>2, <1>4, <1>5, <1>6, StreamsGo
<1>8. LookupGoes(FALSE)
    BY <1>2, <1>5, <1>6, LookupStays, SortsOfKinds
<1>9. /\ NewBrowser(browser) \in Browser /\ NewBrowser(browser).owner = NoMember
      /\ NewBrowser(browser).shows = NoMember
      /\ NewBrowser(browser).generation = Following(browser.generation)
      /\ Following(browser.generation) # browser.generation
    BY <1>0, NewBrowserIs, GenerationsMove
<1>10. BrowserGoes(FALSE) /\ browser' \in Browser /\ browser'.owner = NoMember
    <2>1. \A c \in Elements(outbox') : c.kind # "LoadPullRequestCommits"
        BY <1>2, <1>5, SortsOfKinds
    <2>2. CASE browser.owner = NoMember
        <3>1. browser' = browser /\ pull_request' = pull_request
            BY <1>2, <2>2
        <3> QED
            BY <1>0, <2>1, <2>2, <3>1, BrowserStays
    <2>3. CASE browser.owner # NoMember
        BY <1>2, <1>9, <2>1, <2>3 DEF BrowserGoes
    <2> QED
        BY <2>2, <2>3
<1>11. PanesTyped'
    BY <1>0, <1>2, <1>4, <1>5, <1>10 DEF PanesTyped
<1>12. ShapeOK'
    BY <1>0, <1>2, <1>3, <1>4, <1>10 DEF ShapeOK, SelectionFollowsTheStack, Fits, Cursor, Tip
<1> QED
    BY <1>1, <1>2, <1>5, <1>7, <1>8, <1>10, <1>11, <1>12 DEF Handled
-----------------------------------------------------------------------------
(* What is heard. *)

LEMMA HeadIs ==
    ASSUME InspectorInv, answers # <<>>
    PROVE  /\ Head(answers) \in Event /\ Head(answers) \in Elements(answers)
           /\ Head(answers).command \in Command /\ Head(answers).ok \in BOOLEAN
           /\ Head(answers).seen \in Member /\ Head(answers).members \in Stacks
           /\ HoldsOpened(Head(answers).members)
           /\ Head(answers).command.kind
                 \notin {"LookupPullRequest", "LoadPullRequestStackMember"}
                 => Head(answers).seen = Head(answers).command.member
<1>1. answers \in Seq(Event)
    BY DEF InspectorInv, LaneTypeOK
<1>2. Head(answers) \in Event /\ Head(answers) \in Elements(answers)
    BY <1>1, TailElements
<1>3. /\ Head(answers).command \in Command /\ Head(answers).ok \in BOOLEAN
      /\ Head(answers).seen \in Member /\ Head(answers).members \in Stacks
    BY <1>2 DEF Event
<1> QED
    BY <1>2, <1>3 DEF InspectorInv, AnswersSound

LEMMA HearsOne ==
    ASSUME NEW k, Hears({k})
    PROVE  /\ answers # <<>> /\ remote' = remote /\ used' = used
           /\ Hearing(TRUE, k) /\ \A j : j # k => ~ Hearing(TRUE, j)
           /\ k \notin StreamKinds => \A s \in Streams : ~ Hearing(TRUE, KindOf[s])
<1>1. /\ answers # <<>> /\ Head(answers).command.kind = k /\ Current(Head(answers).command)
      /\ remote' = remote /\ used' = used
    BY DEF Hears
<1>2. Hearing(TRUE, k) /\ \A j : j # k => ~ Hearing(TRUE, j)
    BY <1>1 DEF Hearing
<1> QED
    BY <1>1, <1>2, StreamKindsDiffer

LEMMA IgnoreHandled ==
    ASSUME InspectorInv, Ignore
    PROVE  Handled(TRUE)
<1>0. World /\ PanesTyped /\ ShapeOK
    BY DEF InspectorInv
<1>1. /\ answers # <<>> /\ HandleAnswer(<<>>) /\ outbox' = <<>>
      /\ UNCHANGED <<remote, lookup, pull_request, stack, range, section, inspector, streams,
                     browser, used>>
    BY DEF Ignore, HandleAnswer, others, panes
<1>2. \A k : ~ Hearing(TRUE, k)
    BY DEF Ignore, Hearing
<1>3. outbox' \in Seq(Command) /\ Elements(outbox') = {}
    BY <1>1, NoEffect
<1>4. (\A t \in Streams : StreamGoes(t, TRUE)) /\ StreamsRest'
    BY <1>1, <1>2, <1>3, StreamsStayPut
<1>5. LookupGoes(TRUE) /\ BrowserGoes(TRUE)
    BY <1>1, <1>2, <1>3, LookupStays, BrowserStays
<1>6. World'
    BY <1>0, <1>1, WorldCounts
<1>7. PanesTyped'
    BY <1>0, <1>1 DEF PanesTyped
<1>8. ShapeOK'
    BY <1>0, <1>1 DEF ShapeOK, SelectionFollowsTheStack, Fits, Cursor, Tip
<1> QED
    BY <1>1, <1>3, <1>4, <1>5, <1>6, <1>7, <1>8 DEF Handled

LEMMA HearLookupHandled ==
    ASSUME InspectorInv, HearLookup
    PROVE  Handled(TRUE)
<1> DEFINE a == Head(answers)
           reset == IF a.ok /\ ~ SameHead(pull_request, a.seen) /\ browser.owner = NoMember
                    THEN NewBrowser(browser) ELSE browser
           b == IF reset # browser /\ section = "Commits" THEN Browse(reset, a.seen) ELSE reset
           l == [lookup EXCEPT !.loading = FALSE, !.stack_loading = a.ok]
           f == IF a.ok THEN LookupEffects(lookup, l, "LoadPullRequestStack") ELSE <<>>
           p == IF a.ok THEN a.seen ELSE pull_request
<1>0. /\ World /\ PanesTyped /\ ShapeOK /\ lookup \in LookupPane /\ pull_request \in Names
      /\ browser \in Browser /\ browser.generation \in Generation
    BY DEF InspectorInv, PanesTyped, Browser
<1>1. /\ Hears({"LookupPullRequest"})
      /\ lookup' = l /\ pull_request' = p
      /\ IF a.ok /\ pull_request = NoMember THEN Reset
         ELSE browser' = b /\ UNCHANGED <<stack, range, section, inspector, streams>>
      /\ HandleAnswer(BrowserEffects(reset, browser', a.seen) \o f)
      /\ outbox' = BrowserEffects(reset, browser', a.seen) \o f
    BY DEF HearLookup, HandleAnswer
<1>2. /\ answers # <<>> /\ remote' = remote /\ used' = used
      /\ Hearing(TRUE, "LookupPullRequest")
      /\ \A j : j # "LookupPullRequest" => ~ Hearing(TRUE, j)
      /\ \A s \in Streams : ~ Hearing(TRUE, KindOf[s])
    BY <1>1, HearsOne, SortsOfKinds DEF LookupKinds
<1>3. a.ok \in BOOLEAN /\ a.seen \in Member /\ a.seen \in Names
    BY <1>2, HeadIs, NamesAre
<1> HIDE DEF a
<1>4. /\ l \in LookupPane /\ ~ l.loading /\ l.stack_loading = a.ok
      /\ l.generation = lookup.generation
    BY <1>0, <1>3 DEF LookupPane
<1>5. a.ok /\ l = lookup => lookup.stack_loading
    BY <1>4
<1> HIDE DEF l
<1>6. /\ f \in Seq(Command)
      /\ \A c \in Elements(f) : c.kind = "LoadPullRequestStack" /\ c.generation = l.generation
      /\ a.ok /\ lookup # l => \E c \in Elements(f) :
            c.kind = "LoadPullRequestStack" /\ c.generation = l.generation
    <2>1. "LoadPullRequestStack" \in LookupKinds
        BY DEF LookupKinds
    <2> QED
        BY <1>4, <2>1, LookupEffectsAre, NoEffect
<1> HIDE DEF f
<1>7. /\ NewBrowser(browser) \in Browser /\ NewBrowser(browser).owner = NoMember
      /\ NewBrowser(browser).shows = NoMember /\ ~ NewBrowser(browser).loading
      /\ NewBrowser(browser).generation = Following(browser.generation)
    BY <1>0, NewBrowserIs DEF NewBrowser
<1>8. /\ Following(browser.generation) # browser.generation
      /\ Following(Following(browser.generation)) # browser.generation
    BY <1>0, GenerationsMove
<1>9. PICK g : g = BrowserEffects(reset, browser', a.seen)
    OBVIOUS
<1>10. CASE a.ok /\ pull_request = NoMember
    <2>1. Reset /\ browser' = NewBrowser(browser)
        BY <1>1, <1>10 DEF Reset
    <2>2. g = <<>>
        BY <1>7, <1>9, <2>1 DEF BrowserEffects
    <2>3. outbox' = <<>> \o f /\ HandleAnswer(<<>> \o f)
        BY <1>1, <1>9, <2>2
    <2>4. outbox' \in Seq(Command) /\ Elements(outbox') = Elements(f)
        BY <1>6, <2>3, NoEffect, ConcatElements
    <2>5. \A c \in Elements(outbox') : c.kind \in LookupKinds
        BY <1>6, <2>4 DEF LookupKinds
    <2>6. /\ stack' \in Stacks /\ section' = "Overview"
          /\ inspector' \in Inspector /\ streams' \in [Streams -> Stream]
          /\ browser' \in Browser /\ ShapeOK' /\ StreamsRest'
          /\ \A s \in Streams : StreamGoes(s, TRUE)
          /\ BrowserGoes(TRUE)
        BY <1>2, <2>1, <2>5, ResetLeaves
    <2>7. LookupGoes(TRUE)
        BY <1>1, <1>2, <1>4, <1>5, <1>6, <2>4 DEF LookupGoes
    <2>8. PanesTyped'
        BY <1>0, <1>1, <1>3, <1>4, <2>6 DEF PanesTyped
    <2>9. World'
        BY <1>0, <1>2, WorldCounts
    <2> QED
        BY <1>1, <1>2, <2>3, <2>4, <2>6, <2>7, <2>8, <2>9 DEF Handled
<1>11. CASE ~ (a.ok /\ pull_request = NoMember)
    <2>1. browser' = b /\ UNCHANGED <<stack, range, section, inspector, streams>>
        BY <1>1, <1>11
    <2>2. g = BrowserEffects(reset, b, a.seen)
        BY <1>9, <2>1
    <2>5. /\ outbox' \in Seq(Command) /\ BrowserGoes(TRUE)
          /\ \A c \in Elements(outbox') : c \in Elements(f) \/ c.kind = "LoadPullRequestCommits"
          /\ \A c \in Elements(f) : c \in Elements(outbox')
          /\ browser' \in Browser /\ browser'.owner = browser.owner
        <3>1. CASE reset = browser
            <4>1. b = browser /\ g = <<>>
                BY <2>2, <3>1 DEF BrowserEffects
            <4>2. SameHead(Listed(browser, p), Listed(browser, pull_request))
                <5>1. ~ (a.ok /\ ~ SameHead(pull_request, a.seen) /\ browser.owner = NoMember)
                    BY <1>7, <1>8, <3>1
                <5>2. browser.owner = NoMember => SameHead(p, pull_request)
                    BY <5>1, SameHeadIsShared
                <5>3. CASE browser.owner = NoMember
                    BY <5>2, <5>3 DEF Listed
                <5>4. CASE browser.owner # NoMember
                    BY <5>4, SameHeadIsShared DEF Listed
                <5> QED
                    BY <5>3, <5>4
            <4>3. outbox' \in Seq(Command) /\ Elements(outbox') = Elements(f)
                <5>1. outbox' = <<>> \o f
                    BY <1>1, <1>9, <4>1
                <5> QED
                    BY <1>6, <5>1, NoEffect, ConcatElements
            <4>4. BrowserGoes(TRUE)
                BY <1>1, <1>6, <2>1, <4>1, <4>2, <4>3 DEF BrowserGoes
            <4>5. \A c \in Elements(outbox') : c \in Elements(f) \/ c.kind = "LoadPullRequestCommits"
                BY <4>3
            <4>6. \A c \in Elements(f) : c \in Elements(outbox')
                BY <4>3
            <4>7. browser' \in Browser /\ browser'.owner = browser.owner
                BY <1>0, <2>1, <4>1
            <4> QED
                BY <4>3, <4>4, <4>5, <4>6, <4>7
        <3>2. CASE reset # browser
            <4>1. reset = NewBrowser(browser) /\ a.ok /\ browser.owner = NoMember
                BY <3>2
            <4>2. reset \in Browser /\ p = a.seen
                BY <1>7, <4>1
            <4> HIDE DEF reset
            <4>3. /\ b \in Browser /\ b.owner = reset.owner /\ b.shows = reset.shows
                  /\ Listed(b, a.seen) = Listed(reset, a.seen)
                  /\ b.generation \in {reset.generation, Following(reset.generation)}
                  /\ g \in Seq(Command)
                  /\ \A c \in Elements(g) : /\ c.kind = "LoadPullRequestCommits"
                                            /\ c.generation = b.generation
                                            /\ c.member = Listed(b, a.seen)
                <5>1. CASE section = "Commits"
                    <6>1. b = Browse(reset, a.seen)
                        BY <3>2, <5>1
                    <6> QED
                        BY <1>3, <2>2, <4>2, <6>1, BrowseIs
                <5>2. CASE section # "Commits"
                    <6>1. b = reset
                        BY <5>2
                    <6>2. g = <<>>
                        BY <2>2, <6>1 DEF BrowserEffects
                    <6> QED
                        BY <4>2, <6>1, <6>2, NoEffect
                <5> QED
                    BY <5>1, <5>2
            <4> HIDE DEF b
            <4>4. outbox' \in Seq(Command) /\ Elements(outbox') = Elements(g) \cup Elements(f)
                BY <1>1, <1>6, <1>9, <4>3, ConcatElements
            <4>5. BrowserGoes(TRUE)
                BY <1>1, <1>6, <1>7, <1>8, <2>1, <4>1, <4>2, <4>3, <4>4 DEF BrowserGoes
            <4>6. \A c \in Elements(outbox') : c \in Elements(f) \/ c.kind = "LoadPullRequestCommits"
                BY <4>3, <4>4
            <4>7. \A c \in Elements(f) : c \in Elements(outbox')
                BY <4>4
            <4>8. browser' \in Browser /\ browser'.owner = browser.owner
                BY <1>7, <2>1, <4>1, <4>3
            <4> QED
                BY <4>4, <4>5, <4>6, <4>7, <4>8
        <3> QED
            BY <3>1, <3>2
    <2>6. LookupGoes(TRUE)
        BY <1>1, <1>2, <1>4, <1>5, <1>6, <2>5 DEF LookupGoes
    <2>7. \A c \in Elements(outbox') : c.kind \notin StreamKinds
        BY <1>6, <2>5, SortsOfKinds DEF LookupKinds
    <2>8. (\A s \in Streams : StreamGoes(s, TRUE)) /\ StreamsRest'
        BY <1>2, <2>1, <2>7, StreamsStayPut
    <2>9. World'
        BY <1>0, <1>2, WorldCounts
    <2>10. PanesTyped'
        BY <1>0, <1>1, <1>3, <1>4, <2>1, <2>5 DEF PanesTyped
    <2>11. ShapeOK'
        BY <1>0, <2>1, <2>5 DEF ShapeOK, SelectionFollowsTheStack, Fits, Cursor, Tip
    <2>12. HandleAnswer(outbox')
        BY <1>1 DEF HandleAnswer
    <2> QED
        BY <1>2, <2>5, <2>6, <2>8, <2>9, <2>10, <2>11, <2>12 DEF Handled
<1> QED
    BY <1>10, <1>11

LEMMA RangeInFits ==
    ASSUME ShapeOK, NEW st \in Stacks, HoldsOpened(st)
    PROVE  Fits(RangeIn(st), st)
<1> DEFINE home == CHOOSE i \in DOMAIN st : st[i].id = Opened
<1>1. CASE st = <<>>
    BY <1>1 DEF RangeIn, Fits
<1>2. CASE st # <<>> /\ stack # <<>> /\ Ends(range) \subseteq DOMAIN st
    <2>1. range \in [cursor : DOMAIN stack, anchor : DOMAIN stack]
        BY <1>2 DEF ShapeOK, Fits
    <2>2. range \in [cursor : DOMAIN st, anchor : DOMAIN st]
        BY <1>2, <2>1 DEF Ends
    <2>3. RangeIn(st) = range
        BY <1>2 DEF RangeIn
    <2> QED
        BY <1>2, <2>2, <2>3 DEF Fits
<1>3. CASE st # <<>> /\ ~ (stack # <<>> /\ Ends(range) \subseteq DOMAIN st)
    <2>1. home \in DOMAIN st
        BY <1>3 DEF HoldsOpened
    <2>2. RangeIn(st) = [cursor |-> home, anchor |-> home]
        BY <1>3 DEF RangeIn
    <2> HIDE DEF home
    <2> QED
        BY <1>3, <2>1, <2>2 DEF Fits
<1> QED
    BY <1>1, <1>2, <1>3

(* An owner that the stack still has at its head passes on its list. *)
LEMMA DisownedIs ==
    ASSUME NEW st \in Stacks, NEW b \in Browser
    PROVE  /\ Disowned(st, b) \in Browser
           /\ b.owner = NoMember => Disowned(st, b) = b
           /\ st = <<>> => Disowned(st, b).owner = NoMember
           /\ \/ /\ Disowned(st, b).generation = b.generation
                 /\ Disowned(st, b).shows = b.shows
                 /\ \A p : SameHead(Listed(Disowned(st, b), p), Listed(b, p))
              \/ /\ Disowned(st, b).generation = Following(b.generation)
                 /\ Disowned(st, b).shows = NoMember
<1> DEFINE o == OwnerIn(st, b.owner)
<1>1. o \in Names /\ (st = <<>> => o = NoMember)
    <2>1. CASE \E i \in DOMAIN st : st[i].id = b.owner.id
        <3>1. PICK i \in DOMAIN st : i = CHOOSE x \in DOMAIN st : st[x].id = b.owner.id
            BY <2>1
        <3>2. o = st[i] /\ st # <<>>
            BY <2>1, <3>1, EmptyStack DEF OwnerIn
        <3>3. st[i] \in Member
            BY <3>1, StacksAre
        <3> QED
            BY <3>2, <3>3, NamesAre
    <2>2. CASE ~ \E i \in DOMAIN st : st[i].id = b.owner.id
        BY <2>2, NamesAre DEF OwnerIn
    <2> QED
        BY <2>1, <2>2
<1> HIDE DEF o
<1>2. CASE b.owner = NoMember
    <2>1. Disowned(st, b) = b
        BY <1>2 DEF Disowned
    <2> QED
        BY <1>2, <2>1, SameHeadIsShared
<1>3. CASE b.owner # NoMember /\ SameHead(o, b.owner)
    <2>1. Disowned(st, b) = [b EXCEPT !.owner = o]
        BY <1>3 DEF Disowned, o
    <2>2. b.owner \in Member
        BY <1>3, NamesAre DEF Browser
    <2>3. o # NoMember
        BY <1>3, <2>2, NamesAre, SameHeadIsShared
    <2>4. /\ Disowned(st, b) \in Browser /\ Disowned(st, b).owner = o
          /\ Disowned(st, b).generation = b.generation /\ Disowned(st, b).shows = b.shows
        BY <1>1, <2>1 DEF Browser
    <2>5. \A p : Listed(Disowned(st, b), p) = o /\ Listed(b, p) = b.owner
        BY <1>3, <2>3, <2>4 DEF Listed
    <2> QED
        BY <1>1, <1>3, <2>3, <2>4, <2>5
<1>4. CASE b.owner # NoMember /\ ~ SameHead(o, b.owner)
    <2>1. Disowned(st, b) = [NewBrowser(b) EXCEPT !.owner = o]
        BY <1>4 DEF Disowned, o
    <2>2. b.generation \in Generation
        BY DEF Browser
    <2>3. /\ NewBrowser(b) \in Browser /\ NewBrowser(b).shows = NoMember
          /\ NewBrowser(b).generation = Following(b.generation)
        BY <2>2, NewBrowserIs
    <2> QED
        BY <1>1, <1>4, <2>1, <2>3 DEF Browser
<1> QED
    BY <1>2, <1>3, <1>4

LEMMA HearStackHandled ==
    ASSUME InspectorInv, HearStack
    PROVE  Handled(TRUE)
<1> DEFINE l == [lookup EXCEPT !.stack_loading = FALSE]
<1>0. /\ World /\ PanesTyped /\ ShapeOK /\ StreamsRest /\ lookup \in LookupPane
      /\ pull_request \in Names /\ inspector \in Inspector
      /\ browser \in Browser /\ browser.generation \in Generation
      /\ lookup.refresh \in BOOLEAN
    BY DEF InspectorInv, PanesTyped, Browser, LookupPane
<1>1. /\ Hears({"LoadPullRequestStack"}) /\ lookup' = l /\ pull_request' = pull_request
      /\ IF Head(answers).ok THEN Apply(Head(answers).members)
         ELSE /\ HandleAnswer(<<>>)
              /\ UNCHANGED <<stack, range, section, inspector, streams, browser>>
    BY DEF HearStack
<1>2. /\ answers # <<>> /\ remote' = remote /\ used' = used
      /\ Hearing(TRUE, "LoadPullRequestStack")
      /\ \A j : j # "LoadPullRequestStack" => ~ Hearing(TRUE, j)
      /\ \A s \in Streams : ~ Hearing(TRUE, KindOf[s])
    BY <1>1, HearsOne, SortsOfKinds DEF LookupKinds
<1>3. /\ l \in LookupPane /\ l.loading = lookup.loading /\ ~ l.stack_loading
      /\ l.generation = lookup.generation
    BY <1>0 DEF LookupPane
<1> HIDE DEF l
<1>4. World'
    BY <1>0, <1>2, WorldCounts
<1>5. (\A c \in Elements(outbox') : c.kind \notin LookupKinds) => LookupGoes(TRUE)
    BY <1>1, <1>2, <1>3 DEF LookupGoes, LookupKinds
<1>6. CASE ~ Head(answers).ok
    <2>1. /\ HandleAnswer(<<>>) /\ outbox' = <<>>
          /\ UNCHANGED <<stack, range, section, inspector, streams, browser>>
        BY <1>1, <1>6 DEF HandleAnswer
    <2>2. outbox' \in Seq(Command) /\ Elements(outbox') = {}
        BY <2>1, NoEffect
    <2>3. (\A s \in Streams : StreamGoes(s, TRUE)) /\ StreamsRest'
        BY <1>2, <2>1, <2>2, StreamsStayPut
    <2>4. LookupGoes(TRUE) /\ BrowserGoes(TRUE)
        BY <1>1, <1>5, <2>1, <2>2, BrowserStays
    <2>5. PanesTyped'
        BY <1>0, <1>1, <1>3, <2>1 DEF PanesTyped
    <2>6. ShapeOK'
        BY <1>0, <2>1 DEF ShapeOK, SelectionFollowsTheStack, Fits, Cursor, Tip
    <2> QED
        BY <1>2, <1>4, <2>1, <2>2, <2>3, <2>4, <2>5, <2>6 DEF Handled
<1>7. CASE Head(answers).ok
    <2>1. PICK st : st = Head(answers).members
        OBVIOUS
    <2>2. st \in Stacks /\ HoldsOpened(st)
        BY <1>2, <2>1, HeadIs
    <2> DEFINE d == Disowned(st, browser)
               b == IF d.generation # browser.generation /\ section = "Commits"
                    THEN Browse(d, pull_request) ELSE d
               shown == IF st # <<>> /\ ((stack = <<>>) \/ b.owner = NoMember)
                        THEN "Stack" ELSE section
               r == RangeIn(st)
               i == Reconciled(inspector, st, r)
               mid == Cleared(inspector, i, streams)
               left == st = <<>> /\ shown = "Stack"
               new == IF left THEN mid ELSE Read(i, mid, lookup.refresh)
               g == BrowserEffects(d, b, pull_request)
               e == StreamEffects(i, mid, new)
    <2>3. Apply(st)
        BY <1>1, <1>7, <2>1
    <2>4. /\ stack' = st /\ range' = r /\ browser' = b
          /\ section' = IF left THEN "Overview" ELSE shown
          /\ inspector' = IF left THEN i ELSE Synced(i)
          /\ streams' = new
          /\ HandleAnswer(g \o e) /\ outbox' = g \o e
        BY <2>3 DEF Apply, HandleAnswer
    <2>5. /\ d \in Browser /\ (browser.owner = NoMember => d = browser)
          /\ st = <<>> => d.owner = NoMember
          /\ \/ /\ d.generation = browser.generation /\ d.shows = browser.shows
                /\ SameHead(Listed(d, pull_request), Listed(browser, pull_request))
             \/ d.generation = Following(browser.generation) /\ d.shows = NoMember
        BY <1>0, <2>2, DisownedIs
    <2> HIDE DEF d
    <2>6. /\ b \in Browser /\ b.owner = d.owner /\ b.shows = d.shows
          /\ Listed(b, pull_request) = Listed(d, pull_request)
          /\ b.generation \in {d.generation, Following(d.generation)}
          /\ g \in Seq(Command)
          /\ \A c \in Elements(g) : /\ c.kind = "LoadPullRequestCommits"
                                    /\ c.generation = b.generation
                                    /\ c.generation = Following(d.generation)
                                    /\ c.member = Listed(b, pull_request)
          /\ d.generation = browser.generation => b = d /\ Elements(g) = {}
        <3>1. CASE d.generation # browser.generation /\ section = "Commits"
            <4>1. b = Browse(d, pull_request)
                BY <3>1
            <4> QED
                BY <1>0, <2>5, <3>1, <4>1, BrowseIs
        <3>2. CASE ~ (d.generation # browser.generation /\ section = "Commits")
            <4>1. b = d
                BY <3>2
            <4>2. g = <<>>
                BY <4>1 DEF BrowserEffects
            <4> QED
                BY <2>5, <4>1, <4>2, NoEffect
        <3> QED
            BY <3>1, <3>2
    <2> HIDE DEF b, g
    <2>7. Fits(r, st)
        BY <1>0, <2>2, RangeInFits
    <2>8. /\ i \in Inspector /\ i.selected = Cursor(st, r) /\ i.tip = Tip(st)
          /\ i.tip = NoMember => i.selected = NoMember
        BY <1>0, <2>2, <2>7, ReconciledIs, CursorsAreMembers, NamesAre
    <2> HIDE DEF r, i
    <2>9. /\ inspector' \in Inspector /\ \A s \in Streams : Who(inspector', s) = Who(i, s)
          /\ inspector'.selected = i.selected /\ inspector'.tip = i.tip
        BY <2>4, <2>8, WhoIsNamed DEF Synced, Inspector
    <2>10. /\ new \in [Streams -> Stream] /\ \A s \in Streams : Rests(new[s], Who(i, s))
           /\ e \in Seq(Command) /\ \A c \in Elements(e) : c.kind \in StreamKinds
           /\ \A s \in Streams : StreamMoves(s, streams[s], new[s], Who(inspector, s),
                                             Who(i, s), Elements(e))
        <3>1. CASE left
            <4>1. Clearing(mid, i)
                BY <2>8, ClearedIs
            <4>2. mid = [s \in Streams |-> mid[s]]
                BY DEF Cleared
            <4> HIDE DEF mid
            <4>3. mid = AskAll(i, mid, {}, FALSE)
                <5>1. AskAll(i, mid, {}, FALSE) = [s \in Streams |-> mid[s]]
                    BY DEF AskAll
                <5> QED
                    BY <4>2, <5>1
            <4>4. new = mid
                BY <3>1
            <4> QED
                BY <1>0, <2>8, <4>1, <4>3, <4>4, AskAllMoves
        <3>2. CASE ~ left
            <4>1. new = Read(i, mid, lookup.refresh)
                BY <3>2
            <4> HIDE DEF mid, new
            <4> QED
                BY <1>0, <2>8, <4>1, ReadAnew DEF mid
        <3> QED
            BY <3>1, <3>2
    <2> HIDE DEF mid, new, e
    <2>11. outbox' \in Seq(Command) /\ Elements(outbox') = Elements(g) \cup Elements(e)
        BY <2>4, <2>6, <2>10, ConcatElements
    <2>12. \A c \in Elements(g) : c.kind \notin StreamKinds
        BY <2>6, SortsOfKinds
    <2>13. (\A s \in Streams : StreamGoes(s, TRUE)) /\ StreamsRest'
        BY <1>2, <2>4, <2>9, <2>10, <2>11, <2>12, StreamsGo
    <2>14. LookupGoes(TRUE)
        <3>1. \A c \in Elements(outbox') : c.kind \notin LookupKinds
            BY <2>6, <2>10, <2>11, SortsOfKinds
        <3> QED
            BY <1>5, <3>1
    <2>15. BrowserGoes(TRUE)
        <3>1. \A c \in Elements(outbox') : c.kind = "LoadPullRequestCommits" => c \in Elements(g)
            BY <2>10, <2>11, SortsOfKinds
        <3>2. /\ Following(browser.generation) # browser.generation
              /\ Following(Following(browser.generation)) # browser.generation
            BY <1>0, GenerationsMove
        <3>3. CASE d.generation = browser.generation
            <4>1. /\ b = d /\ d.shows = browser.shows
                  /\ SameHead(Listed(d, pull_request), Listed(browser, pull_request))
                BY <1>0, <2>5, <2>6, <3>2, <3>3
            <4>2. \A c \in Elements(outbox') : c.kind # "LoadPullRequestCommits"
                BY <2>6, <3>1, <3>3
            <4> QED
                BY <1>1, <2>4, <3>3, <4>1, <4>2 DEF BrowserGoes
        <3>4. CASE d.generation # browser.generation
            BY <1>1, <2>4, <2>5, <2>6, <3>1, <3>2, <3>4 DEF BrowserGoes
        <3> QED
            BY <3>3, <3>4
    <2>16. PanesTyped'
        <3>1. section' \in {"Overview", "Files", "Commits", "Stack"}
            BY <1>0, <2>4 DEF PanesTyped
        <3> QED
            BY <1>0, <1>1, <1>3, <2>2, <2>4, <2>6, <2>9, <2>10, <3>1 DEF PanesTyped
    <2>17. ShapeOK'
        <3>1. section' = "Stack" => st # <<>> /\ b.owner = NoMember
            BY <1>0, <2>4, <2>5, <2>6 DEF ShapeOK
        <3>2. st = <<>> => b.owner = NoMember
            BY <2>5, <2>6
        <3>3. Fits(range', stack')
            BY <2>4, <2>7
        <3>4. inspector'.selected = Cursor(stack', range') /\ inspector'.tip = Tip(stack')
            BY <2>4, <2>8, <2>9
        <3> QED
            BY <2>4, <3>1, <3>2, <3>3, <3>4 DEF ShapeOK, SelectionFollowsTheStack
    <2>18. HandleAnswer(outbox')
        BY <2>4 DEF HandleAnswer
    <2> QED
        BY <1>2, <1>4, <2>11, <2>13, <2>14, <2>15, <2>16, <2>17, <2>18 DEF Handled
<1> QED
    BY <1>6, <1>7

LEMMA HearStreamHandled ==
    ASSUME InspectorInv, HearStream
    PROVE  Handled(TRUE)
<1>0. /\ World /\ PanesTyped /\ ShapeOK /\ StreamsRest /\ inspector \in Inspector
      /\ streams \in [Streams -> Stream]
    BY DEF InspectorInv, PanesTyped
<1>1. PICK a, s : a = Head(answers) /\ s = StreamOf(Head(answers).command.kind)
    OBVIOUS
<1>2. /\ answers # <<>> /\ a.command.kind \in StreamKinds /\ Current(a.command)
      /\ remote' = remote /\ used' = used
      /\ streams' = [streams EXCEPT ![s] = Heard(s, a)]
      /\ HandleAnswer(StreamEffects(inspector, streams, streams'))
      /\ UNCHANGED <<lookup, pull_request, stack, range, section, inspector, browser>>
    BY <1>1 DEF HearStream, Hears
<1>3. s \in Streams /\ KindOf[s] = a.command.kind
    BY <1>1, <1>2, StreamKindsDiffer
<1>4. /\ Hearing(TRUE, KindOf[s])
      /\ \A t \in Streams : t # s => ~ Hearing(TRUE, KindOf[t])
      /\ \A k \in LookupKinds : ~ Hearing(TRUE, k)
    BY <1>1, <1>2, <1>3, StreamKindsDiffer, SortsOfKinds DEF Hearing
<1>5. /\ a.command \in Command /\ a.ok \in BOOLEAN /\ a.seen \in Member
      /\ a.command.member \in Member
    BY <1>1, <1>2, HeadIs, SortsOfKinds
<1> DEFINE m == Who(inspector, s)
<1>6. m \in Member
    <2>1. a.command.member.id = m.id
        BY <1>1, <1>2, <1>3, StreamKindsDiffer DEF Current
    <2>2. m \in Names
        BY <1>0, <1>3, WhoIsNamed
    <2> QED
        BY <1>5, <2>1, <2>2, NamesAre
<1> DEFINE st == [streams[s] EXCEPT !.loading = FALSE, !.again = FALSE,
                     !.shows = IF a.ok /\ (s = "detail" => SameHead(a.seen, m))
                               THEN a.seen ELSE streams[s].shows]
           new == Heard(s, a)
<1>7. streams[s] \in Stream /\ streams[s].generation \in Generation
    BY <1>0, <1>3 DEF Stream
<1>8. /\ st \in Stream /\ ~ st.loading /\ ~ st.again
      /\ st.generation = streams[s].generation
      /\ \/ st.shows = streams[s].shows
         \/ st.shows = a.seen /\ (s = "detail" => SameHead(a.seen, m))
    BY <1>5, <1>7, NamesAre DEF Stream, Names
<1>9. Rests(st, m)
    BY <1>6, <1>8, NamesAre DEF Rests
<1>10. new = st \/ new = Ask(inspector, st, s, TRUE)
    BY DEF Heard
<1> HIDE DEF st, new
<1>11. Following(streams[s].generation) # streams[s].generation
    BY <1>7, GenerationsMove
<1>12. /\ Rests(new, m) /\ new.shows = st.shows
       /\ \/ new.generation = streams[s].generation /\ ~ new.loading
          \/ new.generation = Following(streams[s].generation) /\ new.loading
    <2>1. m \in Names
        BY <1>6, NamesAre
    <2>2. CASE new = st
        BY <1>8, <1>9, <2>2
    <2>3. CASE new = Ask(inspector, st, s, TRUE)
        <3>1. /\ Rests(new, m) /\ new.shows = st.shows
              /\ \/ new.generation = st.generation /\ new.loading = st.loading
                 \/ new.generation = Following(st.generation) /\ new.loading
            <4>0. PICK refresh \in BOOLEAN : refresh = TRUE
                OBVIOUS
            <4> DEFINE asked == Ask(inspector, st, s, refresh)
            <4>1. Who(inspector, s) \in Names /\ Rests(st, Who(inspector, s))
                BY <1>9, <2>1
            <4>2. /\ Rests(asked, Who(inspector, s)) /\ asked.shows = st.shows
                  /\ \/ asked.generation = st.generation /\ asked.loading = st.loading
                     \/ asked.generation = Following(st.generation) /\ asked.loading
                BY <1>3, <4>1, AskMoves
            <4> HIDE DEF asked
            <4> QED
                BY <2>3, <4>0, <4>2 DEF asked
        <3> QED
            BY <1>8, <3>1
    <2> QED
        BY <1>10, <2>2, <2>3
<1>13. new \in Stream /\ new.generation \in Generation /\ (new.again => new.loading)
    BY <1>12 DEF Rests, Stream
<1>14. PICK after : after = [streams EXCEPT ![s] = new]
    OBVIOUS
<1>15. /\ streams' = after /\ after \in [Streams -> Stream]
       /\ after[s] = new /\ \A t \in Streams : t # s => after[t] = streams[t]
    BY <1>0, <1>2, <1>3, <1>13, <1>14 DEF new
<1> DEFINE e == StreamEffects(inspector, streams, after)
<1>16. HandleAnswer(e) /\ outbox' = e
    BY <1>2, <1>15 DEF HandleAnswer
<1>17. /\ e \in Seq(Command)
       /\ \A c \in Elements(e) : c.kind \in StreamKinds
       /\ \A t \in Streams : streams[t].generation # after[t].generation =>
             Reading(t, after[t].generation, Who(inspector, t)) \in Elements(e)
       /\ \A t \in Streams, c \in Elements(e) :
             c.kind = KindOf[t] => /\ c = Reading(t, after[t].generation, Who(inspector, t))
                                   /\ streams[t].generation # after[t].generation
    <2>1. \A t \in Streams : streams[t].generation # after[t].generation =>
             Who(inspector, t) \in Member /\ after[t].generation \in Generation
        BY <1>6, <1>13, <1>15
    <2> QED
        BY <2>1, StreamEffectsAre
<1> HIDE DEF e
<1>18. StreamGoes(s, TRUE)
    <2>1. new.loading => Reading(s, new.generation, m) \in Elements(e)
        BY <1>3, <1>11, <1>12, <1>15, <1>17
    <2>2. m # NoMember
        BY <1>6, NamesAre
    <2>3. \A c \in Elements(e) : c.kind = KindOf[s] =>
             c = Reading(s, new.generation, m) /\ new.generation # streams[s].generation
        BY <1>3, <1>15, <1>17
    <2>4. StreamTold(s, streams[s], new, m, Elements(e), a)
        BY <1>8, <1>12, <1>13, <2>1, <2>2, <2>3 DEF StreamTold
    <2>5. inspector' = inspector
        BY <1>2
    <2> QED
        BY <1>1, <1>4, <1>15, <1>16, <2>4, <2>5 DEF StreamGoes
<1>19. ASSUME NEW t \in Streams, t # s
       PROVE  StreamGoes(t, TRUE)
    <2>1. \A c \in Elements(e) : c.kind # KindOf[t]
        BY <1>15, <1>17, <1>19
    <2>2. Rests(streams[t], Who(inspector, t))
        BY <1>0 DEF StreamsRest
    <2>3. StreamMoves(t, streams[t], streams[t], Who(inspector, t), Who(inspector, t), Elements(e))
        BY <2>1, <2>2, StreamStays
    <2>4. inspector' = inspector
        BY <1>2
    <2> QED
        BY <1>4, <1>15, <1>16, <1>19, <2>3, <2>4 DEF StreamGoes
<1>20. StreamsRest'
    <2>1. \A t \in Streams : Rests(after[t], Who(inspector, t))
        BY <1>0, <1>12, <1>15 DEF StreamsRest
    <2>2. inspector' = inspector
        BY <1>2
    <2> QED
        BY <1>15, <2>1, <2>2 DEF StreamsRest, Rests, Who
<1>21. LookupGoes(TRUE) /\ BrowserGoes(TRUE)
    BY <1>2, <1>4, <1>16, <1>17, LookupStays, BrowserStays, SortsOfKinds
<1>22. World'
    BY <1>0, <1>2, WorldCounts
<1>23. PanesTyped'
    BY <1>0, <1>2, <1>15 DEF PanesTyped
<1>24. ShapeOK'
    BY <1>0, <1>2 DEF ShapeOK, SelectionFollowsTheStack, Fits, Cursor, Tip
<1>25. HandleAnswer(outbox')
    BY <1>16 DEF HandleAnswer
<1> QED
    BY <1>2, <1>16, <1>17, <1>18, <1>19, <1>20, <1>21, <1>22, <1>23, <1>24, <1>25 DEF Handled

LEMMA HearCommitsHandled ==
    ASSUME InspectorInv, HearCommits
    PROVE  Handled(TRUE)
<1>0. /\ World /\ PanesTyped /\ ShapeOK /\ browser \in Browser
    BY DEF InspectorInv, PanesTyped
<1>1. PICK a : a = Head(answers)
    OBVIOUS
<1>2. /\ Hears({"LoadPullRequestCommits"})
      /\ browser' = IF a.ok /\ SameHead(a.seen, SelectedPullRequest)
                    THEN [browser EXCEPT !.loading = FALSE, !.introduced = FALSE, !.shows = a.seen]
                    ELSE [browser EXCEPT !.loading = FALSE]
      /\ HandleAnswer(<<>>) /\ outbox' = <<>>
      /\ UNCHANGED <<lookup, pull_request, stack, range, section, inspector, streams>>
    BY <1>1 DEF HearCommits, HandleAnswer
<1>3. /\ answers # <<>> /\ remote' = remote /\ used' = used
      /\ Hearing(TRUE, "LoadPullRequestCommits")
      /\ \A j : j # "LoadPullRequestCommits" => ~ Hearing(TRUE, j)
      /\ \A s \in Streams : ~ Hearing(TRUE, KindOf[s])
    BY <1>2, HearsOne, SortsOfKinds
<1>4. a.seen \in Member /\ a.seen \in Names
    BY <1>1, <1>3, HeadIs, NamesAre
<1>5. /\ browser' \in Browser /\ browser'.owner = browser.owner
      /\ browser'.generation = browser.generation
      /\ browser'.shows \in {browser.shows, a.seen}
    BY <1>0, <1>2, <1>4 DEF Browser
<1>6. Listed(browser', pull_request') = Listed(browser, pull_request)
    BY <1>2, <1>5 DEF Listed
<1>7. outbox' \in Seq(Command) /\ Elements(outbox') = {}
    BY <1>2, NoEffect
<1>8. BrowserGoes(TRUE)
    BY <1>1, <1>3, <1>5, <1>6, <1>7, SameHeadIsShared DEF BrowserGoes
<1>9. (\A s \in Streams : StreamGoes(s, TRUE)) /\ StreamsRest'
    BY <1>2, <1>3, <1>7, StreamsStayPut
<1>10. LookupGoes(TRUE)
    BY <1>2, <1>3, <1>7, SortsOfKinds, LookupStays
<1>11. World'
    BY <1>0, <1>3, WorldCounts
<1>12. PanesTyped'
    BY <1>0, <1>2, <1>5 DEF PanesTyped
<1>13. ShapeOK'
    BY <1>0, <1>2, <1>5 DEF ShapeOK, SelectionFollowsTheStack, Fits, Cursor, Tip
<1> QED
    BY <1>2, <1>3, <1>7, <1>8, <1>9, <1>10, <1>11, <1>12, <1>13 DEF Handled
-----------------------------------------------------------------------------
(* GitHub and the threads. *)

(* No pane, command or stream changes. *)
PanesStay == UNCHANGED panes

LEMMA PanesStayTyped ==
    ASSUME PanesTyped, ShapeOK, StreamsRest, PanesStay
    PROVE  PanesTyped' /\ ShapeOK' /\ StreamsRest'
<1>1. UNCHANGED <<lookup, pull_request, stack, range, section, inspector, streams, browser>>
    BY DEF PanesStay, panes
<1>2. PanesTyped'
    BY <1>1 DEF PanesTyped
<1>3. ShapeOK'
    BY <1>1 DEF ShapeOK, SelectionFollowsTheStack, Fits, Cursor, Tip
<1>4. StreamsRest'
    <2>1. \A s \in Streams : Rests(streams[s], Who(inspector, s))
        BY DEF StreamsRest
    <2> QED
        BY <1>1, <2>1 DEF StreamsRest, Rests, Who
<1> QED
    BY <1>2, <1>3, <1>4

(* One more push, or one more title or review, of one of the members. *)
LEMMA OneMore ==
    ASSUME NEW f \in [1 .. Size -> 0 .. MaxChanges], NEW u \in 0 .. MaxChanges, u < MaxChanges,
           \A j \in 1 .. Size : f[j] <= u, NEW i \in 1 .. Size,
           NEW h, h = f \/ h = [f EXCEPT ![i] = f[i] + 1]
    PROVE  /\ h \in [1 .. Size -> 0 .. MaxChanges]
           /\ \A j \in 1 .. Size : h[j] <= u + 1
<1>1. MaxChanges \in Nat /\ u \in Nat
    BY InspectorAssumption
<1>2. ASSUME NEW j \in 1 .. Size
      PROVE  f[j] \in 0 .. MaxChanges /\ f[j] <= u + 1 /\ f[j] + 1 <= u + 1
             /\ f[j] + 1 \in 0 .. MaxChanges
    <2>1. f[j] \in 0 .. MaxChanges /\ f[j] <= u
        OBVIOUS
    <2> QED
        BY <1>1, <2>1
<1>3. CASE h = f
    BY <1>2, <1>3
<1>4. CASE h = [f EXCEPT ![i] = f[i] + 1]
    <2>1. \A j \in 1 .. Size : h[j] = IF j = i THEN f[i] + 1 ELSE f[j]
        BY <1>4
    <2> QED
        BY <1>2, <1>4, <2>1
<1> QED
    BY <1>3, <1>4

LEMMA OutsideTurns ==
    ASSUME World, OutsideChange
    PROVE  World' /\ UNCHANGED lane /\ PanesStay
<1>1. /\ used.changes < MaxChanges /\ used' = [used EXCEPT !.changes = used.changes + 1]
      /\ UNCHANGED <<lane, panes>>
    BY DEF OutsideChange, Count
<1>2. /\ MaxChanges \in Nat /\ Size \in Nat /\ Opened \in 1 .. Size
    BY InspectorAssumption
<1>3. /\ remote \in [heads : [1 .. Size -> 0 .. MaxChanges],
                      details : [1 .. Size -> 0 .. MaxChanges], bottom : 1 .. Size + 1]
      /\ remote.bottom <= Opened \/ remote.bottom = Size + 1
      /\ used \in [script : Scripts, keys : Nat, polls : Nat, changes : 0 .. MaxChanges,
                   failures : Nat]
      /\ \A i \in 1 .. Size : /\ remote.heads[i] <= used.changes
                              /\ remote.details[i] <= used.changes
    BY DEF World
<1>4. /\ used' \in [script : Scripts, keys : Nat, polls : Nat, changes : 0 .. MaxChanges,
                    failures : Nat]
      /\ used'.changes = used.changes + 1
    <2>1. used.changes + 1 \in 0 .. MaxChanges
        BY <1>1, <1>2, <1>3
    <2> QED
        BY <1>1, <1>3, <2>1
<1>5. PICK h, d, b : \E i \in 1 .. Size :
         /\ remote' = [remote EXCEPT !.heads = h, !.details = d, !.bottom = b]
         /\ h = remote.heads \/ h = [remote.heads EXCEPT ![i] = remote.heads[i] + 1]
         /\ d = remote.details \/ d = [remote.details EXCEPT ![i] = remote.details[i] + 1]
         /\ b \in 1 .. Size + 1 /\ (b <= Opened \/ b = Size + 1)
    <2>1. CASE \E i \in 1 .. Size : remote' = [remote EXCEPT !.heads[i] = @ + 1]
        <3>1. PICK i \in 1 .. Size : remote' =
                 [remote EXCEPT !.heads = [remote.heads EXCEPT ![i] = remote.heads[i] + 1]]
            BY <2>1
        <3>2. PICK h : h = [remote.heads EXCEPT ![i] = remote.heads[i] + 1]
            OBVIOUS
        <3>3. PICK d, b : d = remote.details /\ b = remote.bottom
            OBVIOUS
        <3>4. remote' = [remote EXCEPT !.heads = h, !.details = d, !.bottom = b]
            BY <1>3, <3>1, <3>2, <3>3
        <3>5. b \in 1 .. Size + 1 /\ (b <= Opened \/ b = Size + 1)
            BY <1>3, <3>3
        <3> QED
            BY <3>2, <3>3, <3>4, <3>5
    <2>2. CASE \E i \in 1 .. Size : remote' = [remote EXCEPT !.details[i] = @ + 1]
        <3>1. PICK i \in 1 .. Size : remote' =
                 [remote EXCEPT !.details = [remote.details EXCEPT ![i] = remote.details[i] + 1]]
            BY <2>2
        <3>2. PICK d : d = [remote.details EXCEPT ![i] = remote.details[i] + 1]
            OBVIOUS
        <3>3. PICK h, b : h = remote.heads /\ b = remote.bottom
            OBVIOUS
        <3>4. remote' = [remote EXCEPT !.heads = h, !.details = d, !.bottom = b]
            BY <1>3, <3>1, <3>2, <3>3
        <3>5. b \in 1 .. Size + 1 /\ (b <= Opened \/ b = Size + 1)
            BY <1>3, <3>3
        <3> QED
            BY <3>2, <3>3, <3>4, <3>5
    <2>3. CASE \/ remote.bottom < Opened /\ remote' = [remote EXCEPT !.bottom = @ + 1]
               \/ remote.bottom <= Opened /\ remote' = [remote EXCEPT !.bottom = Size + 1]
        <3>1. PICK b \in 1 .. Size + 1 : /\ remote' = [remote EXCEPT !.bottom = b]
                                         /\ b <= Opened \/ b = Size + 1
            <4>1. remote.bottom < Opened => /\ remote.bottom + 1 \in 1 .. Size + 1
                                            /\ remote.bottom + 1 <= Opened
                <5>1. PICK k : k = remote.bottom
                    OBVIOUS
                <5>2. k \in 1 .. Size + 1
                    BY <1>3, <5>1
                <5> QED
                    BY <1>2, <5>1, <5>2
            <4>2. Size + 1 \in 1 .. Size + 1
                BY <1>2
            <4>3. CASE remote.bottom < Opened /\ remote' = [remote EXCEPT !.bottom = @ + 1]
                <5>1. PICK c : c = remote.bottom + 1
                    OBVIOUS
                <5>2. c \in 1 .. Size + 1 /\ c <= Opened /\ remote' = [remote EXCEPT !.bottom = c]
                    BY <4>1, <4>3, <5>1
                <5> QED
                    BY <5>2
            <4>4. CASE remote' = [remote EXCEPT !.bottom = Size + 1]
                BY <4>2, <4>4
            <4> QED
                BY <2>3, <4>3, <4>4
        <3>2. PICK h, d : h = remote.heads /\ d = remote.details
            OBVIOUS
        <3>3. remote' = [remote EXCEPT !.heads = h, !.details = d, !.bottom = b]
            BY <1>3, <3>1, <3>2
        <3>4. PICK i \in 1 .. Size : i = Opened
            BY <1>2
        <3> QED
            BY <3>1, <3>2, <3>3, <3>4
    <2> QED
        BY <2>1, <2>2, <2>3 DEF OutsideChange
<1>6. /\ h \in [1 .. Size -> 0 .. MaxChanges] /\ d \in [1 .. Size -> 0 .. MaxChanges]
      /\ \A j \in 1 .. Size : h[j] <= used'.changes /\ d[j] <= used'.changes
    <2>1. /\ remote.heads \in [1 .. Size -> 0 .. MaxChanges]
          /\ remote.details \in [1 .. Size -> 0 .. MaxChanges]
          /\ used.changes \in 0 .. MaxChanges
        BY <1>3
    <2>2. /\ \A j \in 1 .. Size : remote.heads[j] <= used.changes
          /\ \A j \in 1 .. Size : remote.details[j] <= used.changes
        BY <1>3
    <2>3. /\ h \in [1 .. Size -> 0 .. MaxChanges]
          /\ \A j \in 1 .. Size : h[j] <= used.changes + 1
        BY <1>1, <1>5, <2>1, <2>2, OneMore
    <2>4. /\ d \in [1 .. Size -> 0 .. MaxChanges]
          /\ \A j \in 1 .. Size : d[j] <= used.changes + 1
        BY <1>1, <1>5, <2>1, <2>2, OneMore
    <2> QED
        BY <1>4, <2>3, <2>4
<1>7. /\ remote'.heads = h /\ remote'.details = d /\ remote'.bottom = b
      /\ remote' \in [heads : [1 .. Size -> 0 .. MaxChanges],
                       details : [1 .. Size -> 0 .. MaxChanges], bottom : 1 .. Size + 1]
    BY <1>3, <1>5, <1>6
<1>8. World'
    BY <1>4, <1>5, <1>6, <1>7 DEF World
<1> QED
    BY <1>1, <1>8 DEF PanesStay

LEMMA NewestIs ==
    ASSUME World, NEW id \in 1 .. Size
    PROVE  Newest(id) \in Member
BY DEF World, Newest, Member

LEMMA RemoteStackIs ==
    ASSUME World
    PROVE  RemoteStack \in Stacks /\ HoldsOpened(RemoteStack)
<1>1. /\ Size \in Nat /\ Opened \in 1 .. Size /\ remote.bottom \in 1 .. Size + 1
      /\ remote.bottom <= Opened \/ remote.bottom = Size + 1
    BY InspectorAssumption DEF World
<1> DEFINE n == Size + 1 - remote.bottom
<1>2. n \in 0 .. Size
    BY <1>1
<1>3. RemoteStack = [i \in 1 .. n |-> Newest(remote.bottom + i - 1)]
    BY DEF RemoteStack
<1>4. \A i \in 1 .. n : remote.bottom + i - 1 \in 1 .. Size
    BY <1>1
<1>5. \A i \in 1 .. n : Newest(remote.bottom + i - 1) \in Member
    BY <1>4, NewestIs
<1>6. RemoteStack \in [1 .. n -> Member]
    BY <1>3, <1>5
<1>7. RemoteStack \in Stacks
    BY <1>2, <1>6 DEF Stacks
<1>8. ASSUME RemoteStack # <<>>
      PROVE  \E i \in DOMAIN RemoteStack : RemoteStack[i].id = Opened
    <2>1. n # 0
        <3>1. n = 0 => RemoteStack \in [1 .. 0 -> Member]
            BY <1>6
        <3>2. \A f \in [1 .. 0 -> Member] : f = <<>>
            OBVIOUS
        <3> QED
            BY <1>8, <3>1, <3>2
    <2>2. remote.bottom <= Opened
        BY <1>1, <2>1
    <2>3. PICK i : i = Opened + 1 - remote.bottom
        OBVIOUS
    <2>4. i \in 1 .. n /\ remote.bottom + i - 1 = Opened
        BY <1>1, <2>2, <2>3
    <2>5. DOMAIN RemoteStack = 1 .. n /\ RemoteStack[i] = Newest(Opened)
        BY <1>3, <2>4
    <2> QED
        BY <2>4, <2>5 DEF Newest
<1> QED
    BY <1>7, <1>8 DEF HoldsOpened

LEMMA AnswerReadAnswers ==
    ASSUME InspectorInv, NEW l \in Lanes, AnswerRead(l)
    PROVE  /\ World' /\ PanesStay
           /\ LaneTypeOK(Command, Event)' /\ AnswersSound'
           /\ OnItsWay' \subseteq OnItsWay /\ UNCHANGED outbox
           /\ executing[l] # NoCommand
           /\ \E event \in Event : event.command = executing[l] /\ Answer(l, event)
<1> DEFINE c == executing[l]
<1>0. World /\ LaneTypeOK(Command, Event) /\ AnswersSound
    BY DEF InspectorInv
<1>1. PICK ok : /\ ok \in BOOLEAN
                /\ Answer(l, [command |-> c, ok |-> ok, seen |-> Seen(c), members |-> RemoteStack])
                /\ used' = [used EXCEPT !.failures = @ + (IF ok THEN 0 ELSE 1)]
    BY DEF AnswerRead
<1>2. c # NoCommand /\ UNCHANGED <<remote, panes>>
    BY DEF AnswerRead
<1>3. c \in Command
    BY <1>0, <1>2 DEF LaneTypeOK
<1> DEFINE event == [command |-> c, ok |-> ok, seen |-> Seen(c), members |-> RemoteStack]
<1>4. RemoteStack \in Stacks /\ HoldsOpened(RemoteStack)
    BY <1>0, RemoteStackIs
<1>5. /\ Seen(c) \in Member
      /\ c.kind \notin {"LookupPullRequest", "LoadPullRequestStackMember"} => Seen(c) = c.member
    <2>1. c.member \in Member /\ c.member.id \in 1 .. Size
        BY <1>3, NamesAre, SortsOfKinds
    <2>2. Newest(c.member.id) \in Member
        BY <1>0, <2>1, NewestIs
    <2> HIDE DEF c
    <2> QED
        BY <2>1, <2>2 DEF Seen
<1> HIDE DEF c
<1>6. event \in Event
    BY <1>1, <1>3, <1>4, <1>5 DEF Event
<1>7. event.command = c /\ event.seen = Seen(c) /\ event.members = RemoteStack
    OBVIOUS
<1> HIDE DEF event
<1>8. Answer(l, event)
    BY <1>1 DEF event
<1>9. /\ LaneTypeOK(Command, Event)' /\ OnItsWay' \subseteq OnItsWay
      /\ Elements(answers)' = Elements(answers) \cup {event}
    BY <1>0, <1>2, <1>6, <1>7, <1>8, AnswerOnItsWay DEF c
<1>10. AnswersSound'
    BY <1>0, <1>4, <1>5, <1>7, <1>9 DEF AnswersSound, Elements
<1>11. World'
    <2>1. used \in [script : Scripts, keys : Nat, polls : Nat, changes : 0 .. MaxChanges,
                    failures : Nat]
        BY <1>0 DEF World
    <2>2. used.failures + (IF ok THEN 0 ELSE 1) \in Nat
        BY <2>1
    <2>3. /\ used' \in [script : Scripts, keys : Nat, polls : Nat, changes : 0 .. MaxChanges,
                        failures : Nat]
          /\ used'.changes = used.changes
        BY <1>1, <2>1, <2>2
    <2> QED
        BY <1>0, <1>2, <2>3 DEF World
<1> QED
    BY <1>2, <1>6, <1>7, <1>8, <1>9, <1>10, <1>11 DEF c, PanesStay, Answer
-----------------------------------------------------------------------------
(* Every step is the step of a handler, or changes no pane. *)

LEMMA CommandsAreTabled ==
    /\ Tabled(Command)
    /\ \A c \in Command : ~ IsOperation(c) /\ c.kind \in CommandKinds /\ SlotOf[c.kind] \in Slots
<1>1. \A c \in Command : c.kind \in CommandKinds
    BY DEF Command
<1>2. \A c \in Command : c.kind \in Kinds /\ c.kind \notin Operations
    BY <1>1, InspectorAssumption
<1>3. \A c \in Command : LaneOf[c.kind] \in Lanes /\ SlotOf[c.kind] \in Slots
    BY <1>2, TablesAssumption
<1> QED
    BY <1>1, <1>2, <1>3, TablesAssumption DEF Tabled, IsOperation

(* A thread is served, GitHub changes, a read ends, or nothing happens. *)
Beyond ==
    \/ OutsideChange
    \/ Serve /\ UNCHANGED others
    \/ Thread
    \/ UNCHANGED vars

LEMMA StepsAreHandled ==
    ASSUME InspectorInv, [Next]_vars
    PROVE  (\E hearing \in BOOLEAN : Handled(hearing)) \/ Beyond
<1>1. CASE Sync
    BY <1>1, SyncHandled
<1>2. CASE PollAny
    BY <1>2, PollHandled DEF PollAny
<1>3. CASE User
    <2>1. CASE ListCommits \/ InspectCommit \/ BackToStack \/ InspectTip
        BY <2>1, ListCommitsHandled, InspectCommitHandled, BackToStackHandled, InspectTipHandled
    <2>2. CASE \E refresh \in BOOLEAN : Open(refresh)
        BY <2>2, OpenHandled
    <2>3. CASE \E s \in {"Overview", "Files"} : ShowSection(s)
        BY <2>3, ShowSectionHandled
    <2>4. CASE \E p \in 1 .. Size, extend \in BOOLEAN : SelectMember(p, extend)
        BY <2>4, SelectMemberHandled
    <2>5. CASE \E s \in Sections : SelectSection(s)
        BY <2>5, SelectSectionHandled
    <2> QED
        BY <1>3, <2>1, <2>2, <2>3, <2>4, <2>5 DEF User
<1>4. CASE Hear
    BY <1>4, IgnoreHandled, HearLookupHandled, HearStackHandled, HearStreamHandled,
       HearCommitsHandled DEF Hear
<1>5. CASE OutsideChange \/ (Serve /\ UNCHANGED others) \/ Thread \/ UNCHANGED vars
    BY <1>5 DEF Beyond
<1> QED
    BY <1>1, <1>2, <1>3, <1>4, <1>5 DEF Next

LEMMA HandledKeeps ==
    ASSUME InspectorInv, NEW hearing \in BOOLEAN, Handled(hearing)
    PROVE  /\ InspectorInv'
           /\ OnItsWay' \subseteq OnItsWay \cup Elements(outbox')
           /\ outbox = <<>> /\ UNCHANGED <<mailbox, executing>>
           /\ answers' = IF hearing THEN Tail(answers) ELSE answers
<1>0. LaneTypeOK(Command, Event) /\ AnswersSound
    BY DEF InspectorInv
<1>1. PICK e : e = outbox'
    OBVIOUS
<1>2. e \in Seq(Command)
    BY <1>1 DEF Handled
<1>3. /\ LaneTypeOK(Command, Event)' /\ OnItsWay' \subseteq OnItsWay \cup Elements(e)
      /\ Elements(answers)' \subseteq Elements(answers)
    <2>1. CASE hearing
        <3>1. answers # <<>> /\ HandleAnswer(e)
            BY <1>1, <2>1 DEF Handled, HandleAnswer
        <3> QED
            BY <1>0, <1>2, <3>1, HandleAnswerOnItsWay
    <2>2. CASE ~ hearing
        <3>1. Handle(e)
            BY <1>1, <2>2 DEF Handled, Handle
        <3>2. /\ LaneTypeOK(Command, Event)' /\ OnItsWay' \subseteq OnItsWay \cup Elements(e)
              /\ UNCHANGED answers
            BY <1>0, <1>2, <3>1, HandleOnItsWay
        <3> QED
            BY <3>2 DEF Elements
    <2> QED
        BY <2>1, <2>2
<1>4. AnswersSound'
    BY <1>0, <1>3 DEF AnswersSound
<1>5. World' /\ PanesTyped' /\ ShapeOK' /\ StreamsRest'
    BY DEF Handled
<1>6. InspectorInv'
    BY <1>3, <1>4, <1>5 DEF InspectorInv
<1> QED
    BY <1>1, <1>3, <1>6 DEF Handled, Handle, HandleAnswer, Free

LEMMA BeyondKeeps ==
    ASSUME InspectorInv, Beyond
    PROVE  InspectorInv' /\ PanesStay /\ OnItsWay' \subseteq OnItsWay
<1>0. /\ LaneTypeOK(Command, Event) /\ World /\ AnswersSound
      /\ PanesTyped /\ ShapeOK /\ StreamsRest
    BY DEF InspectorInv
<1>1. CASE OutsideChange
    <2>1. World' /\ PanesStay /\ UNCHANGED <<outbox, mailbox, executing, answers>>
        BY <1>0, <1>1, OutsideTurns DEF lane
    <2>2. LaneTypeOK(Command, Event)' /\ AnswersSound' /\ OnItsWay' = OnItsWay
        BY <1>0, <2>1 DEF LaneTypeOK, AnswersSound, Elements, OnItsWay
    <2> QED
        BY <1>0, <2>1, <2>2, PanesStayTyped DEF InspectorInv
<1>2. CASE Serve /\ UNCHANGED others
    <2>1. UNCHANGED <<remote, used>> /\ PanesStay
        BY <1>2 DEF others, PanesStay
    <2>2. LaneTypeOK(Command, Event)' /\ OnItsWay' \subseteq OnItsWay /\ UNCHANGED answers
        BY <1>0, <1>2, CommandsAreTabled, ServeOnItsWay
    <2>3. AnswersSound'
        BY <1>0, <2>2 DEF AnswersSound, Elements
    <2>4. World'
        BY <1>0, <2>1, WorldCounts
    <2> QED
        BY <1>0, <2>1, <2>2, <2>3, <2>4, PanesStayTyped DEF InspectorInv
<1>3. CASE Thread
    <2>1. PICK l \in Lanes : AnswerRead(l)
        BY <1>3 DEF Thread
    <2>2. /\ World' /\ PanesStay /\ LaneTypeOK(Command, Event)' /\ AnswersSound'
          /\ OnItsWay' \subseteq OnItsWay
        BY <2>1, AnswerReadAnswers
    <2> QED
        BY <1>0, <2>2, PanesStayTyped DEF InspectorInv
<1>4. CASE UNCHANGED vars
    <2>1. UNCHANGED <<remote, used, outbox, mailbox, executing, answers>> /\ PanesStay
        BY <1>4 DEF vars, others, lane, PanesStay
    <2>2. LaneTypeOK(Command, Event)' /\ AnswersSound' /\ OnItsWay' = OnItsWay
        BY <1>0, <2>1 DEF LaneTypeOK, AnswersSound, Elements, OnItsWay
    <2>3. World'
        BY <1>0, <2>1, WorldCounts
    <2> QED
        BY <1>0, <2>1, <2>2, <2>3, PanesStayTyped DEF InspectorInv
<1> QED
    BY <1>1, <1>2, <1>3, <1>4 DEF Beyond

LEMMA InspectorKeeps ==
    ASSUME InspectorInv, [Next]_vars
    PROVE  InspectorInv'
BY StepsAreHandled, HandledKeeps, BeyondKeeps

LEMMA InspectorStarts ==
    ASSUME Init
    PROVE  InspectorInv
<1> DEFINE idle == [loading |-> FALSE, again |-> FALSE, generation |-> 0, shows |-> NoMember]
           first == [kind |-> "LookupPullRequest", generation |-> 1,
                     member |-> [id |-> Opened, head |-> 0, details |-> 0]]
<1>1. /\ remote = [heads |-> [i \in 1 .. Size |-> 0], details |-> [i \in 1 .. Size |-> 0],
                    bottom |-> 1]
      /\ lookup = [loading |-> TRUE, stack_loading |-> FALSE, refresh |-> FALSE,
                   generation |-> 1]
      /\ pull_request = NoMember /\ stack = <<>> /\ range = NoRange /\ section = "Overview"
      /\ inspector = [selected |-> NoMember, tip |-> NoMember, section |-> "Files",
                      sync_due |-> FALSE]
      /\ streams = [s \in Streams |-> idle]
      /\ browser = NewBrowser([generation |-> 0])
    BY DEF Init, Idle
<1>2. \E script \in Scripts :
         used = [script |-> script, keys |-> 0, polls |-> 0, changes |-> 0, failures |-> 0]
    BY DEF Init
<1>3. InitLane(<<first>>)
    BY DEF Init
<1>4. /\ Size \in Nat \ {0} /\ Opened \in 1 .. Size /\ MaxChanges \in Nat
      /\ 0 \in Generation /\ 1 \in Generation
    BY InspectorAssumption DEF Generation
<1>5. World
    <2>1. /\ remote.heads = [i \in 1 .. Size |-> 0] /\ remote.bottom = 1
          /\ remote.details = [i \in 1 .. Size |-> 0]
          /\ remote \in [heads : [1 .. Size -> 0 .. MaxChanges],
                          details : [1 .. Size -> 0 .. MaxChanges], bottom : 1 .. Size + 1]
        BY <1>1, <1>4
    <2>2. /\ used \in [script : Scripts, keys : Nat, polls : Nat, changes : 0 .. MaxChanges,
                       failures : Nat]
          /\ used.changes = 0
        BY <1>2, <1>4
    <2> QED
        BY <1>4, <2>1, <2>2 DEF World
<1>6. idle \in Stream /\ ~ idle.loading /\ ~ idle.again /\ idle.shows = NoMember
    BY <1>4, NamesAre DEF Stream
<1> HIDE DEF idle
<1>7. PanesTyped
    <2>1. browser \in Browser
        <3>1. PICK b : b = [generation |-> 0]
            OBVIOUS
        <3>2. b.generation \in Generation
            BY <1>4, <3>1
        <3> QED
            BY <1>1, <3>1, <3>2, NewBrowserIs
    <2>2. lookup \in LookupPane
        BY <1>1, <1>4 DEF LookupPane
    <2>3. inspector \in Inspector
        BY <1>1, NamesAre DEF Inspector, Sections
    <2>4. streams \in [Streams -> Stream]
        BY <1>1, <1>6
    <2> QED
        BY <1>1, <2>1, <2>2, <2>3, <2>4, NamesAre, EmptyStack DEF PanesTyped
<1>8. inspector.selected = NoMember /\ inspector.tip = NoMember
    BY <1>1
<1>9. ShapeOK
    <2>1. browser.owner = NoMember
        BY <1>1 DEF NewBrowser
    <2> QED
        BY <1>1, <1>8, <2>1 DEF ShapeOK, SelectionFollowsTheStack, Fits, Cursor, Tip
<1>10. StreamsRest
    BY <1>1, <1>6 DEF StreamsRest, Rests
<1>11. /\ outbox = <<first>> /\ mailbox = [l \in Lanes |-> NewMailbox]
       /\ executing = [l \in Lanes |-> NoCommand] /\ answers = <<>>
    BY <1>3 DEF InitLane
<1>12. LaneTypeOK(Command, Event)
    <2>1. [id |-> Opened, head |-> 0, details |-> 0] \in Member
        BY <1>4 DEF Member
    <2>2. first \in Command
        BY <1>4, <2>1 DEF Command, CommandKinds, Generation
    <2> HIDE DEF first
    <2>3. <<first>> \in Seq(Command)
        BY <2>2
    <2>4. NewMailbox \in MailboxOf(Command)
        BY DEF NewMailbox, MailboxOf
    <2> QED
        BY <1>11, <2>3, <2>4 DEF LaneTypeOK
<1>13. AnswersSound
    BY <1>11 DEF AnswersSound, Elements
<1> QED
    BY <1>5, <1>7, <1>9, <1>10, <1>12, <1>13 DEF InspectorInv

LEMMA InspectorStaysSound == Safe => []InspectorInv
<1>1. Init => InspectorInv
    BY InspectorStarts
<1>2. InspectorInv /\ [Next]_vars => InspectorInv'
    BY InspectorKeeps
<1> QED
    BY <1>1, <1>2, PTL DEF Safe

(* Every pane, command and answer of the inspector keeps its type, and the    *)
(* cursor and the anchor stay on members of the stack on display, whatever    *)
(* stack an answer brings.                                                    *)
THEOREM InspectorStaysTyped == Safe => []TypeOK
<1>1. InspectorInv => TypeOK
    <2> SUFFICES ASSUME InspectorInv PROVE TypeOK
        OBVIOUS
    <2>1. range = NoRange \/ Ends(range) \subseteq DOMAIN stack
        <3>1. Fits(range, stack)
            BY DEF InspectorInv, ShapeOK
        <3>2. CASE range \in [cursor : DOMAIN stack, anchor : DOMAIN stack]
            BY <3>2 DEF Ends
        <3> QED
            BY <3>1, <3>2 DEF Fits
    <2> QED
        BY <2>1 DEF TypeOK, InspectorInv, World, PanesTyped, LookupPane, Inspector, Stream,
                    Browser, Names, Generation
<1> QED
    BY <1>1, InspectorStaysSound, PTL
-----------------------------------------------------------------------------
(* What is loading is owed its answer. *)

(* What a handler sent and the event loop has not yet dispatched is what the  *)
(* panes wait for, so that in its slot it displaces nothing they wait for.    *)
SentIsCurrent ==
    \A c \in Elements(outbox) :
        /\ \A s \in Streams : c.kind = KindOf[s] =>
              c = Reading(s, streams[s].generation, Who(inspector, s))
        /\ c.kind = "LookupPullRequest" =>
              ~ lookup.stack_loading /\ c.generation = lookup.generation
        /\ c.kind = "LoadPullRequestStack" =>
              ~ lookup.loading /\ c.generation = lookup.generation

OwedInv == StreamsAreOwed /\ SentIsCurrent /\ SlotsHold

LEMMA CommandsOnItsWay ==
    ASSUME LaneTypeOK(Command, Event)
    PROVE  OnItsWay \subseteq Command
<1>1. /\ outbox \in Seq(Command) /\ answers \in Seq(Event)
      /\ \A l \in Lanes : /\ mailbox[l].operations \in Seq(Command)
                          /\ mailbox[l].slots \in [Slots -> Command \cup {NoCommand}]
                          /\ executing[l] \in Command \cup {NoCommand}
    BY DEF LaneTypeOK, MailboxOf
<1>2. \A i \in DOMAIN outbox : outbox[i] \in Command
    BY <1>1
<1>3. \A i \in DOMAIN answers : answers[i].command \in Command
    <2>1. \A i \in DOMAIN answers : answers[i] \in Event
        BY <1>1
    <2>2. \A e \in Event : e.command \in Command
        BY DEF Event
    <2> QED
        BY <2>1, <2>2
<1>4. \A l \in Lanes : Waiting(mailbox[l]) \subseteq Command
    BY <1>1 DEF Waiting, Full
<1> QED
    BY <1>1, <1>2, <1>3, <1>4 DEF OnItsWay

(* Of W one stays on its way, when nothing else is sent to its slot. *)
LEMMA BeyondKeepsOwed ==
    ASSUME InspectorInv, SlotsHold, Beyond, NEW W \in SUBSET Command, NEW w \in W, w \in OnItsWay,
           \A c \in Elements(outbox) : c \in W \/ SlotOf[c.kind] # SlotOf[w.kind]
    PROVE  \E v \in W : v \in OnItsWay'
<1>0. LaneTypeOK(Command, Event) /\ Tabled(Command) /\ NoCommand \notin Command
    BY CommandsAreTabled, InspectorAssumption DEF InspectorInv
<1>1. CASE OutsideChange \/ UNCHANGED vars
    <2>1. UNCHANGED <<outbox, mailbox, executing, answers>>
        BY <1>1 DEF OutsideChange, vars, lane
    <2>2. OnItsWay' = OnItsWay
        BY <2>1 DEF OnItsWay
    <2> QED
        BY <2>2
<1>2. CASE Serve /\ UNCHANGED others
    BY <1>0, <1>2, ServeKeepsOnItsWay
<1>3. CASE Thread
    <2>1. PICK l \in Lanes : AnswerRead(l)
        BY <1>3 DEF Thread
    <2>2. PICK event \in Event : event.command = executing[l] /\ Answer(l, event)
        BY <2>1, AnswerReadAnswers
    <2>3. executing[l] # NoCommand
        BY <2>1, AnswerReadAnswers
    <2>4. OnItsWay \subseteq OnItsWay'
        BY <1>0, <2>2, <2>3, AnswerKeepsOnItsWay
    <2> QED
        BY <2>4
<1> QED
    BY <1>1, <1>2, <1>3 DEF Beyond

LEMMA BeyondKeepsSlots ==
    ASSUME InspectorInv, SlotsHold, Beyond
    PROVE  SlotsHold' /\ Elements(outbox)' \subseteq Elements(outbox)
<1>0. LaneTypeOK(Command, Event) /\ Tabled(Command) /\ NoCommand \notin Command
    BY CommandsAreTabled, InspectorAssumption DEF InspectorInv
<1>1. CASE OutsideChange \/ UNCHANGED vars
    <2>1. UNCHANGED <<outbox, mailbox>>
        BY <1>1 DEF OutsideChange, vars, lane
    <2> QED
        BY <2>1 DEF SlotsHold, Full, Elements
<1>2. CASE Serve /\ UNCHANGED others
    BY <1>0, <1>2, ServeKeepsSlotsHeld
<1>3. CASE Thread
    <2>1. UNCHANGED <<outbox, mailbox>>
        BY <1>3, AnswerReadAnswers DEF Thread, Answer
    <2> QED
        BY <2>1 DEF SlotsHold, Full, Elements
<1> QED
    BY <1>1, <1>2, <1>3 DEF Beyond

LEMMA BeyondOwes ==
    ASSUME InspectorInv, OwedInv, Beyond
    PROVE  OwedInv'
<1>0. UNCHANGED <<lookup, inspector, streams>> /\ OnItsWay \subseteq Command
    BY BeyondKeeps, CommandsOnItsWay DEF PanesStay, panes, InspectorInv
<1>1. SlotsHold' /\ Elements(outbox)' \subseteq Elements(outbox)
    BY BeyondKeepsSlots DEF OwedInv
<1>2. SentIsCurrent'
    BY <1>0, <1>1 DEF OwedInv, SentIsCurrent, Reading, Who
<1>3. \A c \in Elements(outbox) : c \in Command
    BY DEF InspectorInv, LaneTypeOK, Elements
<1>4. ASSUME NEW k \in LookupKinds, Owed(k, lookup.generation),
             \A j \in LookupKinds, c \in Elements(outbox) :
                 c.kind = j => j = k /\ c.generation = lookup.generation
      PROVE  Owed(k, lookup.generation)'
    <2> DEFINE W == {c \in Command : c.kind = k /\ c.generation = lookup.generation}
    <2>1. PICK w \in OnItsWay : w.kind = k /\ w.generation = lookup.generation
        BY <1>4 DEF Owed
    <2>2. w \in W
        BY <1>0, <2>1
    <2>3. ASSUME NEW c \in Elements(outbox), SlotOf[c.kind] = SlotOf[w.kind]
          PROVE  c \in W
        <3>1. c.kind \in CommandKinds
            BY <1>3 DEF Command
        <3>2. c.kind \in LookupKinds
            BY <2>1, <2>3, <3>1, TablesAssumption DEF LookupKinds
        <3> QED
            BY <1>3, <1>4, <3>2
    <2>4. W \in SUBSET Command
        OBVIOUS
    <2> HIDE DEF W
    <2>5. \E v \in W : v \in OnItsWay'
        BY <2>1, <2>2, <2>3, <2>4, BeyondKeepsOwed DEF OwedInv
    <2>6. \E v \in OnItsWay' : v.kind = k /\ v.generation = lookup'.generation
        BY <1>0, <2>5 DEF W
    <2> QED
        BY <2>6 DEF Owed
<1>5. ASSUME NEW s \in Streams \ {"commits"}, streams[s].loading
      PROVE  \E c \in OnItsWay' : c = Reading(s, streams[s].generation, Who(inspector, s))
    <2>1. PICK w \in OnItsWay : /\ w.kind = KindOf[s] /\ w.generation = streams[s].generation
                                /\ w.member = Who(inspector, s)
        BY <1>5 DEF OwedInv, StreamsAreOwed
    <2>2. w \in Command
        BY <1>0
    <2>3. w = Reading(s, streams[s].generation, Who(inspector, s))
        BY <2>1, <2>2 DEF Command, Reading
    <2>4. ASSUME NEW c \in Elements(outbox), SlotOf[c.kind] = SlotOf[w.kind]
          PROVE  c \in {w}
        <3>1. c.kind \in CommandKinds
            BY <1>3 DEF Command
        <3>2. c.kind = KindOf[s]
            BY <2>1, <2>4, <3>1, TablesAssumption
        <3> QED
            BY <2>3, <3>2 DEF OwedInv, SentIsCurrent
    <2>5. {w} \in SUBSET Command
        BY <2>2
    <2>6. \E v \in {w} : v \in OnItsWay'
        BY <2>1, <2>4, <2>5, BeyondKeepsOwed DEF OwedInv
    <2> QED
        BY <2>3, <2>6
<1>6. StreamsAreOwed'
    <2>1. lookup.loading => Owed("LookupPullRequest", lookup.generation)'
        <3> SUFFICES ASSUME lookup.loading PROVE Owed("LookupPullRequest", lookup.generation)'
            OBVIOUS
        <3>1. \A j \in LookupKinds, c \in Elements(outbox) :
                 c.kind = j => j = "LookupPullRequest" /\ c.generation = lookup.generation
            BY DEF OwedInv, SentIsCurrent, LookupKinds
        <3>2. "LookupPullRequest" \in LookupKinds /\ Owed("LookupPullRequest", lookup.generation)
            BY DEF LookupKinds, OwedInv, StreamsAreOwed
        <3> QED
            BY <1>4, <3>1, <3>2
    <2>2. lookup.stack_loading => Owed("LoadPullRequestStack", lookup.generation)'
        <3> SUFFICES ASSUME lookup.stack_loading PROVE Owed("LoadPullRequestStack", lookup.generation)'
            OBVIOUS
        <3>1. \A j \in LookupKinds, c \in Elements(outbox) :
                 c.kind = j => j = "LoadPullRequestStack" /\ c.generation = lookup.generation
            BY DEF OwedInv, SentIsCurrent, LookupKinds
        <3>2. "LoadPullRequestStack" \in LookupKinds
              /\ Owed("LoadPullRequestStack", lookup.generation)
            BY DEF LookupKinds, OwedInv, StreamsAreOwed
        <3> QED
            BY <1>4, <3>1, <3>2
    <2>3. ASSUME NEW s \in Streams \ {"commits"}
          PROVE  /\ streams'[s].again => streams'[s].loading
                 /\ streams'[s].loading =>
                      \E c \in OnItsWay' : /\ c.kind = KindOf[s]
                                           /\ c.generation = streams'[s].generation
                                           /\ c.member = Who(inspector', s)
        <3>1. streams[s].again => streams[s].loading
            BY DEF OwedInv, StreamsAreOwed
        <3> QED
            BY <1>0, <1>5, <3>1 DEF Reading
    <2> QED
        BY <1>0, <2>1, <2>2, <2>3 DEF StreamsAreOwed, Who
<1> QED
    BY <1>1, <1>2, <1>6 DEF OwedInv

LEMMA HandledOwes ==
    ASSUME InspectorInv, OwedInv, NEW hearing \in BOOLEAN, Handled(hearing)
    PROVE  OwedInv'
<1>0. LaneTypeOK(Command, Event)
    BY DEF InspectorInv
<1>1. /\ Elements(outbox') \subseteq OnItsWay'
      /\ \A c \in OnItsWay : c \in OnItsWay' \/ (hearing /\ c = Head(answers).command)
    <2>1. PICK e : e = outbox'
        OBVIOUS
    <2>2. CASE hearing
        <3>1. answers # <<>> /\ HandleAnswer(e)
            BY <2>1, <2>2 DEF Handled, HandleAnswer
        <3> QED
            BY <1>0, <2>1, <2>2, <3>1, HandleAnswerKeepsOnItsWay
    <2>3. CASE ~ hearing
        <3>1. Handle(e)
            BY <2>1, <2>3 DEF Handled, Handle
        <3> QED
            BY <2>1, <2>3, <3>1, HandleKeepsOnItsWay
    <2> QED
        BY <2>2, <2>3
<1>2. mailbox' = mailbox
    BY HandledKeeps
<1>3. SlotsHold'
    BY <1>2 DEF OwedInv, SlotsHold, Full
<1>4. ASSUME NEW s \in Streams
      PROVE  /\ streams'[s].again => streams'[s].loading
             /\ \A c \in Elements(outbox') : c.kind = KindOf[s] =>
                   c = Reading(s, streams'[s].generation, Who(inspector', s))
             /\ streams'[s].loading =>
                   \/ Reading(s, streams'[s].generation, Who(inspector', s)) \in Elements(outbox')
                   \/ /\ ~ Hearing(hearing, KindOf[s]) /\ streams[s].loading
                      /\ Who(inspector', s) = Who(inspector, s)
                      /\ streams'[s].generation = streams[s].generation
    <2>1. StreamGoes(s, hearing)
        BY DEF Handled
    <2>2. CASE StreamMoves(s, streams[s], streams'[s], Who(inspector, s), Who(inspector', s),
                           Elements(outbox')) /\ ~ Hearing(hearing, KindOf[s])
        BY <2>2 DEF StreamMoves
    <2>3. CASE StreamTold(s, streams[s], streams'[s], Who(inspector, s), Elements(outbox'),
                          Head(answers)) /\ Who(inspector', s) = Who(inspector, s)
        BY <2>3 DEF StreamTold
    <2> QED
        BY <2>1, <2>2, <2>3 DEF StreamGoes
<1>5. SentIsCurrent'
    <2>1. ASSUME NEW c \in Elements(outbox')
          PROVE  /\ c.kind = "LookupPullRequest" =>
                       ~ lookup'.stack_loading /\ c.generation = lookup'.generation
                 /\ c.kind = "LoadPullRequestStack" =>
                       ~ lookup'.loading /\ c.generation = lookup'.generation
        BY DEF Handled, LookupGoes
    <2> QED
        BY <1>4, <2>1 DEF SentIsCurrent, Elements, Reading, Who
<1>6. ASSUME NEW k \in LookupKinds, ~ Hearing(hearing, k), Owed(k, lookup.generation),
             lookup'.generation = lookup.generation
      PROVE  Owed(k, lookup.generation)'
    <2>1. PICK c \in OnItsWay : c.kind = k /\ c.generation = lookup.generation
        BY <1>6 DEF Owed
    <2>2. Current(c)
        BY <2>1 DEF Current, LookupKinds
    <2>3. c \in OnItsWay'
        BY <1>1, <1>6, <2>1, <2>2 DEF Hearing
    <2> QED
        BY <1>6, <2>1, <2>3 DEF Owed
<1>7. StreamsAreOwed'
    <2>1. lookup'.loading => Owed("LookupPullRequest", lookup.generation)'
        <3> SUFFICES ASSUME lookup'.loading PROVE Owed("LookupPullRequest", lookup.generation)'
            OBVIOUS
        <3>1. CASE \E c \in Elements(outbox') : /\ c.kind = "LookupPullRequest"
                                                /\ c.generation = lookup'.generation
            BY <1>1, <3>1 DEF Owed
        <3>2. CASE /\ ~ Hearing(hearing, "LookupPullRequest")
                   /\ lookup.loading /\ lookup'.generation = lookup.generation
            <4>1. "LookupPullRequest" \in LookupKinds
                BY DEF LookupKinds
            <4>2. Owed("LookupPullRequest", lookup.generation)
                BY <3>2 DEF OwedInv, StreamsAreOwed
            <4> QED
                BY <1>6, <3>2, <4>1, <4>2
        <3> QED
            BY <3>1, <3>2 DEF Handled, LookupGoes
    <2>2. lookup'.stack_loading => Owed("LoadPullRequestStack", lookup.generation)'
        <3> SUFFICES ASSUME lookup'.stack_loading
                     PROVE Owed("LoadPullRequestStack", lookup.generation)'
            OBVIOUS
        <3>1. CASE \E c \in Elements(outbox') : /\ c.kind = "LoadPullRequestStack"
                                                /\ c.generation = lookup'.generation
            BY <1>1, <3>1 DEF Owed
        <3>2. CASE /\ ~ Hearing(hearing, "LoadPullRequestStack")
                   /\ lookup.stack_loading /\ lookup'.generation = lookup.generation
            <4>1. "LoadPullRequestStack" \in LookupKinds
                BY DEF LookupKinds
            <4>2. Owed("LoadPullRequestStack", lookup.generation)
                BY <3>2 DEF OwedInv, StreamsAreOwed
            <4> QED
                BY <1>6, <3>2, <4>1, <4>2
        <3> QED
            BY <3>1, <3>2 DEF Handled, LookupGoes
    <2>3. ASSUME NEW s \in Streams \ {"commits"}, streams'[s].loading
          PROVE  \E c \in OnItsWay' : /\ c.kind = KindOf[s]
                                      /\ c.generation = streams'[s].generation
                                      /\ c.member = Who(inspector', s)
        <3>1. CASE Reading(s, streams'[s].generation, Who(inspector', s)) \in Elements(outbox')
            BY <1>1, <3>1 DEF Reading
        <3>2. CASE /\ ~ Hearing(hearing, KindOf[s]) /\ streams[s].loading
                   /\ Who(inspector', s) = Who(inspector, s)
                   /\ streams'[s].generation = streams[s].generation
            <4>1. PICK c \in OnItsWay : /\ c.kind = KindOf[s] /\ c.generation = streams[s].generation
                                        /\ c.member = Who(inspector, s)
                BY <3>2 DEF OwedInv, StreamsAreOwed
            <4>2. Current(c)
                BY <4>1, StreamKindsDiffer DEF Current
            <4>3. c \in OnItsWay'
                BY <1>1, <3>2, <4>1, <4>2 DEF Hearing
            <4> QED
                BY <3>2, <4>1, <4>3
        <3> QED
            BY <1>4, <2>3, <3>1, <3>2
    <2> QED
        BY <1>4, <2>1, <2>2, <2>3 DEF StreamsAreOwed, Who
<1> QED
    BY <1>3, <1>5, <1>7 DEF OwedInv

LEMMA OwedStarts ==
    ASSUME Init
    PROVE  OwedInv
<1> DEFINE first == [kind |-> "LookupPullRequest", generation |-> 1,
                     member |-> [id |-> Opened, head |-> 0, details |-> 0]]
<1>1. /\ lookup = [loading |-> TRUE, stack_loading |-> FALSE, refresh |-> FALSE,
                   generation |-> 1]
      /\ streams = [s \in Streams |-> Idle]
      /\ outbox = <<first>> /\ mailbox = [l \in Lanes |-> NewMailbox]
    BY DEF Init, InitLane
<1>2. ~ Idle.loading /\ ~ Idle.again
    BY DEF Idle
<1>3. ~ lookup.stack_loading /\ lookup.generation = 1
    BY <1>1
<1>4. first.kind = "LookupPullRequest" /\ first.generation = 1
    OBVIOUS
<1> HIDE DEF first
<1>5. Elements(outbox) = {first}
    BY <1>1 DEF Elements
<1>6. first \in OnItsWay
    BY <1>1 DEF OnItsWay
<1>7. StreamsAreOwed
    BY <1>1, <1>2, <1>3, <1>4, <1>6 DEF StreamsAreOwed, Owed
<1>8. SentIsCurrent
    BY <1>3, <1>4, <1>5, StreamKindsDiffer DEF SentIsCurrent
<1>9. SlotsHold
    BY <1>1 DEF SlotsHold, Full, NewMailbox
<1> QED
    BY <1>7, <1>8, <1>9 DEF OwedInv

(* A pane that says it is loading waits for an answer that comes and that its *)
(* handler takes, although every newer read of its kind takes the slot of the *)
(* one before, and the stack takes the slot of the lookup.                    *)
THEOREM StreamsStayOwed == Safe => []StreamsAreOwed
<1>1. Init => InspectorInv /\ OwedInv
    BY InspectorStarts, OwedStarts
<1>2. InspectorInv /\ OwedInv /\ [Next]_vars => (InspectorInv /\ OwedInv)'
    BY InspectorKeeps, StepsAreHandled, HandledOwes, BeyondOwes
<1>3. OwedInv => StreamsAreOwed
    BY DEF OwedInv
<1> QED
    BY <1>1, <1>2, <1>3, PTL DEF Safe
-----------------------------------------------------------------------------
(* What is shown, as long as the generations do not wrap. *)

GenerationsDoNotWrap ==
    /\ \A s \in Streams : streams'[s].generation >= streams[s].generation
    /\ browser'.generation >= browser.generation

(* No read is ahead of its pane, and one that its pane would take is about    *)
(* what the pane shows now.                                                   *)
ReadsAreOld ==
    \A c \in OnItsWay :
        /\ \A s \in Streams : c.kind = KindOf[s] =>
              /\ c.generation <= streams[s].generation
              /\ c.generation = streams[s].generation => c.member = Who(inspector, s)
        /\ c.kind = "LoadPullRequestCommits" =>
              /\ c.generation <= browser.generation
              /\ c.generation = browser.generation =>
                    SameHead(c.member, Listed(browser, pull_request))

ShownInv == InspectorShowsTheSelectedMember /\ BrowserShowsItsOwner /\ ReadsAreOld

LEMMA BeyondShows ==
    ASSUME InspectorInv, ShownInv, Beyond
    PROVE  ShownInv'
<1>1. UNCHANGED <<pull_request, inspector, streams, browser>> /\ OnItsWay' \subseteq OnItsWay
    BY BeyondKeeps DEF PanesStay, panes
<1>2. ReadsAreOld'
    BY <1>1 DEF ShownInv, ReadsAreOld, Who, Listed
<1> QED
    BY <1>1, <1>2 DEF ShownInv, InspectorShowsTheSelectedMember, BrowserShowsItsOwner, Who, Listed

LEMMA HandledShows ==
    ASSUME InspectorInv, ShownInv, NEW hearing \in BOOLEAN, Handled(hearing),
           GenerationsDoNotWrap
    PROVE  ShownInv'
<1>0. /\ LaneTypeOK(Command, Event) /\ OnItsWay \subseteq Command
      /\ \A s \in Streams : streams[s].generation \in Nat /\ streams'[s].generation \in Nat
      /\ browser.generation \in Nat /\ browser'.generation \in Nat
      /\ \A c \in Command : c.generation \in Nat
    <2>1. Generation \subseteq Nat
        BY InspectorAssumption DEF Generation
    <2>2. PanesTyped /\ PanesTyped' /\ LaneTypeOK(Command, Event)
        BY DEF InspectorInv, Handled
    <2>3. \A s \in Streams : streams[s] \in Stream /\ streams'[s] \in Stream
        BY <2>2 DEF PanesTyped
    <2>4. browser \in Browser /\ browser' \in Browser
        BY <2>2 DEF PanesTyped, Browser, Names, Generation
    <2>5. \A st \in Stream : st.generation \in Generation
        BY DEF Stream
    <2>6. \A b \in Browser : b.generation \in Generation
        BY DEF Browser
    <2> QED
        BY <2>1, <2>2, <2>3, <2>4, <2>5, <2>6, CommandsOnItsWay, SortsOfKinds
<1>1. OnItsWay' \subseteq OnItsWay \cup Elements(outbox')
    BY HandledKeeps
<1>2. ASSUME NEW s \in Streams
      PROVE  /\ streams'[s].generation = streams[s].generation =>
                   Who(inspector', s) = Who(inspector, s)
             /\ \A c \in Elements(outbox') : c.kind = KindOf[s] =>
                   c = Reading(s, streams'[s].generation, Who(inspector', s))
             /\ \/ streams'[s].shows = NoMember
                \/ streams'[s].shows = streams[s].shows /\ Who(inspector', s) = Who(inspector, s)
                \/ /\ Hearing(hearing, KindOf[s]) /\ Who(inspector', s) = Who(inspector, s)
                   /\ streams'[s].shows = Head(answers).seen
                   /\ s = "detail" => SameHead(Head(answers).seen, Who(inspector, s))
    <2>1. StreamGoes(s, hearing)
        BY DEF Handled
    <2>2. CASE StreamMoves(s, streams[s], streams'[s], Who(inspector, s), Who(inspector', s),
                           Elements(outbox'))
        BY <2>2 DEF StreamMoves
    <2>3. CASE /\ StreamTold(s, streams[s], streams'[s], Who(inspector, s), Elements(outbox'),
                             Head(answers))
               /\ Hearing(hearing, KindOf[s]) /\ Who(inspector', s) = Who(inspector, s)
        BY <2>3 DEF StreamTold
    <2> QED
        BY <2>1, <2>2, <2>3 DEF StreamGoes
<1>3. BrowserGoes(hearing)
    BY DEF Handled
<1>4. ASSUME hearing
      PROVE  /\ Head(answers).command \in OnItsWay
             /\ Head(answers).command.kind
                   \notin {"LookupPullRequest", "LoadPullRequestStackMember"}
                   => Head(answers).seen = Head(answers).command.member
    <2>1. answers # <<>> /\ answers \in Seq(Event)
        BY <1>0, <1>4 DEF Handled, LaneTypeOK
    <2>2. Head(answers) \in Elements(answers)
        BY <2>1, TailElements
    <2>3. Head(answers).command \in OnItsWay
        BY <2>2, PlacesOnTheWay DEF Elements
    <2> QED
        BY <2>1, <2>3, HeadIs
<1>5. ASSUME NEW c \in OnItsWay'
      PROVE  /\ \A s \in Streams : c.kind = KindOf[s] =>
                   /\ c.generation <= streams'[s].generation
                   /\ c.generation = streams'[s].generation => c.member = Who(inspector', s)
             /\ c.kind = "LoadPullRequestCommits" =>
                   /\ c.generation <= browser'.generation
                   /\ c.generation = browser'.generation =>
                         SameHead(c.member, Listed(browser', pull_request'))
    <2>1. CASE c \in Elements(outbox')
        <3>1. ASSUME NEW s \in Streams, c.kind = KindOf[s]
              PROVE  c.generation = streams'[s].generation /\ c.member = Who(inspector', s)
            BY <1>2, <2>1, <3>1 DEF Reading
        <3>2. c.kind = "LoadPullRequestCommits" =>
                 c.generation = browser'.generation /\ c.member = Listed(browser', pull_request')
            BY <1>3, <2>1 DEF BrowserGoes
        <3> QED
            BY <1>0, <3>1, <3>2, SameHeadIsShared
    <2>2. CASE c \in OnItsWay
        <3>1. c.generation \in Nat
            BY <1>0, <2>2
        <3>2. ASSUME NEW s \in Streams, c.kind = KindOf[s]
              PROVE  /\ c.generation <= streams'[s].generation
                     /\ c.generation = streams'[s].generation => c.member = Who(inspector', s)
            <4>1. /\ c.generation <= streams[s].generation
                  /\ c.generation = streams[s].generation => c.member = Who(inspector, s)
                BY <2>2, <3>2 DEF ShownInv, ReadsAreOld
            <4>2. streams[s].generation <= streams'[s].generation
                BY <1>0 DEF GenerationsDoNotWrap
            <4>3. streams[s].generation \in Nat /\ streams'[s].generation \in Nat
                BY <1>0
            <4>4. c.generation <= streams'[s].generation
                BY <3>1, <4>1, <4>2, <4>3
            <4>5. c.generation = streams'[s].generation =>
                     streams'[s].generation = streams[s].generation
                BY <3>1, <4>1, <4>2, <4>3
            <4> QED
                BY <1>2, <4>1, <4>4, <4>5
        <3>3. ASSUME c.kind = "LoadPullRequestCommits"
              PROVE  /\ c.generation <= browser'.generation
                     /\ c.generation = browser'.generation =>
                           SameHead(c.member, Listed(browser', pull_request'))
            <4>1. /\ c.generation <= browser.generation
                  /\ c.generation = browser.generation =>
                        SameHead(c.member, Listed(browser, pull_request))
                BY <2>2, <3>3 DEF ShownInv, ReadsAreOld
            <4>2. browser.generation <= browser'.generation
                BY <1>0 DEF GenerationsDoNotWrap
            <4>3. /\ c.generation <= browser'.generation
                  /\ c.generation = browser'.generation => browser'.generation = browser.generation
                BY <1>0, <3>1, <4>1, <4>2
            <4>4. browser'.generation = browser.generation =>
                     SameHead(Listed(browser', pull_request'), Listed(browser, pull_request))
                BY <1>3 DEF BrowserGoes
            <4> QED
                BY <4>1, <4>3, <4>4, SameHeadIsShared
        <3> QED
            BY <3>2, <3>3
    <2> QED
        BY <1>1, <2>1, <2>2
<1>6. ASSUME NEW s \in Streams
      PROVE  streams'[s].shows = NoMember \/ SameHead(streams'[s].shows, Who(inspector', s))
    <2>1. streams[s].shows = NoMember \/ SameHead(streams[s].shows, Who(inspector, s))
        BY DEF ShownInv, InspectorShowsTheSelectedMember
    <2>2. CASE /\ Hearing(hearing, KindOf[s]) /\ Who(inspector', s) = Who(inspector, s)
               /\ streams'[s].shows = Head(answers).seen
               /\ s = "detail" => SameHead(Head(answers).seen, Who(inspector, s))
        <3>1. CASE s = "detail"
            BY <2>2, <3>1
        <3>2. CASE s # "detail"
            <4>1. hearing /\ Head(answers).command.kind = KindOf[s] /\ Current(Head(answers).command)
                BY <2>2 DEF Hearing
            <4>2. KindOf[s] \notin {"LookupPullRequest", "LoadPullRequestStackMember"}
                BY <3>2 DEF Streams, KindOf
            <4>3. Head(answers).seen = Head(answers).command.member
                BY <1>4, <4>1, <4>2
            <4>4. Head(answers).command.generation = streams[s].generation
                BY <4>1, StreamKindsDiffer DEF Current
            <4>5. Head(answers).command.member = Who(inspector, s)
                BY <1>4, <4>1, <4>4 DEF ShownInv, ReadsAreOld
            <4> QED
                BY <2>2, <4>3, <4>5, SameHeadIsShared
        <3> QED
            BY <3>1, <3>2
    <2> QED
        BY <1>2, <2>1, <2>2
<1>7. \/ browser'.shows = NoMember
      \/ SameHead(browser'.shows, Listed(browser', pull_request'))
    <2>1. browser.shows = NoMember \/ SameHead(browser.shows, Listed(browser, pull_request))
        BY DEF ShownInv, BrowserShowsItsOwner
    <2>2. CASE /\ browser'.shows = browser.shows
               /\ SameHead(Listed(browser', pull_request'), Listed(browser, pull_request))
        BY <2>1, <2>2, SameHeadIsShared
    <2>3. CASE /\ browser'.shows = streams["commits"].shows
               /\ section = "Stack" /\ Listed(browser', pull_request') = SelectedPullRequest
        <3>1. \A s \in {"commits", "detail"} :
                 streams[s].shows = NoMember \/ SameHead(streams[s].shows, inspector.selected)
            BY DEF ShownInv, InspectorShowsTheSelectedMember, Streams, Who
        <3>2. SameHead(SelectedPullRequest, inspector.selected)
            BY <2>3, <3>1, SameHeadIsShared DEF SelectedPullRequest
        <3> QED
            BY <2>3, <3>1, <3>2, SameHeadIsShared
    <2>4. CASE /\ Hearing(hearing, "LoadPullRequestCommits")
               /\ browser'.shows = Head(answers).seen
               /\ browser'.generation = browser.generation
        <3>1. /\ hearing /\ Head(answers).command.kind = "LoadPullRequestCommits"
              /\ Current(Head(answers).command)
            BY <2>4 DEF Hearing
        <3>2. Head(answers).seen = Head(answers).command.member
            BY <1>4, <3>1
        <3>3. Head(answers).command.generation = browser.generation
            BY <3>1 DEF Current
        <3>4. SameHead(Head(answers).command.member, Listed(browser, pull_request))
            BY <1>4, <3>1, <3>3 DEF ShownInv, ReadsAreOld
        <3>5. SameHead(Listed(browser', pull_request'), Listed(browser, pull_request))
            BY <1>3, <2>4 DEF BrowserGoes
        <3> QED
            BY <2>4, <3>2, <3>4, <3>5, SameHeadIsShared
    <2> QED
        BY <1>3, <2>2, <2>3, <2>4 DEF BrowserGoes
<1>8. ReadsAreOld'
    <2>1. PICK w : w = OnItsWay'
        OBVIOUS
    <2> QED
        BY <1>5 DEF ReadsAreOld, Who, Listed
<1>9. InspectorShowsTheSelectedMember' /\ BrowserShowsItsOwner'
    BY <1>6, <1>7 DEF InspectorShowsTheSelectedMember, BrowserShowsItsOwner, Who, Listed
<1> QED
    BY <1>8, <1>9 DEF ShownInv

LEMMA ShownStarts ==
    ASSUME Init
    PROVE  ShownInv
<1> DEFINE first == [kind |-> "LookupPullRequest", generation |-> 1,
                     member |-> [id |-> Opened, head |-> 0, details |-> 0]]
<1>1. /\ streams = [s \in Streams |-> Idle]
      /\ browser = NewBrowser([generation |-> 0])
      /\ outbox = <<first>> /\ mailbox = [l \in Lanes |-> NewMailbox]
      /\ executing = [l \in Lanes |-> NoCommand] /\ answers = <<>>
    BY DEF Init, InitLane
<1>2. Idle.shows = NoMember /\ browser.shows = NoMember
    BY <1>1 DEF Idle, NewBrowser
<1>3. first.kind = "LookupPullRequest"
    OBVIOUS
<1> HIDE DEF first
<1>4. Waiting(NewMailbox) = {}
    BY DEF Waiting, Full, NewMailbox
<1>5. OnItsWay = {first}
    BY <1>1, <1>4 DEF OnItsWay
<1>6. ReadsAreOld
    BY <1>3, <1>5, StreamKindsDiffer DEF ReadsAreOld
<1> QED
    BY <1>1, <1>2, <1>6 DEF ShownInv, InspectorShowsTheSelectedMember, BrowserShowsItsOwner

LEMMA ShownKeeps ==
    ASSUME InspectorInv, ShownInv, [Next]_vars, [GenerationsDoNotWrap]_vars
    PROVE  ShownInv'
<1>1. CASE Beyond
    BY <1>1, BeyondShows
<1>2. CASE \E hearing \in BOOLEAN : Handled(hearing)
    <2>1. PICK hearing \in BOOLEAN : Handled(hearing)
        BY <1>2
    <2>2. CASE GenerationsDoNotWrap
        BY <2>1, <2>2, HandledShows
    <2>3. CASE UNCHANGED vars
        BY <2>3, BeyondShows DEF Beyond
    <2> QED
        BY <2>2, <2>3
<1> QED
    BY <1>1, <1>2, StepsAreHandled

LEMMA ShownStaysSound ==
    Safe /\ [][GenerationsDoNotWrap]_vars => [](InspectorInv /\ ShownInv)
<1>1. Init => InspectorInv /\ ShownInv
    BY InspectorStarts, ShownStarts
<1>2. InspectorInv /\ ShownInv /\ [Next]_vars /\ [GenerationsDoNotWrap]_vars
      => (InspectorInv /\ ShownInv)'
    BY InspectorKeeps, ShownKeeps
<1> QED
    BY <1>1, <1>2, PTL DEF Safe

(* Cursor, inspector and streams agree through every answer and every stack,  *)
(* as long as the generations of the streams do not wrap: no stream shows     *)
(* another member or an earlier head than the one inspected.                  *)
THEOREM TheSelectionIsFollowed ==
    Safe /\ [][GenerationsDoNotWrap]_vars => []InspectorFollowsTheSelection
<1>1. InspectorInv /\ ShownInv => InspectorFollowsTheSelection
    BY DEF InspectorInv, ShapeOK, ShownInv, InspectorFollowsTheSelection
<1> QED
    BY <1>1, ShownStaysSound, PTL

(* The browser never lists the commits of another member than its owner, or   *)
(* of an earlier head, whichever answer comes late.                           *)
THEOREM BrowserStaysWithItsOwner ==
    Safe /\ [][GenerationsDoNotWrap]_vars => []BrowserShowsItsOwner
<1>1. ShownInv => BrowserShowsItsOwner
    BY DEF ShownInv
<1> QED
    BY <1>1, ShownStaysSound, PTL

LEMMA StepsKeepContent ==
    ASSUME InspectorInv, [Next]_vars, NEW s \in Streams,
           Who(inspector, s) = Who(inspector', s), streams[s].shows # NoMember
    PROVE  streams'[s].shows # NoMember
<1>1. CASE Beyond
    BY <1>1, BeyondKeeps DEF PanesStay, panes
<1>2. CASE \E hearing \in BOOLEAN : Handled(hearing)
    <2>1. PICK hearing \in BOOLEAN : Handled(hearing)
        BY <1>2
    <2>2. StreamGoes(s, hearing)
        BY <2>1 DEF Handled
    <2>3. CASE StreamMoves(s, streams[s], streams'[s], Who(inspector, s), Who(inspector', s),
                           Elements(outbox'))
        BY <2>3 DEF StreamMoves
    <2>4. CASE /\ StreamTold(s, streams[s], streams'[s], Who(inspector, s), Elements(outbox'),
                             Head(answers))
               /\ Hearing(hearing, KindOf[s])
        <3>1. answers # <<>>
            BY <2>1, <2>4 DEF Handled, Hearing
        <3>2. Head(answers).seen # NoMember
            BY <3>1, HeadIs, NamesAre
        <3> QED
            BY <2>4, <3>2 DEF StreamTold
    <2> QED
        BY <2>2, <2>3, <2>4 DEF StreamGoes
<1> QED
    BY <1>1, <1>2, StepsAreHandled

(* A refresh, a failed read or a moved tip takes nothing away that is shown   *)
(* of a member that stays inspected, as long as the stack says the same of    *)
(* it: not only its head, but its title, state and reviews as well.           *)
THEOREM ContentIsKept == Safe => ContentStaysVisible
<1>1. InspectorInv /\ [Next]_vars =>
         [\A s \in Streams :
            /\ Who(inspector, s) = Who(inspector', s)
            /\ streams[s].shows # NoMember
            => streams[s].shows' # NoMember]_vars
    BY StepsKeepContent
<1> QED
    BY <1>1, InspectorStaysSound, PTL DEF Safe, ContentStaysVisible
===============================================================================
