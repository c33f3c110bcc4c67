--------------------------- MODULE ConversationReads ---------------------------
(***************************************************************************)
(* Reading one stream of a conversation, the timeline or the review        *)
(* comments, page by page while it grows.  The first page is asked for     *)
(* with the validator of the last complete answer, and a whole stream is   *)
(* kept under the stamp that the pull request had when it was looked up.   *)
(*                                                                         *)
(* Entries are numbered in the order of their timestamps; entry 1 opens    *)
(* the conversation.  Nothing is deleted.  The validator of a first page   *)
(* is taken to change whenever the stream does, also when only later pages *)
(* do: that is an assumption on GitHub.                                    *)
(***************************************************************************)
EXTENDS Naturals, Sequences, SequencesExt, FiniteSets

CONSTANTS
    PageSize,   \* CONVERSATION_PAGE_SIZE
    MaxShown,   \* MAX_CONVERSATION_ENTRIES
    MaxThread,  \* bound on the entries
    MaxReads,   \* bound on reads
    MaxCuts     \* bound on pages that exceed what is kept of an output

VARIABLES
    paging,     \* how GitHub serves the stream
    thread,     \* how many entries it has
    kept,       \* the cache: streams by stamp, and the last validated page
    reader,     \* the read that runs, and what it collected
    answer,     \* the last conversation that was answered
    counted

conversationVars == <<paging, thread, kept, reader, answer, counted>>

None == [complete |-> FALSE, data |-> <<>>]
Idle == [at |-> "idle", stamp |-> 0, page |-> 0, first |-> <<>>, collected |-> <<>>,
         complete |-> TRUE, cut |-> FALSE]

Init ==
    /\ paging \in {"NewestFirst", "LastPageFirst"}
    /\ thread \in 0 .. MaxThread
    /\ kept = [streams |-> [s \in {} |-> None], etag |-> 0, body |-> <<>>]
    /\ reader = Idle
    /\ answer = [stamp |-> 0, entries |-> <<>>, truncated |-> FALSE, cut |-> FALSE]
    /\ counted = [reads |-> 0, cuts |-> 0]
-----------------------------------------------------------------------------
(* GitHub, external. *)

Pages == IF thread = 0 THEN 1 ELSE (thread + PageSize - 1) \div PageSize

Smaller(a, b) == IF a < b THEN a ELSE b
Page(p) ==
    IF paging = "LastPageFirst"
    THEN LET start == (p - 1) * PageSize IN
         [i \in 1 .. (IF thread > start THEN Smaller(PageSize, thread - start) ELSE 0) |-> start + i]
    ELSE LET newest == IF thread > (p - 1) * PageSize THEN thread - (p - 1) * PageSize ELSE 0 IN
         [i \in 1 .. Smaller(PageSize, newest) |-> newest - i + 1]

Grow ==
    /\ thread < MaxThread
    /\ thread' = thread + 1
    /\ UNCHANGED <<paging, kept, reader, answer, counted>>

(* What is kept of an output that exceeds the bound: whole records.           *)
Outputs(page) ==
    {[data |-> page, cut |-> FALSE]}
    \cup (IF counted.cuts < MaxCuts
          THEN {[data |-> SubSeq(page, 1, n), cut |-> TRUE] : n \in 0 .. Len(page) - 1} ELSE {})
Count(cut) == counted' = [counted EXCEPT !.cuts = IF cut THEN @ + 1 ELSE @]
-----------------------------------------------------------------------------
(* pull_request_conversation, with the stamp of a lookup that may be old.     *)

Distinct(data) == SetToSeq(ToSet(data))

(* Mutant: what was read twice is shown twice. *)
UniqueNot(data) == data

(* A comment whose url is already there is dropped. *)
Unique(data) == IF paging = "NewestFirst" THEN Distinct(data) ELSE data

(* Sorted by timestamp, after the entry that opens the conversation.          *)
Everything(data) == SortSeq(<<0>> \o Unique(data), <)
Overflows(data) == Len(Everything(data)) > MaxShown

(* If there are too many: the opening entry and the newest.                   *)
Conversation(data) ==
    LET all == Everything(data) IN
    IF Overflows(data) THEN <<0>> \o SubSeq(all, Len(all) - MaxShown + 2, Len(all)) ELSE all

Answered(stamp, data, complete, cut) ==
    /\ answer' = [stamp |-> stamp, entries |-> Conversation(data), cut |-> cut,
                  truncated |-> cut \/ ~ complete \/ Overflows(data)]
    /\ reader' = Idle

Ask ==
    /\ reader.at = "idle" /\ counted.reads < MaxReads
    /\ counted' = [counted EXCEPT !.reads = @ + 1]
    /\ \E stamp \in {0, thread} \cup DOMAIN kept.streams :
          IF stamp \in DOMAIN kept.streams
          THEN /\ Answered(stamp, kept.streams[stamp].data, kept.streams[stamp].complete, FALSE)
          ELSE /\ reader' = [Idle EXCEPT !.at = "first", !.stamp = stamp]
               /\ UNCHANGED answer
    /\ UNCHANGED <<paging, thread, kept>>

(* conversation_records stores what is complete, or stopped at the cap.       *)
Keep(complete, data) ==
    [s \in DOMAIN kept.streams \cup {reader.stamp} |->
        IF s = reader.stamp THEN [complete |-> complete, data |-> data] ELSE kept.streams[s]]

(* Mutant: the validator of a page that others follow is kept. *)
ValidatorOfAny(data, complete, cut) ==
    IF ~ cut THEN [kept EXCEPT !.etag = thread, !.body = data] ELSE kept

(* validated_gh keeps body and validator together, of complete answers only.  *)
Validator(data, complete, cut) ==
    IF complete /\ ~ cut THEN [kept EXCEPT !.etag = thread, !.body = data] ELSE kept

Unchanged ==
    /\ reader.at = "first" /\ kept.etag = thread /\ thread > 0
    /\ kept' = [kept EXCEPT !.streams = Keep(TRUE, kept.body)]
    /\ Answered(reader.stamp, kept.body, TRUE, FALSE)
    /\ UNCHANGED <<paging, thread, counted>>

(* Rest(data, cut): page 1 is known; the timeline goes on with its last page. *)
Rest(data, cut, hasMore) ==
    IF paging = "LastPageFirst" /\ Pages >= 2
    THEN [reader EXCEPT !.at = "pages", !.page = Pages, !.first = data, !.cut = cut]
    ELSE [reader EXCEPT !.at = IF hasMore THEN "pages" ELSE "done", !.page = 2,
                        !.first = <<>>, !.collected = data, !.cut = cut]

First ==
    /\ reader.at = "first"
    /\ \E out \in Outputs(Page(1)) :
          LET complete == Pages = 1 IN
          /\ Count(out.cut)
          /\ IF out.cut THEN reader' = [reader EXCEPT !.at = "again"] /\ UNCHANGED <<kept, answer>>
             ELSE IF complete
             THEN /\ kept' = [Validator(out.data, complete, out.cut) EXCEPT
                              !.streams = Keep(TRUE, out.data)]
                  /\ Answered(reader.stamp, out.data, TRUE, FALSE)
             ELSE /\ kept' = Validator(out.data, complete, out.cut)
                  /\ reader' = Rest(out.data, FALSE, TRUE)
                  /\ UNCHANGED answer
    /\ UNCHANGED <<paging, thread>>

(* A validated page that failed or was cut is read once more, plainly.        *)
Fallback ==
    /\ reader.at \in {"first", "again"}
    /\ \E out \in Outputs(Page(1)) :
          /\ Count(out.cut)
          /\ reader' = Rest(out.data, out.cut, Pages > 1)
    /\ UNCHANGED <<paging, thread, kept, answer>>

(* Older pages, as long as the cap is not reached.                            *)
More ==
    /\ reader.at = "pages"
    /\ IF Len(reader.collected) >= MaxShown
       THEN /\ reader' = [reader EXCEPT !.at = "done", !.complete = FALSE]
            /\ UNCHANGED counted
       ELSE \E out \in Outputs(Page(reader.page)) :
            LET collected == reader.collected \o out.data
                cut == reader.cut \/ out.cut IN
            /\ Count(out.cut)
            /\ reader' =
                 IF paging = "LastPageFirst"
                 THEN IF reader.page = 2
                      THEN [reader EXCEPT !.at = "done", !.cut = cut,
                                          !.collected = collected \o reader.first]
                      ELSE [reader EXCEPT !.page = @ - 1, !.cut = cut, !.collected = collected]
                 ELSE [reader EXCEPT !.at = IF Pages > reader.page THEN "pages" ELSE "done",
                                     !.page = @ + 1, !.cut = cut, !.collected = collected]
    /\ UNCHANGED <<paging, thread, kept, answer>>

Done ==
    /\ reader.at = "done"
    /\ kept' = IF reader.cut THEN kept
               ELSE [kept EXCEPT !.streams = Keep(reader.complete, reader.collected)]
    /\ Answered(reader.stamp, reader.collected, reader.complete, reader.cut)
    /\ UNCHANGED <<paging, thread, counted>>

Fail ==
    /\ reader.at \in {"again", "pages"}
    /\ reader' = Idle
    /\ UNCHANGED <<paging, thread, kept, answer, counted>>

Next == \/ Grow \/ Ask \/ Unchanged \/ First \/ Fallback \/ More \/ Done \/ Fail

Spec == Init /\ [][Next]_conversationVars
-----------------------------------------------------------------------------
TypeOK ==
    /\ thread \in 0 .. MaxThread
    /\ DOMAIN kept.streams \subseteq 0 .. MaxThread
    /\ reader.at \in {"idle", "first", "again", "pages", "done"}
    /\ Len(answer.entries) <= MaxShown

Shown == ToSet(answer.entries)

(* A conversation that does not say it is truncated has every entry that the  *)
(* pull request had when it was looked up; one that says so lacks the oldest, *)
(* unless an output was too large.  Each entry is there once and in order,    *)
(* whatever arrived between the pages and whatever came from the cache.       *)
ConversationsAreWhole ==
    /\ ~ answer.truncated => 1 .. answer.stamp \subseteq Shown
    /\ ~ answer.cut => \A i \in Shown \ {0}, j \in 1 .. answer.stamp : i < j => j \in Shown
    /\ answer.entries # <<>> => Head(answer.entries) = 0
    /\ \A i, j \in DOMAIN answer.entries : i < j => answer.entries[i] < answer.entries[j]
=============================================================================
