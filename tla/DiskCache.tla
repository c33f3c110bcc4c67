------------------------------- MODULE DiskCache -------------------------------
(***************************************************************************)
(* The directory of cached answers that every process of a user shares.    *)
(* An entry is written to a temporary file, whatever was there is removed, *)
(* and the file is renamed; then the oldest entries are pruned.  Nothing   *)
(* is locked, so the calls of two processes interleave.                    *)
(*                                                                         *)
(* A process opens a pull request: it reads the metadata through the       *)
(* cache, and then records it in the list of recent pull requests, which   *)
(* is an entry itself and is completed by scanning the others.  All        *)
(* entries count as equally large and as parseable.                        *)
(***************************************************************************)
EXTENDS Naturals, FiniteSets, Sequences, SequencesExt

CONSTANTS
    Clients,       \* the processes
    PullRequests,  \* those that may be opened
    Ttl,           \* PULL_REQUEST_CACHE_TTL, in ticks of the clock
    MaxRecent,     \* MAX_RECENT_PULL_REQUESTS
    CacheBounds,   \* MAX_CACHE_ENTRIES, and bounds: how many pull requests are opened,
                   \* how often the clock ticks, how often a process dies
    Absent,        \* what is read where there is nothing
    Torn           \* what a file holds that was created and is not yet written

VARIABLES
    directory,     \* the files: the name of each, what it holds, when it was written
    clients,       \* what each process is doing
    recorded,      \* the pull requests whose recording has ended
    passed         \* the bounds, and the ticks, opens and crashes so far

diskVars == <<directory, clients, recorded, passed>>

(* Keys are hashed into distinct names; a temporary file is named after the   *)
(* process and a counter of its own.                                          *)
Keys == PullRequests \cup {"recent"}
Name(key) == [key |-> key, writer |-> "nobody", number |-> 0]

(* Mutant: temporary files are numbered, but not told apart by the process. *)
TemporaryOfAll(c) == [key |-> "none", writer |-> "all", number |-> clients[c].writes]

TemporaryOf(c) == [key |-> "none", writer |-> c, number |-> clients[c].writes]
Entries == {f \in directory : f.name.key \in Keys}

Holds(name)  == \E f \in directory : f.name = name
FileAt(name) == CHOOSE f \in directory : f.name = name
Without(name) == {f \in directory : f.name # name}

(* What GitHub answers about a pull request at a moment. *)
Answer(pr) == [of |-> pr, asked |-> passed.ticks]
Answers    == [of : PullRequests, asked : 0 .. passed.bounds.ticks]
Lists      ==
    {l \in [list : UNION {[1 .. n -> PullRequests] : n \in 0 .. MaxRecent}] : IsInjective(l.list)}

Idle ==
    [at |-> "idle", pr |-> "none", refresh |-> FALSE, key |-> "none", stamp |-> 0,
     cached |-> Absent, value |-> Absent, listing |-> {}, count |-> 0, scanned |-> <<>>,
     known |-> {}, missed |-> {}, writes |-> 0]

Init ==
    /\ directory = {}
    /\ clients = [c \in Clients |-> Idle]
    /\ recorded = {}
    /\ \E b \in CacheBounds : passed = [bounds |-> b, ticks |-> 0, opens |-> 0, crashes |-> 0]

At(c, label) == clients[c].at = label
Step(c, next) == clients' = [clients EXCEPT ![c] = next]

(* A file that goes away is missed by the scans that are under way. *)
Noticed(next, name) ==
    [c \in Clients |-> IF next[c].at \in {"stat", "fetch", "list", "scan", "merge"}
                       THEN [next[c] EXCEPT !.missed = @ \cup {name}] ELSE next[c]]
-----------------------------------------------------------------------------
(* checked_cached_gh: the metadata of one pull request. *)

Open(c, pr, refresh) ==
    /\ At(c, "idle")
    /\ passed.opens < passed.bounds.opens
    /\ passed' = [passed EXCEPT !.opens = @ + 1]
    /\ Step(c, [Idle EXCEPT !.at = "stat", !.pr = pr, !.refresh = refresh, !.key = pr,
                            !.writes = clients[c].writes])
    /\ UNCHANGED <<directory, recorded>>

(* The age of an entry is taken from its metadata, before its data is read. *)
Stat(c) ==
    /\ At(c, "stat")
    /\ LET me == clients[c] IN
       IF Holds(Name(me.key))
       THEN Step(c, [me EXCEPT !.at = "fetch", !.stamp = FileAt(Name(me.key)).written])
       ELSE Step(c, [me EXCEPT !.at = IF me.key = "recent" THEN "list" ELSE "ask",
                               !.cached = Absent])
    /\ UNCHANGED <<directory, recorded, passed>>

(* CacheLife::accepts *)
Accepts(me) == passed.ticks - me.stamp <= Ttl

Found(me, data) ==
    CASE me.key = "recent"                               -> [me EXCEPT !.at = "list"]
      [] data # Absent /\ ~ me.refresh /\ Accepts(me)      -> [me EXCEPT !.at = "record"]
      [] OTHER                                           -> [me EXCEPT !.at = "ask"]

(* A file without the magic number counts as absent. *)
Fetch(c) ==
    /\ At(c, "fetch")
    /\ LET me   == clients[c]
           data == IF Holds(Name(me.key)) /\ FileAt(Name(me.key)).data # Torn
                   THEN FileAt(Name(me.key)).data ELSE Absent IN
       Step(c, [Found(me, data) EXCEPT !.cached = data])
    /\ UNCHANGED <<directory, recorded, passed>>

(* gh answers, or fails: then an entry of any age is served. *)
Ask(c) ==
    /\ At(c, "ask")
    /\ LET me == clients[c] IN
       \/ Step(c, [me EXCEPT !.at = "create", !.value = Answer(me.pr),
                             !.cached = Answer(me.pr)])
       \/ me.cached = Absent /\ Step(c, [Idle EXCEPT !.writes = me.writes])
       \/ me.cached # Absent /\ Step(c, [me EXCEPT !.at = "record"])
    /\ UNCHANGED <<directory, recorded, passed>>
-----------------------------------------------------------------------------
(* CacheStore::write *)

Create(c) ==
    /\ At(c, "create")
    /\ directory' = directory \cup {[name |-> TemporaryOf(c), data |-> Torn,
                                     written |-> passed.ticks]}
    /\ Step(c, [clients[c] EXCEPT !.at = "fill"])
    /\ UNCHANGED <<recorded, passed>>

Fill(c) ==
    /\ At(c, "fill")
    /\ directory' = Without(TemporaryOf(c))
                    \cup {[name |-> TemporaryOf(c), data |-> clients[c].value,
                           written |-> passed.ticks]}
    /\ Step(c, [clients[c] EXCEPT !.at = "remove"])
    /\ UNCHANGED <<recorded, passed>>

Unlink(c) ==
    /\ At(c, "remove")
    /\ directory' = Without(Name(clients[c].key))
    /\ clients' = LET next == [clients EXCEPT ![c].at = "rename"] IN
                  IF Holds(Name(clients[c].key)) THEN Noticed(next, clients[c].key) ELSE next
    /\ UNCHANGED <<recorded, passed>>

(* Renaming replaces what another writer put there meanwhile. *)
Rename(c) ==
    /\ At(c, "rename")
    /\ directory' = {f \in directory : f.name \notin {Name(clients[c].key), TemporaryOf(c)}}
                    \cup {[FileAt(TemporaryOf(c)) EXCEPT !.name = Name(clients[c].key)]}
    /\ Step(c, [clients[c] EXCEPT !.at = "census", !.writes = @ + 1])
    /\ UNCHANGED <<recorded, passed>>

(* Mutant: a replaced entry does not grow the cache, so only new keys prune. *)
CensusOfNewKeys(c) ==
    /\ At(c, "census")
    /\ Step(c, [clients[c] EXCEPT !.at = "prune",
                                  !.listing = IF clients[c].key = "recent" THEN {} ELSE Entries,
                                  !.count = IF clients[c].key = "recent" THEN 0
                                            ELSE Cardinality(Entries)])
    /\ UNCHANGED <<directory, recorded, passed>>

(* Temporary files are not counted and never pruned. *)
Census(c) ==
    /\ At(c, "census")
    /\ Step(c, [clients[c] EXCEPT !.at = "prune", !.listing = Entries,
                                  !.count = Cardinality(Entries)])
    /\ UNCHANGED <<directory, recorded, passed>>

Written(me) ==
    IF me.key = "recent"
    THEN [Idle EXCEPT !.writes = me.writes]
    ELSE [me EXCEPT !.at = "record", !.listing = {}, !.count = 0]

(* The oldest entry of the census is removed by name, whatever is there now;  *)
(* one that is gone already does not count.                                   *)
Prune(c) ==
    /\ At(c, "prune")
    /\ LET me == clients[c] IN
       IF me.count <= passed.bounds.entries \/ me.listing = {}
       THEN /\ Step(c, Written(me))
            /\ recorded' = IF me.key = "recent" THEN recorded \cup {me.pr} ELSE recorded
            /\ UNCHANGED directory
       ELSE \E f \in me.listing :
            /\ \A g \in me.listing : f.written <= g.written
            /\ directory' = Without(f.name)
            /\ clients' = LET next == [clients EXCEPT ![c].listing = @ \ {f},
                                                      ![c].count = @ - (IF Holds(f.name) THEN 1 ELSE 0)] IN
                          IF Holds(f.name) THEN Noticed(next, f.name.key) ELSE next
            /\ UNCHANGED recorded
    /\ UNCHANGED passed
-----------------------------------------------------------------------------
(* record_recent_pull_request *)

Record(c) ==
    /\ At(c, "record")
    /\ Step(c, [clients[c] EXCEPT !.at = "stat", !.key = "recent", !.value = Absent,
                                  !.known = {pr \in recorded : Holds(Name(pr))},
                            !.missed = {}])
    /\ UNCHANGED <<directory, recorded, passed>>

(* cached_pull_requests lists the entries and then reads one after another,   *)
(* the newest first.                                                          *)
List(c) ==
    /\ At(c, "list")
    /\ Step(c, [clients[c] EXCEPT !.at = "scan", !.listing = Entries])
    /\ UNCHANGED <<directory, recorded, passed>>

Scan(c) ==
    /\ At(c, "scan")
    /\ LET me == clients[c] IN
       IF me.listing = {} \/ Len(me.scanned) = MaxRecent
       THEN Step(c, [me EXCEPT !.at = "merge", !.listing = {}])
       ELSE \E f \in me.listing :
            /\ \A g \in me.listing : f.written >= g.written
            /\ Step(c, [me EXCEPT !.listing = @ \ {f},
                   !.scanned = IF /\ Holds(f.name) /\ f.name.key \in PullRequests
                                  /\ FileAt(f.name).data # Torn
                               THEN Append(@, f.name.key) ELSE @])
    /\ UNCHANGED <<directory, recorded, passed>>

Truncated(s) == SubSeq(s, 1, IF Len(s) < MaxRecent THEN Len(s) ELSE MaxRecent)
Except(s, prs) == SelectSeq(s, LAMBDA x : x \notin prs)
ListOf(data) == IF data = Absent THEN <<>> ELSE data.list

(* Mutant: the list is taken from its own entry only. *)
RecentFromEntry(me) == Truncated(ListOf(me.cached))

(* recent_pull_requests: the entry, completed by what was scanned. *)
Recent(me) ==
    LET list == ListOf(me.cached) IN
    Truncated(list \o Except(me.scanned, ToSet(list)))

(* The current pull request comes first; the list is written like any entry. *)
Merge(c) ==
    /\ At(c, "merge")
    /\ LET me == clients[c] IN
       Step(c, [me EXCEPT !.at = "create", !.scanned = <<>>, !.cached = Absent,
                          !.known = {}, !.missed = {},
                          !.value = [list |->
                              Truncated(<<me.pr>> \o Except(Recent(me), {me.pr}))]])
    /\ UNCHANGED <<directory, recorded, passed>>
-----------------------------------------------------------------------------
Client(c) ==
    \/ \E pr \in PullRequests, refresh \in BOOLEAN : Open(c, pr, refresh)
    \/ Stat(c) \/ Fetch(c) \/ Ask(c) \/ Record(c) \/ List(c) \/ Scan(c) \/ Merge(c)
    \/ Create(c) \/ Fill(c) \/ Unlink(c) \/ Rename(c) \/ Census(c) \/ Prune(c)

(* A process dies and another takes its place, under another process id. *)
Crash(c) ==
    /\ ~ At(c, "idle")
    /\ passed.crashes < passed.bounds.crashes
    /\ passed' = [passed EXCEPT !.crashes = @ + 1]
    /\ Step(c, [Idle EXCEPT !.writes = clients[c].writes + 1])
    /\ UNCHANGED <<directory, recorded>>

Tick ==
    /\ passed.ticks < passed.bounds.ticks
    /\ passed' = [passed EXCEPT !.ticks = @ + 1]
    /\ UNCHANGED <<directory, clients, recorded>>

Next == Tick \/ \E c \in Clients : Client(c) \/ Crash(c)

Spec == Init /\ [][Next]_diskVars
-----------------------------------------------------------------------------
TypeOK ==
    /\ \A f \in directory :
          /\ f.written \in 0 .. passed.bounds.ticks
          /\ \/ f.name \in {Name(k) : k \in Keys}
             \/ f.name \in [key : {"none"}, writer : Clients, number : Nat]
          /\ \A g \in directory : f.name = g.name => f = g
    /\ \A c \in Clients :
          clients[c].at \in {"idle", "stat", "fetch", "ask", "create", "fill", "remove",
                             "rename", "census", "prune", "record", "list", "scan", "merge"}
    /\ recorded \subseteq PullRequests

(* Whatever is found under a name is complete and is what was stored under    *)
(* it, even after a process died in the middle of a write.                    *)
EntriesAreWhole ==
    \A f \in Entries :
        IF f.name.key = "recent" THEN f.data \in Lists
        ELSE f.data \in Answers /\ f.data.of = f.name.key

(* The cache outgrows its bound by no more than one entry for each process    *)
(* that is between storing an entry and the end of its pruning, or died       *)
(* there; temporary files are left only by writers that died.                 *)
CacheStaysBounded ==
    /\ Cardinality(Entries) <= passed.bounds.entries + passed.crashes
           + Cardinality({c \in Clients : clients[c].at \in {"census", "prune"}})
    /\ Cardinality(directory \ Entries) <= passed.crashes
           + Cardinality({c \in Clients : clients[c].at \in {"fill", "remove", "rename"}})

(* A pull request that was recorded is in every list that is put together     *)
(* later, unless its metadata was removed meanwhile: what two processes lose  *)
(* by writing the list over each other is found again by the scan.            *)
RecordedAreFound ==
    \A c \in Clients : At(c, "merge") =>
        \A pr \in clients[c].known :
            \/ pr \in ToSet(Recent(clients[c])) \cup clients[c].missed \cup {clients[c].pr}
            \/ Len(Recent(clients[c])) = MaxRecent
=============================================================================
