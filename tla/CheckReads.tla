------------------------------ MODULE CheckReads ------------------------------
(***************************************************************************)
(* The checks of a commit and the logs of their jobs, read while the jobs  *)
(* run.  A listing is cached for half a minute; steps and log of a job are *)
(* kept for ever once the listing said that it finished.  The interface    *)
(* reads both; pr checks --watch and pr logs --watch read until the end.   *)
(*                                                                         *)
(* A log is as long as the job has written; its publication may lag behind *)
(* the job's end.                                                          *)
(***************************************************************************)
EXTENDS Naturals, FiniteSets

CONSTANTS
    Jobs,           \* the jobs of the commit's workflows
    LogLength,      \* what a job writes
    MaxCheckReads   \* bound on the reads

VARIABLES
    jobs,       \* GitHub: the state of each job, what it wrote, and whether its log can be read
    listed,     \* the cached listing
    logs,       \* the cached logs
    reader,     \* the read that runs
    shown,      \* the last log that was answered
    readCount

checkVars == <<jobs, listed, logs, reader, shown, readCount>>

Verdicts == {"passed", "failed", "skipped"}
Absent == [status |-> "absent", written |-> 0, steps |-> 0]
NoLog == [data |-> 0, steps |-> 0]

Init ==
    /\ jobs = [j \in Jobs |-> [status |-> "absent", written |-> 0, published |-> FALSE]]
    /\ listed = [checks |-> [j \in Jobs |-> "absent"], known |-> FALSE, fresh |-> FALSE]
    /\ logs = [steps |-> {}, data |-> [j \in {} |-> 0]]
    /\ reader = [at |-> "idle", mode |-> "once", job |-> "none", status |-> "absent", checks |-> <<>>,
                 steps |-> FALSE]
    /\ shown = [at |-> "none", job |-> "none", status |-> "absent", data |-> 0, cut |-> FALSE,
                code |-> 0, checks |-> <<>>]
    /\ readCount = 0
-----------------------------------------------------------------------------
(* GitHub, external: a job appears, writes, and ends; its log is published at *)
(* some time, in whole once the job has ended.                                *)

Appear(j) ==
    /\ jobs[j].status = "absent"
    /\ \E status \in {"pending", "skipped"} :
          jobs' = [jobs EXCEPT ![j].status = status]

WriteLog(j) ==
    /\ jobs[j].status = "pending" /\ jobs[j].written < LogLength
    /\ jobs' = [jobs EXCEPT ![j].written = @ + 1]

Publish(j) ==
    /\ jobs[j].status # "absent" /\ ~ jobs[j].published
    /\ jobs' = [jobs EXCEPT ![j].published = TRUE]

End(j) ==
    /\ jobs[j].status = "pending" /\ jobs[j].written = LogLength
    /\ \E verdict \in {"passed", "failed"} : jobs' = [jobs EXCEPT ![j].status = verdict]

Age == listed.fresh /\ listed' = [listed EXCEPT !.fresh = FALSE]

World ==
    \/ (\E j \in Jobs : Appear(j) \/ WriteLog(j) \/ Publish(j) \/ End(j)) /\ UNCHANGED listed
    \/ Age /\ UNCHANGED jobs

External == World /\ UNCHANGED <<logs, reader, shown, readCount>>
-----------------------------------------------------------------------------
(* pull_request_checks and commit_checks.  gh exits with 1 or 8 when checks   *)
(* failed or are pending, and its answer counts all the same; no checks at    *)
(* all is an answer, too.                                                     *)
Listing == [j \in Jobs |-> jobs[j].status]
Running(status) == status = "pending"

ListChecks(refresh, checks) ==
    IF ~ refresh /\ listed.fresh THEN checks = listed.checks /\ UNCHANGED listed
    ELSE checks = Listing /\ listed' = [checks |-> Listing, known |-> TRUE, fresh |-> TRUE]

Busy(mode) == readCount < MaxCheckReads /\ reader.at = "idle" /\ readCount' = readCount + 1

(* The listing, and the log of one of its checks; once, or as long as it runs.*)
ListFor(mode, refresh) ==
    \E checks \in {Listing, listed.checks} :
        /\ ListChecks(refresh, checks)
        /\ \E j \in Jobs :
              /\ checks[j] # "absent"
              /\ reader' = [reader EXCEPT !.at = "steps", !.mode = mode, !.job = j,
                                          !.status = checks[j], !.checks = checks]
        /\ UNCHANGED <<jobs, logs, shown>>

OpenLog == \E refresh \in BOOLEAN : Busy("once") /\ ListFor("once", refresh)
TailLog == Busy("watch") /\ ListFor("watch", TRUE)

(* check_run_steps: what cannot be read is left out. *)
ReadSteps ==
    /\ reader.at = "steps"
    /\ \/ /\ reader' = [reader EXCEPT !.at = "log", !.steps = TRUE]
          /\ logs' = IF Running(reader.status) THEN logs
                     ELSE [logs EXCEPT !.steps = @ \cup {reader.job}]
       \/ reader' = [reader EXCEPT !.at = "log", !.steps = FALSE] /\ UNCHANGED logs
    /\ UNCHANGED <<jobs, listed, shown, readCount>>

Kept(j, data) == [i \in DOMAIN logs.data \cup {j} |-> IF i = j THEN data ELSE logs.data[i]]

(* Mutant: the log of a running job is kept, too. *)
KeepAnyLog(status, data, cut) == ~ cut /\ data > 0

(* The log of a finished job is kept unless it is empty or too long.          *)
KeepLog(status, data, cut) == ~ Running(status) /\ ~ cut /\ data > 0

(* watch::run: a frame of a log is the last if the job had ended before.      *)
Frame(data, cut) ==
    /\ shown' = [at |-> IF reader.mode = "watch" /\ ~ Running(reader.status) THEN "ended" ELSE "frame",
                 job |-> reader.job, status |-> reader.status, data |-> data, cut |-> cut,
                 code |-> IF reader.status = "failed" THEN 1 ELSE 0, checks |-> reader.checks]
    /\ reader' = [reader EXCEPT !.at = IF reader.mode = "watch" /\ Running(reader.status)
                                       THEN "again" ELSE "idle"]

(* check_run_raw_log: cached if the job had ended; else what there is, which  *)
(* may be nothing, or more than is kept of an output.                         *)
ReadLog ==
    /\ reader.at = "log"
    /\ IF ~ Running(reader.status) /\ reader.job \in DOMAIN logs.data
       THEN Frame(logs.data[reader.job], FALSE) /\ UNCHANGED logs
       ELSE \E data \in 0 .. (IF jobs[reader.job].published THEN jobs[reader.job].written ELSE 0) :
            LET cut == jobs[reader.job].published /\ data < jobs[reader.job].written IN
            /\ Frame(data, cut)
            /\ logs' = IF KeepLog(reader.status, data, cut)
                       THEN [logs EXCEPT !.data = Kept(reader.job, data)] ELSE logs
    /\ UNCHANGED <<jobs, listed, readCount>>

(* logs --watch: the next frame is of a new listing.                          *)
Again ==
    /\ reader.at = "again" /\ readCount < MaxCheckReads
    /\ readCount' = readCount + 1
    /\ \E checks \in {Listing} :
          /\ ListChecks(TRUE, checks)
          /\ reader' = [reader EXCEPT !.at = "steps", !.status = checks[reader.job],
                                      !.checks = checks]
    /\ UNCHANGED <<jobs, logs, shown>>

(* checks --watch ends when there are checks and none is running.             *)
Settled(checks) == (\E j \in Jobs : checks[j] # "absent") /\ \A j \in Jobs : ~ Running(checks[j])
ExitFor(checks) == IF \E j \in Jobs : checks[j] \in {"failed", "pending"} THEN 1 ELSE 0

WatchChecks ==
    /\ Busy("watch")
    /\ ListChecks(TRUE, Listing)
    /\ shown' = [at |-> IF Settled(Listing) THEN "settled" ELSE "frame", job |-> "none",
                 status |-> "absent", data |-> 0, cut |-> FALSE, code |-> ExitFor(Listing),
                 checks |-> Listing]
    /\ UNCHANGED <<jobs, logs, reader>>

(* prefetch_check_run_logs reads the finished jobs of a listing, which may be *)
(* old by then.                                                               *)
Prefetch ==
    /\ Busy("prefetch")
    /\ \E j \in Jobs :
          /\ listed.known /\ listed.checks[j] \in Verdicts
          /\ reader' = [reader EXCEPT !.at = "steps", !.mode = "prefetch", !.job = j,
                                      !.status = listed.checks[j], !.checks = listed.checks]
    /\ UNCHANGED <<jobs, listed, logs, shown>>

ReadFails ==
    /\ reader.at \in {"log", "steps", "again"}
    /\ reader' = [reader EXCEPT !.at = "idle"]
    /\ UNCHANGED <<jobs, listed, logs, shown, readCount>>

Next == \/ External \/ OpenLog \/ TailLog \/ ReadSteps \/ ReadLog \/ Again \/ WatchChecks
        \/ Prefetch \/ ReadFails

Spec == Init /\ [][Next]_checkVars
-----------------------------------------------------------------------------
TypeOK ==
    /\ \A j \in Jobs : jobs[j].status \in Verdicts \cup {"absent", "pending"}
    /\ DOMAIN logs.data \subseteq Jobs /\ logs.steps \subseteq Jobs
    /\ reader.at \in {"idle", "steps", "log", "again"}

(* What is kept for ever is final: the steps and the log of a job are those   *)
(* after its end, whatever the listing that was used said.  So the last frame *)
(* of a watched log is the whole log, and says how the job ended; and a watch *)
(* of checks ends with their verdict.                                         *)
LogsAreFinal ==
    /\ \A j \in DOMAIN logs.data : jobs[j].status \in Verdicts /\ logs.data[j] = LogLength
    /\ \A j \in logs.steps : jobs[j].status \in Verdicts
    /\ shown.at = "ended" =>
          /\ shown.status = jobs[shown.job].status
          /\ shown.data \in {0, jobs[shown.job].written} \/ shown.cut
          /\ (shown.code = 1) = (jobs[shown.job].status = "failed")
    /\ shown.at = "settled" =>
          /\ \E j \in Jobs : shown.checks[j] # "absent"
          /\ \A j \in Jobs : shown.checks[j] # "absent" =>
                shown.checks[j] = jobs[j].status /\ jobs[j].status \in Verdicts
          /\ (shown.code = 0) = \A j \in Jobs : shown.checks[j] # "failed"
=============================================================================
