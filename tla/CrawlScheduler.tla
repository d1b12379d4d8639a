--------------------------- MODULE CrawlScheduler ---------------------------
(***************************************************************************)
(* The job loop of one task (run_all_crawlers.main, crawler_scheduler.py): *)
(* a parent process keeps a queue of jobs, starts a crawler process for    *)
(* each within three limits, reaps the ones that ended, kills the silent   *)
(* and the overdue, and writes how many are active to the state file that  *)
(* the crawlers read (AdaptiveConcurrencyController).  The crawlers note   *)
(* in the same file when the database was overloaded; it starts empty and  *)
(* is replaced as a whole, so that no reader finds half of it.  A writer   *)
(* that cannot read it all the same replaces it by its own entries.        *)
(*                                                                         *)
(* Jobs are numbered in the order of sort_jobs_by_priority, and removing   *)
(* one keeps the order of the rest, so that the queue is a set.  When a    *)
(* process counts as silent is the subject of Watchdog.tla.                *)
(*                                                                         *)
(* A definition named D_X is D with a bug X put in: see TaskArray.tla.     *)
(***************************************************************************)
EXTENDS Integers, FiniteSets

CONSTANTS
  JobCount,          \* number of jobs given to this task
  Companies,
  Company,           \* the company of each job
  CompanyLimit,      \* get_company_concurrency_limit
  Browser,           \* PLAYWRIGHT_COMPANIES
  Parallel,          \* --parallel
  BrowserParallel,   \* --playwright-parallel
  HangWatch,         \* HANG_THRESHOLD_SEC > 0
  TimeoutOn,         \* timeout_sec > 0
  Stuck,             \* jobs whose process never ends by itself
  MaxOverloads       \* bound of the model on the overloads that are noted

Jobs == 1 .. JobCount

ASSUME SchedulerAssumption ==
  /\ JobCount \in Nat
  /\ Company \in [Jobs -> Companies]
  /\ CompanyLimit \in [Companies -> Nat \ {0}]
  /\ Browser \subseteq Companies
  /\ Parallel \in Nat \ {0}    \* main exits at once when it is not positive
  /\ BrowserParallel \in Nat
  /\ HangWatch \in BOOLEAN /\ TimeoutOn \in BOOLEAN
  /\ Stuck \subseteq Jobs
  /\ MaxOverloads \in Nat

VARIABLES
  phase,     \* where the loop is; "ended", "aborted" and "killed" are outside of it
  queued,    \* job_queue
  starting,  \* the job whose process runs but is not in active_processes yet
  active,    \* active_processes
  results,   \* results, without the wording
  shown,     \* active_jobs_count in the concurrency state file
  overload,  \* last_overload_time in that file, 0 when it has none
  copied,    \* the overload in the copy of the file that the loop has read
  lost,      \* whether a number that rose could not be written there, or was
             \* replaced together with a file that could not be read (history)
  unread,    \* whether the last write found the file unreadable (history)
  proc,      \* the operating system's view of each job's process
  silent     \* processes without progress for longer than the threshold

file == <<shown, overload, copied, lost, unread>>

vars == <<phase, queued, starting, active, results, shown, overload, copied, lost,
          unread, proc, silent>>

ResultStatus == {"success", "failed", "hung_timeout", "timeout", "error"}

TypeOK ==
  /\ phase \in {"top", "reaped", "watch", "launch", "register", "registered",
               "ended", "aborted", "killed"}
  /\ queued \subseteq Jobs
  /\ starting \subseteq Jobs
  /\ active \subseteq Jobs
  /\ results \subseteq [job : Jobs, status : ResultStatus]
  /\ shown \in Nat
  /\ overload \in 0 .. MaxOverloads /\ copied \in 0 .. MaxOverloads
  /\ lost \in BOOLEAN /\ unread \in BOOLEAN
  /\ proc \in [Jobs -> {"none", "running", "ok", "bad", "killed"}]
  /\ silent \subseteq Jobs

Init ==
  /\ phase = "top"
  /\ queued = Jobs
  /\ starting = {} /\ active = {}
  /\ results = {}
  /\ shown = 1
  /\ overload = 0 /\ copied = 0
  /\ lost = FALSE /\ unread = FALSE
  /\ proc = [j \in Jobs |-> "none"]
  /\ silent = {}

Running == {j \in Jobs : proc[j] = "running"}

Kill(S) == proc' = [j \in Jobs |-> IF j \in S \cap Running THEN "killed" ELSE proc[j]]

\* set_active_jobs_count, and get_active_jobs_count without a file.
Shown(S) == IF S = {} THEN 1 ELSE Cardinality(S)

\* The first half of set_active_jobs_count: a file that cannot be read counts
\* as empty.
ReadFile == copied' \in {overload, 0}

Outcome(S, status) == {[job |-> j, status |-> status] : j \in S}

-----------------------------------------------------------------------------
(* One turn of the loop                                                    *)

\* Nothing is queued and nothing is active: the report is written.
LoopEnds ==
  /\ phase = "top"
  /\ queued = {} /\ active = {}
  /\ phase' = "ended"
  /\ UNCHANGED <<queued, starting, active, results, file, proc, silent>>

Exited == {j \in active : proc[j] \in {"ok", "bad"}}

\* Record every process that has ended.  One that ended with 0 is a success
\* unless its metrics file says that it found nothing.
Reap ==
  /\ phase = "top"
  /\ queued # {} \/ active # {}
  /\ \E good \in SUBSET {j \in Exited : proc[j] = "ok"} :
       results' = results \cup Outcome(good, "success")
                          \cup Outcome(Exited \ good, "failed")
  /\ active' = active \ Exited
  /\ IF Exited = {} THEN phase' = "watch" /\ UNCHANGED copied
                     ELSE phase' = "reaped" /\ ReadFile
  /\ UNCHANGED <<queued, starting, shown, overload, lost, unread, proc, silent>>

\* Kill and record the silent and the overdue, whether or not their process
\* has ended since it was last polled.
KillHungAndLate ==
  /\ phase = "watch"
  /\ LET hung == IF HangWatch THEN active \cap silent ELSE {}
     IN  \E late \in IF TimeoutOn THEN SUBSET (active \ hung) ELSE {{}} :
           /\ results' = results \cup Outcome(hung, "hung_timeout")
                                 \cup Outcome(late, "timeout")
           /\ active' = active \ (hung \cup late)
           /\ Kill(hung \cup late)
  /\ phase' = "launch"
  /\ UNCHANGED <<queued, starting, file, silent>>

ActiveOf(c) == {j \in active : Company[j] = c}

ActiveBrowsers == {j \in active : Company[j] \in Browser}

HasRoom_NoBrowserLimit(j) ==
  Cardinality(ActiveOf(Company[j])) < CompanyLimit[Company[j]]

HasRoom_OffByOne(j) ==
  /\ Company[j] \in Browser => Cardinality(ActiveBrowsers) + 1 < BrowserParallel
  /\ Cardinality(ActiveOf(Company[j])) < CompanyLimit[Company[j]]

\* select_next_job's conditions on one job.
HasRoom(j) ==
  /\ Company[j] \in Browser => Cardinality(ActiveBrowsers) < BrowserParallel
  /\ Cardinality(ActiveOf(Company[j])) < CompanyLimit[Company[j]]

Candidates ==
  IF Cardinality(active) < Parallel THEN {j \in queued : HasRoom(j)} ELSE {}

\* select_next_job: the first of the queue that has room.
IsNext(j) == j \in Candidates /\ \A k \in Candidates : j <= k

\* subprocess.Popen returned: the process runs.
Spawn(j) ==
  /\ phase = "launch" /\ IsNext(j)
  /\ queued' = queued \ {j}
  /\ starting' = {j}
  /\ proc' = [proc EXCEPT ![j] = "running"]
  /\ phase' = "register"
  /\ UNCHANGED <<active, results, file, silent>>

Register_Forgets ==
  /\ phase = "register"
  /\ active' = active
  /\ starting' = {}
  /\ ReadFile
  /\ phase' = "registered"
  /\ UNCHANGED <<queued, results, shown, overload, lost, unread, proc, silent>>

Register_Unshown ==
  /\ phase = "register"
  /\ active' = active \cup starting
  /\ starting' = {}
  /\ phase' = "top"
  /\ UNCHANGED <<queued, results, file, proc, silent>>

\* The process becomes known to the loop, and to the cleanup.
Register ==
  /\ phase = "register"
  /\ active' = active \cup starting
  /\ starting' = {}
  /\ ReadFile
  /\ phase' = "registered"
  /\ UNCHANGED <<queued, results, shown, overload, lost, unread, proc, silent>>

WriteCount_Whole ==
  /\ phase \in {"reaped", "registered"}
  /\ shown' = Shown(active) /\ overload' = copied
  /\ lost' = FALSE /\ unread' = FALSE
  /\ phase' = IF phase = "reaped" THEN "watch" ELSE "top"
  /\ copied' = 0
  /\ UNCHANGED <<queued, starting, active, results, proc, silent>>

\* _write_state's reading of the file: one that cannot be read counts as empty,
\* so that the writer's own entries replace it.
Rewritten(own, found) == IF own = 0 /\ ~unread' THEN found ELSE own

\* set_active_jobs_count: the copy that was read is merged into the file with
\* the new number, its overload too if it has one, or replaces a file that
\* cannot be read.  A write that fails, on the lock or on the file, is only
\* logged.
WriteCount ==
  /\ phase \in {"reaped", "registered"}
  /\ \/ /\ unread' \in BOOLEAN
        /\ shown' = Shown(active) /\ lost' = FALSE
        /\ overload' = Rewritten(copied, overload)
     \/ /\ lost' = (lost \/ phase = "registered")
        /\ UNCHANGED <<shown, overload, unread>>
  /\ phase' = IF phase = "reaped" THEN "watch" ELSE "top"
  /\ copied' = 0
  /\ UNCHANGED <<queued, starting, active, results, proc, silent>>

SpawnFails_Requeued(j) ==
  /\ phase = "launch" /\ IsNext(j)
  /\ results' = results \cup Outcome({j}, "error")
  /\ phase' = "top"
  /\ UNCHANGED <<queued, starting, active, file, proc, silent>>

\* subprocess.Popen raised.
SpawnFails(j) ==
  /\ phase = "launch" /\ IsNext(j)
  /\ queued' = queued \ {j}
  /\ results' = results \cup Outcome({j}, "error")
  /\ phase' = "top"
  /\ UNCHANGED <<starting, active, file, proc, silent>>

\* No job may start now: sleep and begin again.
NothingToStart ==
  /\ phase = "launch" /\ Candidates = {}
  /\ phase' = "top"
  /\ UNCHANGED <<queued, starting, active, results, file, proc, silent>>

-----------------------------------------------------------------------------
(* The way out on a signal (signal_handler) or, at the top of the loop, on *)
(* the loss of the database (abort_on_db_liveness_loss): cleanup kills the *)
(* processes of active_processes and forgets them.                         *)

Cleanup_Unkilled ==
  /\ active' = {}
  /\ phase' = "aborted"
  /\ UNCHANGED <<queued, starting, results, file, proc, silent>>

Cleanup ==
  /\ Kill(active)
  /\ active' = {}
  /\ phase' = "aborted"
  /\ UNCHANGED <<queued, starting, results, file, silent>>

Over == phase \in {"ended", "aborted", "killed"}

Signal == ~Over /\ Cleanup

DatabaseLost == phase = "top" /\ (queued # {} \/ active # {}) /\ Cleanup

\* run_pipeline kills the loop itself: at the deadline of the step at once, and
\* on its own signal three seconds after a first one that the loop handles, so
\* that a cleanup may be cut short after some of its kills.  The crawlers have
\* sessions of their own and live on; what the loop knew of them is lost.
LoopKilled ==
  /\ ~Over
  /\ \E S \in SUBSET active : Kill(S)
  /\ phase' = "killed"
  /\ queued' = {} /\ starting' = {} /\ active' = {} /\ results' = {}
  /\ UNCHANGED <<file, silent>>

-----------------------------------------------------------------------------
(* The crawler processes, external to the loop                             *)

Exit(j) ==
  /\ proc[j] = "running" /\ j \notin Stuck
  /\ \E s \in {"ok", "bad"} : proc' = [proc EXCEPT ![j] = s]
  /\ UNCHANGED <<phase, queued, starting, active, results, file, silent>>

FallSilent(j) ==
  /\ proc[j] = "running" /\ j \notin silent
  /\ silent' = silent \cup {j}
  /\ UNCHANGED <<phase, queued, starting, active, results, file, proc>>

Resume(j) ==
  /\ proc[j] = "running" /\ j \in silent \ Stuck
  /\ silent' = silent \ {j}
  /\ UNCHANGED <<phase, queued, starting, active, results, file, proc>>

\* record_db_overload, which merges its own entries only: they replace a file
\* that cannot be read, and without a number in it readers count one job.  One
\* that cannot be written is no step of the model.
Overload(j) ==
  /\ proc[j] = "running" /\ overload < MaxOverloads
  /\ overload' = overload + 1
  /\ unread' \in BOOLEAN
  /\ shown' = IF unread' THEN Shown({}) ELSE shown
  /\ lost' = (lost \/ shown' # shown)
  /\ UNCHANGED <<phase, queued, starting, active, results, copied, proc, silent>>

-----------------------------------------------------------------------------
Loop ==
  \/ LoopEnds \/ Reap \/ KillHungAndLate
  \/ \E j \in Jobs : Spawn(j) \/ SpawnFails(j)
  \/ Register \/ WriteCount \/ NothingToStart

Crawler(j) == Exit(j) \/ FallSilent(j) \/ Resume(j) \/ Overload(j)

Next ==
  \/ Loop \/ Signal \/ DatabaseLost \/ LoopKilled
  \/ \E j \in Jobs : Crawler(j)
  \/ Over /\ UNCHANGED vars

Spec == Init /\ [][Next]_vars

\* The parent is scheduled; a process that is not stuck ends, one that is
\* stuck falls silent.
Fairness ==
  /\ WF_vars(Loop)
  /\ \A j \in Jobs \ Stuck : WF_vars(Exit(j))
  /\ \A j \in Stuck : WF_vars(FallSilent(j))

FairSpec == Spec /\ Fairness

-----------------------------------------------------------------------------
Recorded == {r.job : r \in results}

\* No more processes run than each of the three limits allows, counted as the
\* operating system sees them: unregistered ones and orphans do not escape.
WithinLimits ==
  /\ Cardinality(Running) <= Parallel
  /\ Cardinality({j \in Running : Company[j] \in Browser}) <= BrowserParallel
  /\ \A c \in Companies :
       Cardinality({j \in Running : Company[j] = c}) <= CompanyLimit[c]

\* Until the loop is aborted or killed each job is in exactly one place: waiting, being
\* started, active, or recorded with one result.
EachJobInOnePlace ==
  /\ phase \notin {"aborted", "killed"} =>
       queued \cup starting \cup active \cup Recorded = Jobs
  /\ queued \cap (starting \cup active \cup Recorded) = {}
  /\ (starting \cup active) \cap Recorded = {}
  /\ starting \cap active = {}
  /\ \A r, s \in results : r.job = s.job => r = s

\* When the loop ends every job has a result and no crawler is left running.
EndsWithNothingLeft ==
  phase = "ended" => Recorded = Jobs /\ Running = {}

\* A parent that ends by itself, on the loss of the database or on a signal that
\* it handles, leaves no crawler behind but the one that the signal has met
\* between Popen and its registration.  After a SIGKILL every active crawler
\* may live on: nothing is claimed of that way out.
HandledExitLeavesOnlyAStartingOne ==
  phase \in {"ended", "aborted"} => Running \subseteq starting

\* Crawlers share the database by the number in the state file.  While the loop
\* is there to write it, it is below the number of those that run only from the
\* start of one until the write that follows, and while a write that failed or
\* that met an unreadable file is not made good by the loop's next: kills leave
\* it too high, nothing else leaves it too low.
ShownCoversTheRunning ==
  phase \notin {"register", "registered", "killed"} /\ ~lost =>
    Cardinality(Running) <= shown

\* The loop writes back a file that it has read before, and yet that makes the
\* crawlers forget that the database was overloaded only when the file cannot be
\* read at the write and the copy has no overload: while it can be read, at worst
\* the latest overload is set back to the one that was copied.
ReadableOverloadIsKept ==
  [][overload # 0 /\ overload' = 0 => unread' /\ copied = 0]_vars

\* Every loop comes to its end.
Termination == <>Over
=============================================================================
