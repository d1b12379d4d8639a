----------------------------- MODULE TaskArray -----------------------------
(***************************************************************************)
(* One execution of the crawler task array: TaskCount Cloud Run tasks that *)
(* each crawl their share of the jobs, keep one CrawlerTaskExecution row   *)
(* and, when done, elect the last one to aggregate and report for all      *)
(* (run_all_crawlers.py, run_pipeline.py, crawler_task_execution.py).      *)
(*                                                                         *)
(* Every access to the database takes a parameter ok: FALSE is an access   *)
(* that raises, whether or not it took effect.  A composing module decides *)
(* when accesses may succeed; Next here leaves it open, within MaxFaults.  *)
(*                                                                         *)
(* A definition named D_X is D with a bug X put in: it takes no part in    *)
(* Spec, and shows that the properties would notice the bug.               *)
(***************************************************************************)
EXTENDS Integers, FiniteSets

CONSTANTS
  TaskCount,         \* CLOUD_RUN_TASK_COUNT
  Jobless,           \* tasks to which distribute_jobs gives no job
  StaleAfter,        \* timeout_sec = CRAWL_TIMEOUT_SEC, in clock ticks
  ContainerTimeout,  \* the longest a task may live (Cloud Run task timeout)
  MaxClock,          \* bound: last clock tick
  MaxFaults,         \* bound: database accesses that raise
  MaxDeaths,         \* bound: containers that die before their end
  MaxAborts          \* bound: crawler processes that fail in a live container

Tasks == 0 .. (TaskCount - 1)

ASSUME TaskArrayAssumption ==
  /\ TaskCount \in Nat \ {0, 1}
  /\ Jobless \subseteq Tasks
  /\ StaleAfter \in Nat /\ ContainerTimeout \in Nat
  /\ MaxClock \in Nat /\ MaxFaults \in Nat
  /\ MaxDeaths \in Nat /\ MaxAborts \in Nat

VARIABLES
  clock,
  row,      \* status column of each task's row, "ABSENT" when there is none
  results,  \* tasks whose row holds results_json
  pc,       \* where each task's process is
  holds,    \* tasks with task_exec_record # None
  began,    \* batch_start_dt, which is also updated_at of a RUNNING row
  asked,    \* now, as is_last_completing_task computed it
  attempt,  \* failed attempts in is_last_completing_task
  reports,  \* reports sent: who sent it, which tasks' results it holds
  faults, deaths, aborts  \* counted only to bound them

vars == <<clock, row, results, pc, holds, began, asked, attempt, reports,
          faults, deaths, aborts>>

Terminal == {"COMPLETED", "FAILED", "AGGREGATING"}
Status == Terminal \cup {"RUNNING", "ABSENT"}
Live == {"crawling", "electing", "claiming", "aggregating"}
Stopped == {"finished", "dead"}
MaxAttempts == 3

Report == [by : Tasks, covers : SUBSET Tasks, complete : BOOLEAN]

TypeOK ==
  /\ clock \in Nat
  /\ row \in [Tasks -> Status]
  /\ results \subseteq Tasks
  /\ pc \in [Tasks -> Live \cup Stopped \cup {"idle", "aborted"}]
  /\ holds \subseteq Tasks
  /\ began \in [Tasks -> Nat]
  /\ asked \in [Tasks -> Nat]
  /\ attempt \in [Tasks -> 0 .. (MaxAttempts - 1)]
  /\ reports \subseteq Report
  /\ faults \in Nat /\ deaths \in Nat /\ aborts \in Nat

Init ==
  /\ clock = 0
  /\ row = [t \in Tasks |-> "ABSENT"]
  /\ results = {}
  /\ pc = [t \in Tasks |-> "idle"]
  /\ holds = {}
  /\ began = [t \in Tasks |-> 0]
  /\ asked = [t \in Tasks |-> 0]
  /\ attempt = [t \in Tasks |-> 0]
  /\ reports = {}
  /\ faults = 0 /\ deaths = 0 /\ aborts = 0

Others(t) == Tasks \ {t}

\* The access succeeded, or it raised and that is counted.
Access(ok) ==
  \/ ok /\ UNCHANGED faults
  \/ ~ok /\ faults < MaxFaults /\ faults' = faults + 1

\* A write of status s: applied when ok, either way when it raised.
Write(t, s, ok) ==
  \/ row' = [row EXCEPT ![t] = s]
  \/ ~ok /\ UNCHANGED row

-----------------------------------------------------------------------------
(* The life of a task                                                      *)

\* run_pipeline.main: a task without jobs writes COMPLETED (four attempts,
\* here one access) and exits without taking part in the election.
FastExit(t, ok) ==
  /\ pc[t] = "idle" /\ t \in Jobless
  /\ Access(ok)
  /\ Write(t, "COMPLETED", ok)
  /\ pc' = [pc EXCEPT ![t] = "finished"]
  /\ UNCHANGED <<clock, results, holds, began, asked, attempt, reports,
                 deaths, aborts>>

\* record_task_start: the row becomes RUNNING; when the write raises the task
\* crawls on without a record.
RecordTaskStart(t, ok) ==
  /\ pc[t] = "idle" /\ t \notin Jobless
  /\ Access(ok)
  /\ Write(t, "RUNNING", ok)
  /\ holds' = IF ok THEN holds \cup {t} ELSE holds
  /\ began' = [began EXCEPT ![t] = clock]
  /\ pc' = [pc EXCEPT ![t] = "crawling"]
  /\ UNCHANGED <<clock, results, asked, attempt, reports,
                 deaths, aborts>>

\* The job loop is over: save the outcome and the results in the row, if the
\* task has one, and go on to the election whether or not that worked.
SaveOutcome(t, ok) ==
  /\ pc[t] = "crawling"
  /\ \/ /\ t \in holds
        /\ Access(ok)
        /\ \E s \in {"COMPLETED", "FAILED"} :
             \/ /\ row' = [row EXCEPT ![t] = s]
                /\ results' = results \cup {t}
             \/ ~ok /\ UNCHANGED <<row, results>>
     \/ t \notin holds /\ ok /\ UNCHANGED <<row, results, faults>>
  /\ asked' = [asked EXCEPT ![t] = clock]
  /\ pc' = [pc EXCEPT ![t] = "electing"]
  /\ UNCHANGED <<clock, holds, began, attempt, reports,
                 deaths, aborts>>

-----------------------------------------------------------------------------
(* is_last_completing_task                                                 *)

PendingFor_NoMissing(t, u) ==
  row[u] = "RUNNING" /\ asked[t] - began[u] <= StaleAfter

PendingFor_NoRunning(t, u) ==
  row[u] = "ABSENT" /\ asked[t] - began[t] < StaleAfter

\* Task t must wait for task u: u has no row and t began less than StaleAfter
\* ago, or u is RUNNING and its row is not stale.
PendingFor(t, u) ==
  \/ row[u] = "ABSENT" /\ asked[t] - began[t] < StaleAfter
  \/ row[u] = "RUNNING" /\ asked[t] - began[u] <= StaleAfter

Pending(t) == {u \in Others(t) : PendingFor(t, u)}

\* A task that is not the last one leaves at once.
Verdict(t) == IF Pending(t) = {} THEN "claiming" ELSE "finished"

\* An attempt that raised: try again, or give up after the last one.
Retry(t) ==
  /\ pc[t] \in {"electing", "claiming"}
  /\ IF attempt[t] < MaxAttempts - 1
     THEN /\ attempt' = [attempt EXCEPT ![t] = @ + 1]
          /\ pc' = [pc EXCEPT ![t] = "electing"]
     ELSE /\ pc' = [pc EXCEPT ![t] = "finished"]
          /\ UNCHANGED attempt

\* The unlocked read of all rows of the execution.
CheckOthers(t, ok) ==
  /\ pc[t] = "electing"
  /\ Access(ok)
  /\ \/ /\ ok
        /\ pc' = [pc EXCEPT ![t] = Verdict(t)]
        /\ UNCHANGED attempt
     \/ ~ok /\ Retry(t)
  /\ UNCHANGED <<clock, row, results, holds, began, asked, reports,
                 deaths, aborts>>

MayClaim_Unlocked(t) == row[t] # "ABSENT"

MayClaim_RunningOnly(t) ==
  /\ \A u \in Others(t) : row[u] # "AGGREGATING"
  /\ row[t] = "RUNNING"

\* Under the row locks: nobody else has claimed, and t has a row to claim with.
MayClaim(t) ==
  /\ \A u \in Others(t) : row[u] # "AGGREGATING"
  /\ row[t] # "ABSENT"

\* The locked transaction: another claim is looked for again, then t's own row
\* becomes AGGREGATING.  A commit that raises may still have been applied.
ClaimAggregation(t, ok) ==
  /\ pc[t] = "claiming"
  /\ Access(ok)
  /\ \/ /\ ok /\ MayClaim(t)
        /\ row' = [row EXCEPT ![t] = "AGGREGATING"]
        /\ pc' = [pc EXCEPT ![t] = "aggregating"]
        /\ UNCHANGED attempt
     \/ /\ ok /\ ~MayClaim(t)
        /\ pc' = [pc EXCEPT ![t] = "finished"]
        /\ UNCHANGED <<row, attempt>>
     \/ /\ ~ok /\ Retry(t)
        /\ \/ MayClaim(t) /\ row' = [row EXCEPT ![t] = "AGGREGATING"]
           \/ UNCHANGED row
  /\ UNCHANGED <<clock, results, holds, began, asked, reports,
                 deaths, aborts>>

\* The winner reads the other tasks' results, falls back to its own when that
\* read raises, and sends the report.
Aggregate(t, ok) ==
  /\ pc[t] = "aggregating"
  /\ Access(ok)
  /\ reports' = reports \cup
       {[by |-> t, covers |-> IF ok THEN results \cup {t} ELSE {t}, complete |-> ok]}
  /\ pc' = [pc EXCEPT ![t] = "finished"]
  /\ UNCHANGED <<clock, row, results, holds, began, asked, attempt,
                 deaths, aborts>>

-----------------------------------------------------------------------------
(* Failures                                                                *)

\* A step before the crawl fails (resources, proxy health, database readiness)
\* and the task exits without a row.
StartupFails(t) ==
  /\ pc[t] = "idle" /\ t \notin Jobless
  /\ pc' = [pc EXCEPT ![t] = "dead"]
  /\ UNCHANGED <<clock, row, results, holds, began, asked, attempt, reports,
                 faults, deaths, aborts>>

\* The whole container goes: killed, out of memory, past a deadline.  Nothing
\* more is written.
Die(t) ==
  /\ pc[t] \in Live \cup {"idle", "aborted"}
  /\ deaths < MaxDeaths /\ deaths' = deaths + 1
  /\ pc' = [pc EXCEPT ![t] = "dead"]
  /\ UNCHANGED <<clock, row, results, holds, began, asked, attempt, reports,
                 faults, aborts>>

\* The crawler process alone ends with a non-zero code.  On a loss of the
\* database (abort_on_db_liveness_loss) it first tries to write FAILED.
Abort(t) ==
  /\ pc[t] \in Live
  /\ aborts < MaxAborts /\ aborts' = aborts + 1
  /\ \/ pc[t] = "crawling" /\ t \in holds /\ row' = [row EXCEPT ![t] = "FAILED"]
     \/ UNCHANGED row
  /\ pc' = [pc EXCEPT ![t] = "aborted"]
  /\ UNCHANGED <<clock, results, holds, began, asked, attempt, reports,
                 faults, deaths>>

Reconcile_AnyStatus(t, ok) ==
  /\ pc[t] = "aborted"
  /\ Access(ok)
  /\ Write(t, "FAILED", ok)
  /\ pc' = [pc EXCEPT ![t] = "dead"]
  /\ UNCHANGED <<clock, results, holds, began, asked, attempt, reports,
                 deaths, aborts>>

\* reconcile_aborted_task_execution: the parent turns a RUNNING row that its
\* crawler left behind into FAILED; it gives up when the database stays away.
Reconcile(t, ok) ==
  /\ pc[t] = "aborted"
  /\ Access(ok)
  /\ \/ row[t] = "RUNNING" /\ row' = [row EXCEPT ![t] = "FAILED"]
     \/ (row[t] # "RUNNING" \/ ~ok) /\ UNCHANGED row
  /\ pc' = [pc EXCEPT ![t] = "dead"]
  /\ UNCHANGED <<clock, results, holds, began, asked, attempt, reports,
                 deaths, aborts>>

\* Time passes, but no task outlives its container.
Tick ==
  /\ clock < MaxClock
  /\ \A t \in Tasks : pc[t] \in Live => clock < began[t] + ContainerTimeout
  /\ clock' = clock + 1
  /\ UNCHANGED <<row, results, pc, holds, began, asked, attempt, reports,
                 faults, deaths, aborts>>

-----------------------------------------------------------------------------
Step(t, ok) ==
  \/ FastExit(t, ok) \/ RecordTaskStart(t, ok) \/ SaveOutcome(t, ok)
  \/ CheckOthers(t, ok) \/ ClaimAggregation(t, ok) \/ Aggregate(t, ok)
  \/ Reconcile(t, ok)

AllStopped == \A t \in Tasks : pc[t] \in Stopped

\* The execution is over.
Done == AllStopped /\ UNCHANGED vars

Next ==
  \/ \E t \in Tasks, ok \in BOOLEAN : Step(t, ok)
  \/ \E t \in Tasks : StartupFails(t) \/ Die(t) \/ Abort(t)
  \/ Tick
  \/ Done

Spec == Init /\ [][Next]_vars

-----------------------------------------------------------------------------
(* What the election promises                                              *)

Claimed(t) == pc[t] = "aggregating" \/ \E r \in reports : r.by = t

\* At most one task ever aggregates and reports: two tasks that both saw
\* everybody finished are told apart under the row locks.
OneAggregator == \A t, u \in Tasks : Claimed(t) /\ Claimed(u) => t = u

\* While a task aggregates, and for ever after its report, no other task is
\* still to crawl: the aggregating task really is the last one.
LastOneAggregates ==
  \A t \in Tasks : Claimed(t) =>
    \A u \in Others(t) : pc[u] \notin {"idle", "crawling"}

\* A report that could read the rows leaves no result out, not even one that
\* is stored after it was sent.
NoResultLeftOut ==
  \A r \in reports : r.complete => results \subseteq r.covers

\* A row is settled once and for all: only RUNNING rows change to an outcome,
\* and only an outcome (or a row whose save raised) to AGGREGATING, for good.
RowsOnlyAdvance ==
  [][\A t \in Tasks :
       /\ row[t] = "AGGREGATING" => row'[t] = "AGGREGATING"
       /\ row[t] \in {"COMPLETED", "FAILED"} => row'[t] \in {row[t], "AGGREGATING"}]_vars

Undisturbed == faults = 0 /\ deaths = 0 /\ aborts = 0

\* When nothing has failed on the way, every task has ended and every row says
\* so, a report has been sent: nobody leaves the aggregation to a task that has
\* left it to others.
SettledRunIsReported ==
  Undisturbed /\ AllStopped /\ (\A t \in Tasks : row[t] \in Terminal) => reports # {}

\* The election implements the abstract one: a task works until its crawl is
\* over, the leader is the task whose row says AGGREGATING.
Election == INSTANCE Aggregation WITH
  working <- {t \in Tasks : pc[t] \in {"idle", "crawling"}},
  leaders <- {t \in Tasks : row[t] = "AGGREGATING"},
  publishers <- {r.by : r \in reports}

ImplementsElection == Election!Spec
=============================================================================
