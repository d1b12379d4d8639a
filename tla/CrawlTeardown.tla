--------------------------- MODULE CrawlTeardown ---------------------------
(***************************************************************************)
(* A task array and the shared ProxySQL through which its tasks reach the  *)
(* database: the coordinator (task 0) starts it, every worker waits for it *)
(* and the coordinator stops it when the other tasks' rows say that they   *)
(* are over (run_pipeline.py).  While it is down every access raises.      *)
(*                                                                         *)
(* The other executions that share it are in SharedProxySql; here the      *)
(* guard's question about them has been answered with no.                  *)
(***************************************************************************)
EXTENDS TaskArray

VARIABLES
  proxy,  \* the ProxySQL instance is running and healthy
  ready,  \* tasks whose _execute_startup_resources has succeeded
  exit,   \* where the coordinator's parent process is on its way out
  asks    \* how often it may still ask the guard

proxyVars == <<proxy, ready, exit, asks>>
allVars == <<vars, proxyVars>>

Coordinator == 0
Workers == Tasks \ {Coordinator}

Exit == {"running", "leaving", "stopping"}

TeardownTypeOK ==
  /\ TypeOK
  /\ proxy \in BOOLEAN
  /\ ready \subseteq Tasks
  /\ exit \in Exit
  /\ asks \in 0 .. 3

\* daily_pipeline.yaml starts the instance before the tasks; a crawl started
\* by hand finds it stopped.
TeardownInit ==
  /\ Init
  /\ proxy \in BOOLEAN
  /\ ready = {}
  /\ exit = "running"
  /\ asks = 0

\* Without jobs, task 0 leaves before it is made the coordinator.
HasCoordinator == Coordinator \notin Jobless

-----------------------------------------------------------------------------
(* _execute_startup_resources                                              *)

StartProxy ==
  /\ HasCoordinator
  /\ pc[Coordinator] = "idle" /\ Coordinator \notin ready
  /\ proxy' = TRUE
  /\ UNCHANGED <<vars, ready, exit, asks>>

\* wait_for_proxysql_health answers yes.
Healthy(t) ==
  /\ pc[t] = "idle" /\ t \notin Jobless \cup ready
  /\ proxy
  /\ ready' = ready \cup {t}
  /\ UNCHANGED <<vars, proxy, exit, asks>>

\* A step of a task: the crawl begins only after the start-up, and an access
\* succeeds exactly when the proxy is there.
TaskStep(t) ==
  /\ pc[t] = "idle" => t \in Jobless \cup ready
  /\ Step(t, proxy)
  /\ UNCHANGED proxyVars

\* The container goes without another word.
TaskDies(t) ==
  /\ Die(t)
  /\ exit' = IF t = Coordinator THEN "leaving" ELSE exit
  /\ UNCHANGED <<proxy, ready, asks>>

-----------------------------------------------------------------------------
(* _can_stop_shared_proxysql, _execute_safety_teardown, _atexit_teardown   *)

Guard_KnownRowsOnly == \A u \in Workers : row[u] \in {"COMPLETED", "FAILED", "ABSENT"}

\* Every other task has a row, and it says COMPLETED or FAILED.
Guard == \A u \in Workers : row[u] \in {"COMPLETED", "FAILED"}

\* The crawler process is over: main's finally block asks the guard, and the
\* atexit handler asks again if the proxy has not been stopped by then.
EnterFinally ==
  /\ HasCoordinator /\ exit = "running"
  /\ pc[Coordinator] \in Stopped
  /\ exit' = "leaving" /\ asks' = 2
  /\ UNCHANGED <<vars, proxy, ready>>

\* A worker gives up waiting for the proxy, or another start-up step fails; the
\* coordinator's finally block follows in EnterFinally.
TaskFailsToStart(t) == StartupFails(t) /\ UNCHANGED proxyVars

\* SIGTERM: the handler kills the crawler and asks first, and the finally
\* block and the atexit handler follow.
Terminated ==
  /\ HasCoordinator /\ exit = "running"
  /\ Die(Coordinator)
  /\ exit' = "leaving" /\ asks' = 3
  /\ UNCHANGED <<proxy, ready>>

\* The guard reads the rows through the proxy; a read that raises means no.
AskGuard ==
  /\ exit = "leaving" /\ asks > 0
  /\ asks' = asks - 1
  /\ exit' = IF proxy /\ Guard THEN "stopping" ELSE "leaving"
  /\ UNCHANGED <<vars, proxy, ready>>

\* _inline_stop_proxysql: the instance stops, or the call fails.
StopProxy ==
  /\ exit = "stopping" /\ exit' = "leaving"
  /\ proxy' \in {proxy, FALSE}
  /\ UNCHANGED <<vars, ready, asks>>

AllOver == AllStopped /\ (HasCoordinator => exit = "leaving" /\ asks = 0)

TeardownDone == AllOver /\ UNCHANGED allVars

TeardownNext ==
  \/ StartProxy
  \/ \E t \in Tasks : Healthy(t) \/ TaskStep(t) \/ TaskFailsToStart(t) \/ TaskDies(t)
  \/ \E t \in Tasks : Abort(t) /\ UNCHANGED proxyVars
  \/ Tick /\ UNCHANGED proxyVars
  \/ EnterFinally \/ Terminated \/ AskGuard \/ StopProxy
  \/ TeardownDone

TeardownSpec == TeardownInit /\ [][TeardownNext]_allVars

-----------------------------------------------------------------------------
(* Properties                                                              *)

Stops == proxy /\ ~proxy'

\* The coordinator never stops the proxy under a task that still has jobs to
\* crawl, although it decides on rows it read earlier and other tasks write
\* their rows when the database lets them.
NoStopUnderCrawl ==
  [][Stops => \A u \in Workers : pc[u] \notin {"idle", "crawling"}]_allVars
=============================================================================
