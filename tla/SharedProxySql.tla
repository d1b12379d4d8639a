--------------------------- MODULE SharedProxySql --------------------------
(***************************************************************************)
(* The ProxySQL instance that all Cloud Run executions share, and who      *)
(* starts and stops it: workflows and most executions start it on the way  *)
(* in; an execution that manages it asks on its way out for the executions *)
(* of one job after the other, and stops it when it has found no other;    *)
(* the Safety-Net does the same every hour, for fewer jobs, and counts     *)
(* those that are overdue as hung (run_pipeline.py, run_ml_pipeline.py,    *)
(* gcp_resources.py, ensure_resources_stopped.py, terraform/workflows).    *)
(* An execution here is one container; its tasks are in CrawlTeardown.     *)
(***************************************************************************)
EXTENDS Integers, FiniteSets

CONSTANTS
  Execs,       \* executions
  Jobs,        \* the Cloud Run jobs, all of which a guard asks for
  Job,         \* the job of each execution
  Monitored,   \* the jobs that the Safety-Net asks for (--job-prefixes)
  Managing,    \* executions that start and stop the instance themselves
  Hanging,     \* bound: executions that may become overdue
  Undated,     \* executions whose age the Safety-Net may fail to read
  SafetyNet,   \* the Safety-Net as a stopper
  MaxSetbacks  \* bound: runs of the Safety-Net that leave the instance alone
               \* because of a failure or of traffic that is over

ASSUME SharedProxyAssumption ==
  /\ Job \in [Execs -> Jobs]
  /\ Monitored \subseteq Jobs
  /\ Managing \subseteq Execs /\ Hanging \subseteq Execs /\ Undated \subseteq Execs
  /\ SafetyNet \notin Execs
  /\ MaxSetbacks \in Nat

VARIABLES
  phase,     \* where each execution is
  proxy,     \* the instance runs
  fresh,     \* ... and has been for less than grace_period_sec
  overdue,   \* executions past the hung threshold of their job
  listed,    \* the jobs that each stopper has asked for
  late,      \* history: executions launched after their job was asked for
  net,       \* where the Safety-Net is
  found,     \* the active executions that it has found
  hung,      \* those of them that it takes for hung
  setbacks

safetyNet == <<net, found, hung, setbacks>>

vars == <<phase, proxy, fresh, overdue, listed, late, safetyNet>>

Stoppers == Execs \cup {SafetyNet}
Phases == {"none", "called", "launched", "waiting", "using", "leaving", "ended"}

SharedProxyTypeOK ==
  /\ phase \in [Execs -> Phases]
  /\ proxy \in BOOLEAN /\ fresh \in BOOLEAN
  /\ overdue \subseteq Execs
  /\ listed \in [Stoppers -> SUBSET Jobs]
  /\ late \in [Stoppers -> SUBSET Execs]
  /\ net \in {"idle", "asking", "stopping"}
  /\ found \subseteq Execs /\ hung \subseteq Execs
  /\ setbacks \in 0 .. MaxSetbacks

Init ==
  /\ phase = [e \in Execs |-> "none"]
  /\ proxy = FALSE /\ fresh = FALSE /\ overdue = {}
  /\ listed = [s \in Stoppers |-> {}] /\ late = [s \in Stoppers |-> {}]
  /\ net = "idle" /\ found = {} /\ hung = {} /\ setbacks = 0

\* Executions without completionTime: all that have been launched, whether or
\* not their container has started.
Active == {e \in Execs : phase[e] \notin {"none", "called", "ended"}}

ActiveOf(j) == {e \in Active : Job[e] = j}

Moves(e, from, to) == phase[e] = from /\ phase' = [phase EXCEPT ![e] = to]

\* Scaling to 1 changes nothing when the instance is running already.
Started ==
  /\ proxy' = TRUE
  /\ fresh' = IF proxy THEN fresh ELSE TRUE

Stopped == proxy' = FALSE /\ fresh' = FALSE

\* A stopper has its answers no more.
Forgets(s) ==
  /\ listed' = [listed EXCEPT ![s] = {}]
  /\ late' = [late EXCEPT ![s] = {}]

-----------------------------------------------------------------------------
(* An execution                                                            *)

\* A workflow starts the instance, waits 25 s and then launches the execution.
WorkflowStarts(e) ==
  /\ Moves(e, "none", "called")
  /\ Started
  /\ UNCHANGED <<overdue, listed, late, safetyNet>>

Launch(e) ==
  /\ \E from \in {"none", "called"} : Moves(e, from, "launched")
  /\ late' = [s \in Stoppers |->
                IF Job[e] \in listed[s] THEN late[s] \cup {e} ELSE late[s]]
  /\ UNCHANGED <<proxy, fresh, overdue, listed, safetyNet>>

\* _execute_startup_resources, start_on_demand_resources; a failure raises, and
\* main's finally block follows.
ScaleUp(e) ==
  /\ e \in Managing
  /\ \/ Moves(e, "launched", "waiting") /\ Started
     \/ Moves(e, "launched", "leaving") /\ UNCHANGED <<proxy, fresh>>
  /\ UNCHANGED <<overdue, listed, late, safetyNet>>

\* wait_for_proxysql_health: healthy, or the 240 s are over, which raises too.
AwaitHealth(e) ==
  /\ \/ proxy /\ Moves(e, "waiting", "using")
     \/ Moves(e, "waiting", "leaving")
  /\ UNCHANGED <<proxy, fresh, overdue, listed, late, safetyNet>>

\* recrawl_anomalies and the migration rely on an instance that runs.
BeginBare(e) ==
  /\ e \notin Managing
  /\ Moves(e, "launched", "using")
  /\ UNCHANGED <<proxy, fresh, overdue, listed, late, safetyNet>>

\* The work is done, has failed or was cut short by a signal that is handled.
Work(e) ==
  /\ Moves(e, "using", IF e \in Managing THEN "leaving" ELSE "ended")
  /\ UNCHANGED <<proxy, fresh, overdue, listed, late, safetyNet>>

\* The container is killed without a word: by the platform, or because of a
\* cancel, which the Safety-Net requests of what it takes for hung.  A request
\* may fail, and otherwise takes effect later.
Killed(e) ==
  /\ e \in Active /\ phase' = [phase EXCEPT ![e] = "ended"]
  /\ Forgets(e)
  /\ UNCHANGED <<proxy, fresh, overdue, safetyNet>>

GetsOverdue(e) ==
  /\ e \in (Hanging \cap Active) \ overdue
  /\ overdue' = overdue \cup {e}
  /\ UNCHANGED <<phase, proxy, fresh, listed, late, safetyNet>>

-----------------------------------------------------------------------------
(* Its guard, _can_stop_shared_proxysql, asked by a signal handler, by the  *)
(* finally block and by atexit, each time from the beginning                *)

GuardAsks_Started(e, j) ==
  /\ phase[e] = "leaving" /\ j \in Jobs \ listed[e]
  /\ {f \in ActiveOf(j) : phase[f] # "launched"} \subseteq {e}
  /\ listed' = [listed EXCEPT ![e] = @ \cup {j}]
  /\ UNCHANGED <<phase, proxy, fresh, overdue, late, safetyNet>>

\* The executions of one more job are listed, and none but this one is active.
GuardAsks(e, j) ==
  /\ phase[e] = "leaving" /\ j \in Jobs \ listed[e]
  /\ ActiveOf(j) \subseteq {e}
  /\ listed' = [listed EXCEPT ![e] = @ \cup {j}]
  /\ UNCHANGED <<phase, proxy, fresh, overdue, late, safetyNet>>

\* Another execution is active, or the API does not answer: no.
GuardSaysNo(e) ==
  /\ phase[e] = "leaving" /\ listed[e] # Jobs
  /\ Forgets(e)
  /\ UNCHANGED <<phase, proxy, fresh, overdue, safetyNet>>

\* No other is active: the instance is scaled to 0, or that fails.
GuardStops(e) ==
  /\ phase[e] = "leaving" /\ listed[e] = Jobs
  /\ Stopped \/ UNCHANGED <<proxy, fresh>>
  /\ Forgets(e)
  /\ UNCHANGED <<phase, overdue, safetyNet>>

\* The process ends with nothing asked that it would still act on.
Exits(e) ==
  /\ Moves(e, "leaving", "ended")
  /\ listed[e] = {}
  /\ UNCHANGED <<proxy, fresh, overdue, listed, late, safetyNet>>

-----------------------------------------------------------------------------
(* ensure_resources_stopped.py, by the hour and after the stop of a crawl   *)

GraceOver ==
  /\ fresh /\ fresh' = FALSE
  /\ UNCHANGED <<phase, proxy, overdue, listed, late, safetyNet>>

\* check_and_stop_proxysql_instance: nothing to do in the grace period.
NetBegins ==
  /\ net = "idle" /\ proxy /\ ~fresh
  /\ net' = "asking"
  /\ UNCHANGED <<phase, proxy, fresh, overdue, listed, late, found, hung, setbacks>>

\* _get_active_cloud_run_executions, one job; an execution counts as hung past
\* its threshold and when its age cannot be read.
NetAsks(j) ==
  /\ net = "asking" /\ j \in Monitored \ listed[SafetyNet]
  /\ \E undated \in SUBSET (ActiveOf(j) \cap Undated) :
       hung' = hung \cup (ActiveOf(j) \cap overdue) \cup undated
  /\ found' = found \cup ActiveOf(j)
  /\ listed' = [listed EXCEPT ![SafetyNet] = @ \cup {j}]
  /\ UNCHANGED <<phase, proxy, fresh, overdue, late, net, setbacks>>

NetEnds ==
  /\ net' = "idle" /\ found' = {} /\ hung' = {}
  /\ Forgets(SafetyNet)

NetWillStop_HungOnly == found # {} /\ found \subseteq hung

\* No execution is found that is not hung.
NetWillStop == found \subseteq hung

\* All jobs are listed.  Cancels of the hung are requested (Killed), and unless
\* healthy executions are found the instance is to be stopped, whatever became
\* of the requests.  With no execution found, the traffic has to be low.
NetDecides ==
  /\ net = "asking" /\ listed[SafetyNet] = Monitored
  /\ \/ NetWillStop /\ net' = "stopping" /\ UNCHANGED <<listed, late, found, hung>>
     \/ ~NetWillStop /\ NetEnds
     \/ found = {} /\ Active # {} /\ NetEnds
  /\ UNCHANGED <<phase, proxy, fresh, overdue, setbacks>>

\* _stop_instance.
NetStops ==
  /\ net = "stopping"
  /\ Stopped
  /\ NetEnds
  /\ UNCHANGED <<phase, overdue, setbacks>>

\* A listing or the stop fails, or the traffic of the last ten minutes is high
\* though nobody is active any more.
NetSetBack ==
  /\ net # "idle" /\ setbacks < MaxSetbacks
  /\ setbacks' = setbacks + 1
  /\ NetEnds
  /\ UNCHANGED <<phase, proxy, fresh, overdue>>

NetStep == (\E j \in Monitored : NetAsks(j)) \/ NetDecides \/ NetStops

AllEnded == phase = [e \in Execs |-> "ended"]
Done == AllEnded /\ ~proxy /\ net = "idle" /\ UNCHANGED vars

Next ==
  \/ \E e \in Execs :
       \/ WorkflowStarts(e) \/ Launch(e) \/ ScaleUp(e) \/ AwaitHealth(e)
       \/ BeginBare(e) \/ Work(e) \/ Killed(e) \/ GetsOverdue(e)
       \/ (\E j \in Jobs : GuardAsks(e, j))
       \/ GuardSaysNo(e) \/ GuardStops(e) \/ Exits(e)
  \/ GraceOver \/ NetBegins \/ NetStep \/ NetSetBack
  \/ Done

Spec == Init /\ [][Next]_vars

\* Time passes and the Safety-Net runs every hour.  Nothing is asked of the
\* executions, nor of the cancels.
Fairness == WF_vars(GraceOver) /\ WF_vars(NetBegins) /\ WF_vars(NetStep)

FairSpec == Spec /\ Fairness

-----------------------------------------------------------------------------
\* A stopper that is about to stop the instance under an active execution has
\* asked for its job before it was launched.  There are two exceptions, and both
\* are the Safety-Net's: it does not ask for all the jobs, and what it takes for
\* hung, being overdue or of unknown age, need not have ended.
StopSparesWhatWasListed ==
  /\ \A e \in Execs : listed[e] = Jobs => Active \ {e} \subseteq late[e]
  /\ net = "stopping" =>
       \A f \in Active : Job[f] \in Monitored =>
         f \in late[SafetyNet] \cup overdue \cup Undated

\* Two executions that end together each leave the stop to the other, one may
\* hang for ever though it was cancelled, and runs of the Safety-Net may fail:
\* the proxy is stopped for good all the same, once every execution that is left
\* is an overdue one of a monitored job.
StoppedInTheEnd ==
  <>[](\A e \in Active : Job[e] \in Monitored /\ e \in overdue) => <>[]~proxy
=============================================================================
