------------------------ MODULE SharedProxySqlProofs ------------------------
(***************************************************************************)
(* Theorems of SharedProxySql, for any set of executions and of jobs,      *)
(* whichever of them the Safety-Net monitors, whichever become overdue and *)
(* however often its runs fail.                                            *)
(***************************************************************************)
EXTENDS SharedProxySql, TLAPS

\* Every variable keeps its type in every behaviour.
THEOREM SharedProxyTypeCorrect == Spec => []SharedProxyTypeOK
<1> USE SharedProxyAssumption DEF SharedProxyTypeOK, Phases, Stoppers, safetyNet
<1>1. Init => SharedProxyTypeOK
  <2>1. 0 \in 0 .. MaxSetbacks
    OBVIOUS
  <2> QED
    BY <2>1, Zenon DEF Init
<1>2. ASSUME SharedProxyTypeOK, [Next]_vars PROVE SharedProxyTypeOK'
  <2> USE <1>2
  <2>1. ASSUME NEW e \in Execs, WorkflowStarts(e) PROVE SharedProxyTypeOK'
    BY <2>1 DEF WorkflowStarts, Moves, Started
  <2>10. ASSUME NEW e \in Execs, Launch(e) PROVE SharedProxyTypeOK'
    <3>1. late' \in [Stoppers -> SUBSET Execs]
      BY <2>10 DEF Launch
    <3> QED
      BY <2>10, <3>1 DEF Launch, Moves
  <2>2. ASSUME NEW e \in Execs, ScaleUp(e) \/ AwaitHealth(e) \/ BeginBare(e) \/ Work(e)
        PROVE  SharedProxyTypeOK'
    BY <2>2 DEF ScaleUp, AwaitHealth, BeginBare, Work, Moves, Started
  <2>3. ASSUME NEW e \in Execs, Killed(e) \/ GetsOverdue(e) PROVE SharedProxyTypeOK'
    BY <2>3 DEF Killed, GetsOverdue, Forgets
  <2>4. ASSUME NEW e \in Execs, NEW j \in Jobs, GuardAsks(e, j) PROVE SharedProxyTypeOK'
    BY <2>4 DEF GuardAsks
  <2>5. ASSUME NEW e \in Execs, GuardSaysNo(e) \/ GuardStops(e) \/ Exits(e)
        PROVE  SharedProxyTypeOK'
    BY <2>5 DEF GuardSaysNo, GuardStops, Exits, Forgets, Moves, Stopped
  <2>6. CASE GraceOver \/ NetBegins
    BY <2>6 DEF GraceOver, NetBegins
  <2>7. ASSUME NEW j \in Monitored, NetAsks(j) PROVE SharedProxyTypeOK'
    BY <2>7 DEF NetAsks, ActiveOf, Active
  <2>8. CASE NetDecides \/ NetStops
    BY <2>8 DEF NetDecides, NetStops, NetEnds, Forgets, Stopped
  <2>11. CASE NetSetBack
    <3>1. setbacks' \in 0 .. MaxSetbacks
      BY <2>11 DEF NetSetBack
    <3>2. UNCHANGED <<phase, proxy, fresh, overdue>> /\ NetEnds
      BY <2>11 DEF NetSetBack
    <3> QED
      BY <3>1, <3>2, Zenon DEF NetEnds, Forgets
  <2>9. CASE UNCHANGED vars
    BY <2>9 DEF vars
  <2> QED
    BY <2>1, <2>2, <2>3, <2>4, <2>5, <2>6, <2>7, <2>8, <2>9, <2>10, <2>11
       DEF Next, NetStep, Done
<1> QED
  BY <1>1, <1>2, PTL DEF Spec

-----------------------------------------------------------------------------
(* A stopper that goes on asking has found nobody: whoever is active in a   *)
(* job it has asked for was launched since, or is one that the Safety-Net   *)
(* has found.                                                              *)

\* Nobody of the jobs that s has asked for is unknown to it.
NoneMissed(s) ==
  \A f \in Active \ {s} :
    Job[f] \in listed[s] => f \in late[s] \/ (s = SafetyNet /\ f \in found)

ListedInv ==
  /\ \A s \in Stoppers : NoneMissed(s)
  /\ net = "stopping" => listed[SafetyNet] = Monitored /\ found \subseteq hung
  /\ hung \subseteq overdue \cup Undated

\* An execution that moves on, and is not launched by that, was active before.
LEMMA MoveIsQuiet ==
  ASSUME SharedProxyTypeOK, NEW e \in Execs,
         NEW from \in Phases \ {"none", "called", "ended"},
         NEW to, Moves(e, from, to)
  PROVE  Active' \subseteq Active
BY DEF SharedProxyTypeOK, Moves, Active

\* A step that makes nobody active and changes no answers keeps what they say.
LEMMA QuietStep ==
  ASSUME ListedInv, Active' \subseteq Active,
         UNCHANGED <<listed, late, net, found, hung>>, overdue \subseteq overdue'
  PROVE  ListedInv'
BY DEF ListedInv, NoneMissed

\* Nor does forgetting one's answers, for whoever is not the Safety-Net.
LEMMA ForgettingStep ==
  ASSUME SharedProxyTypeOK, ListedInv, NEW e \in Execs, Forgets(e),
         Active' \subseteq Active, UNCHANGED <<overdue, net, found, hung>>
  PROVE  ListedInv'
<1>1. e # SafetyNet /\ SafetyNet \in Stoppers /\ e \in Stoppers
  BY SharedProxyAssumption DEF Stoppers
<1>2. /\ listed'[e] = {}
      /\ \A s \in Stoppers \ {e} : listed'[s] = listed[s] /\ late'[s] = late[s]
  BY <1>1 DEF Forgets, SharedProxyTypeOK
<1>3. \A s \in Stoppers : NoneMissed(s)'
  BY <1>2 DEF ListedInv, NoneMissed
<1> QED
  BY <1>1, <1>2, <1>3 DEF ListedInv

\* The end of a run of the Safety-Net leaves nothing to be kept.
LEMMA NetEndsStep ==
  ASSUME SharedProxyTypeOK, ListedInv, NetEnds, UNCHANGED <<phase, overdue>>
  PROVE  ListedInv'
<1>1. SafetyNet \in Stoppers
  BY DEF Stoppers
<1>2. /\ listed'[SafetyNet] = {}
      /\ \A s \in Stoppers \ {SafetyNet} : listed'[s] = listed[s] /\ late'[s] = late[s]
  BY <1>1 DEF NetEnds, Forgets, SharedProxyTypeOK
<1>3. Active' = Active
  BY DEF Active
<1>4. \A s \in Stoppers : NoneMissed(s)'
  BY <1>2, <1>3 DEF ListedInv, NoneMissed
<1> QED
  BY <1>4 DEF ListedInv, NetEnds

\* Every step keeps the answers of all stoppers complete.
LEMMA ListedStep == SharedProxyTypeOK /\ ListedInv /\ [Next]_vars => ListedInv'
<1> SUFFICES ASSUME SharedProxyTypeOK, ListedInv, [Next]_vars PROVE ListedInv'
  OBVIOUS
<1> USE DEF safetyNet
<1>1. ASSUME NEW e \in Execs, WorkflowStarts(e) PROVE ListedInv'
  <2>1. Active' \subseteq Active
    BY <1>1 DEF WorkflowStarts, Moves, Active, SharedProxyTypeOK
  <2> QED
    BY <1>1, <2>1, QuietStep DEF WorkflowStarts
<1>2. ASSUME NEW e \in Execs, Launch(e) PROVE ListedInv'
  <2>1. Active' \subseteq Active \cup {e}
    BY <1>2 DEF Launch, Moves, Active, SharedProxyTypeOK
  <2>2. \A s \in Stoppers : late[s] \subseteq late'[s]
                            /\ (Job[e] \in listed[s] => e \in late'[s])
    BY <1>2 DEF Launch
  <2>3. \A s \in Stoppers : NoneMissed(s)'
    BY <1>2, <2>1, <2>2 DEF ListedInv, NoneMissed, Launch
  <2> QED
    BY <1>2, <2>3 DEF ListedInv, Launch
<1>3. ASSUME NEW e \in Execs, ScaleUp(e) \/ AwaitHealth(e) \/ BeginBare(e) \/ Work(e) \/ Exits(e)
      PROVE  ListedInv'
  <2>1. Active' \subseteq Active
    BY <1>3, MoveIsQuiet DEF ScaleUp, AwaitHealth, BeginBare, Work, Exits, Phases
  <2> QED
    BY <1>3, <2>1, QuietStep DEF ScaleUp, AwaitHealth, BeginBare, Work, Exits
<1>4. ASSUME NEW e \in Execs, Killed(e) \/ GuardSaysNo(e) \/ GuardStops(e) PROVE ListedInv'
  <2>1. Active' \subseteq Active
    BY <1>4 DEF Killed, GuardSaysNo, GuardStops, Active, SharedProxyTypeOK
  <2> QED
    BY <1>4, <2>1, ForgettingStep DEF Killed, GuardSaysNo, GuardStops
<1>5. ASSUME NEW e \in Execs, GetsOverdue(e) PROVE ListedInv'
  BY <1>5, QuietStep DEF GetsOverdue, Active
<1>6. ASSUME NEW e \in Execs, NEW j \in Jobs, GuardAsks(e, j) PROVE ListedInv'
  <2>1. e # SafetyNet /\ e \in Stoppers /\ SafetyNet \in Stoppers
    BY SharedProxyAssumption DEF Stoppers
  <2>2. Active' = Active /\ late' = late /\ found' = found
    BY <1>6 DEF GuardAsks, Active
  <2>3. /\ listed'[e] = listed[e] \cup {j}
        /\ \A s \in Stoppers \ {e} : listed'[s] = listed[s]
    BY <1>6, <2>1 DEF GuardAsks, SharedProxyTypeOK
  <2>4. NoneMissed(e)'
    BY <1>6, <2>1, <2>2, <2>3 DEF GuardAsks, ActiveOf, ListedInv, NoneMissed
  <2>5. \A s \in Stoppers \ {e} : NoneMissed(s)'
    BY <2>2, <2>3 DEF ListedInv, NoneMissed
  <2> QED
    BY <1>6, <2>1, <2>3, <2>4, <2>5 DEF GuardAsks, ListedInv
<1>7. CASE GraceOver \/ NetBegins
  BY <1>7 DEF GraceOver, NetBegins, ListedInv, NoneMissed, Active
<1>8. ASSUME NEW j \in Monitored, NetAsks(j) PROVE ListedInv'
  <2>1. SafetyNet \in Stoppers
    BY DEF Stoppers
  <2>2. /\ Active' = Active /\ late' = late /\ net' = "asking" /\ overdue' = overdue
        /\ found' = found \cup ActiveOf(j)
        /\ hung' \subseteq hung \cup overdue \cup Undated
    BY <1>8 DEF NetAsks, Active
  <2>3. /\ listed'[SafetyNet] = listed[SafetyNet] \cup {j}
        /\ \A s \in Stoppers \ {SafetyNet} : listed'[s] = listed[s]
    BY <1>8, <2>1 DEF NetAsks, SharedProxyTypeOK
  <2>4. NoneMissed(SafetyNet)'
    BY <2>1, <2>2, <2>3 DEF ActiveOf, ListedInv, NoneMissed
  <2>5. \A s \in Stoppers \ {SafetyNet} : NoneMissed(s)'
    BY <2>2, <2>3 DEF ListedInv, NoneMissed
  <2> QED
    BY <2>2, <2>4, <2>5 DEF ListedInv
<1>9. CASE NetDecides
  <2>1. CASE NetEnds
    BY <1>9, <2>1, NetEndsStep DEF NetDecides
  <2>2. CASE NetWillStop /\ net' = "stopping" /\ UNCHANGED <<listed, late, found, hung>>
    BY <1>9, <2>2 DEF NetDecides, NetWillStop, ListedInv, NoneMissed, Active
  <2> QED
    BY <1>9, <2>1, <2>2 DEF NetDecides
<1>10. CASE NetStops \/ NetSetBack
  BY <1>10, NetEndsStep DEF NetStops, NetSetBack
<1>11. CASE UNCHANGED vars
  BY <1>11 DEF vars, ListedInv, NoneMissed, Active
<1> QED
  BY <1>1, <1>2, <1>3, <1>4, <1>5, <1>6, <1>7, <1>8, <1>9, <1>10, <1>11
     DEF Next, NetStep, Done

\* A stop of the shared proxy cuts off an execution only if it was launched after
\* its job had been asked for, for any number of executions and jobs and in
\* whatever order these are asked for: _can_stop_shared_proxysql counts those not
\* started too.  A stop by the Safety-Net may also hit what it does not monitor
\* and what it takes for hung.
THEOREM OnlyLaterLaunchesAreHit == Spec => []StopSparesWhatWasListed
<1>1. Init => ListedInv
  BY DEF Init, ListedInv, NoneMissed, Active
<1>2. SharedProxyTypeOK /\ ListedInv => StopSparesWhatWasListed
  <2> SUFFICES ASSUME SharedProxyTypeOK, ListedInv PROVE StopSparesWhatWasListed
    OBVIOUS
  <2>1. ASSUME NEW e \in Execs, listed[e] = Jobs PROVE Active \ {e} \subseteq late[e]
    <3>1. NoneMissed(e) /\ e # SafetyNet
      BY SharedProxyAssumption DEF ListedInv, Stoppers
    <3> QED
      BY <2>1, <3>1, SharedProxyAssumption DEF NoneMissed, Active
  <2>2. ASSUME net = "stopping", NEW f \in Active, Job[f] \in Monitored
        PROVE  f \in late[SafetyNet] \cup overdue \cup Undated
    <3>1. NoneMissed(SafetyNet) /\ f # SafetyNet
      BY SharedProxyAssumption DEF ListedInv, Stoppers, Active
    <3> QED
      BY <2>2, <3>1 DEF ListedInv, NoneMissed
  <2> QED
    BY <2>1, <2>2 DEF StopSparesWhatWasListed
<1> QED
  BY <1>1, <1>2, ListedStep, SharedProxyTypeCorrect, PTL DEF Spec
=============================================================================
