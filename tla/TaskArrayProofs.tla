-------------------------- MODULE TaskArrayProofs --------------------------
(***************************************************************************)
(* Theorems of the task array alone, of the jobs that it deals out and     *)
(* reports (JobCoverage), and of the array with the proxy that it starts   *)
(* and stops (CrawlTeardown): for every number of tasks, every set of      *)
(* jobless tasks and every number of faults, deaths and aborts.            *)
(***************************************************************************)
EXTENDS CrawlTeardown, JobCoverage, FiniteSetTheorems, TLAPS

\* TypeOK is preserved by every step of a task that touches the database.
LEMMA StepType ==
  ASSUME TypeOK, NEW t \in Tasks, NEW ok \in BOOLEAN, Step(t, ok)
  PROVE  TypeOK'
<1> USE TaskArrayAssumption DEF TypeOK, Status, Terminal, Live, Stopped, MaxAttempts
<1>1. CASE FastExit(t, ok)
  BY <1>1 DEF FastExit, Access, Write
<1>2. CASE RecordTaskStart(t, ok)
  BY <1>2 DEF RecordTaskStart, Access, Write
<1>3. CASE SaveOutcome(t, ok)
  BY <1>3 DEF SaveOutcome, Access
<1>4. CASE CheckOthers(t, ok)
  BY <1>4 DEF CheckOthers, Verdict, Access, Retry
<1>5. CASE ClaimAggregation(t, ok)
  BY <1>5 DEF ClaimAggregation, Access, Retry
<1>6. CASE Aggregate(t, ok)
  BY <1>6 DEF Aggregate, Access, Report
<1>7. CASE Reconcile(t, ok)
  BY <1>7 DEF Reconcile, Access
<1> QED
  BY <1>1, <1>2, <1>3, <1>4, <1>5, <1>6, <1>7 DEF Step

\* Every variable keeps its type in every behaviour.
THEOREM TypeCorrect == Spec => []TypeOK
<1> USE TaskArrayAssumption DEF TypeOK, Status, Terminal, Live, Stopped, MaxAttempts
<1>1. Init => TypeOK
  BY DEF Init
<1>2. ASSUME TypeOK, [Next]_vars PROVE TypeOK'
  <2>1. ASSUME NEW t \in Tasks, NEW ok \in BOOLEAN, Step(t, ok) PROVE TypeOK'
    BY <1>2, <2>1, StepType
  <2>2. ASSUME NEW t \in Tasks, StartupFails(t) \/ Die(t) PROVE TypeOK'
    BY <1>2, <2>2 DEF StartupFails, Die
  <2>3. ASSUME NEW t \in Tasks, Abort(t) PROVE TypeOK'
    BY <1>2, <2>3 DEF Abort
  <2>4. CASE Tick
    BY <1>2, <2>4 DEF Tick
  <2>5. CASE UNCHANGED vars
    BY <1>2, <2>5 DEF vars
  <2> QED
    BY <1>2, <2>1, <2>2, <2>3, <2>4, <2>5 DEF Next, Done
<1> QED
  BY <1>1, <1>2, PTL DEF Spec

-----------------------------------------------------------------------------
(* The inductive invariant.  OneAggregator is not inductive: that a claim   *)
(* excludes every later one depends on AGGREGATING rows staying as they     *)
(* are, and that the leader is the last one depends on how old a live       *)
(* task's row can be.                                                       *)

Crawling(t) == pc[t] \in {"idle", "crawling"}

\* Whoever claims, claimed or leads has seen the others finish their crawl.
Leading(t) == pc[t] = "claiming" \/ row[t] = "AGGREGATING"

\* A task that still has to crawl has no outcome and no results in its row.
RowsOfCrawlers ==
  \A t \in Tasks :
    /\ pc[t] = "idle" => row[t] = "ABSENT"
    /\ pc[t] = "crawling" => row[t] \in {"ABSENT", "RUNNING"}
    /\ Crawling(t) => t \notin results

\* An aggregation, running or reported, is marked in the row, and no two are.
MarkedOnce ==
  /\ \A t \in Tasks : Claimed(t) => row[t] = "AGGREGATING"
  /\ \A t, u \in Tasks :
       row[t] = "AGGREGATING" /\ row[u] = "AGGREGATING" => t = u

ClaimInv == RowsOfCrawlers /\ MarkedOnce

\* No step of a task gives a crawler an outcome or marks a second aggregator.
LEMMA StepClaimInv ==
  ASSUME TypeOK, ClaimInv, NEW t \in Tasks, NEW ok \in BOOLEAN, Step(t, ok)
  PROVE  ClaimInv'
<1> USE DEF TypeOK, ClaimInv, RowsOfCrawlers, MarkedOnce, Crawling, Claimed
<1>1. CASE FastExit(t, ok)
  BY <1>1 DEF FastExit, Write
<1>2. CASE RecordTaskStart(t, ok)
  BY <1>2 DEF RecordTaskStart, Write
<1>3. CASE SaveOutcome(t, ok)
  BY <1>3 DEF SaveOutcome
<1>4. CASE CheckOthers(t, ok)
  BY <1>4 DEF CheckOthers, Verdict, Retry
<1>5. CASE ClaimAggregation(t, ok)
  BY <1>5 DEF ClaimAggregation, Retry, MayClaim, Others
<1>6. CASE Aggregate(t, ok)
  BY <1>6 DEF Aggregate
<1>7. CASE Reconcile(t, ok)
  BY <1>7 DEF Reconcile
<1> QED
  BY <1>1, <1>2, <1>3, <1>4, <1>5, <1>6, <1>7 DEF Step

\* Crawlers' rows stay open and at most one row is marked AGGREGATING, whatever
\* fails: the part of the inductive invariant that needs no clock.
THEOREM ClaimInvariant == Spec => []ClaimInv
<1> USE DEF TypeOK, ClaimInv, RowsOfCrawlers, MarkedOnce, Crawling, Claimed
<1>1. Init => ClaimInv
  BY DEF Init
<1>2. ASSUME TypeOK, ClaimInv, [Next]_vars PROVE ClaimInv'
  <2>1. ASSUME NEW t \in Tasks, NEW ok \in BOOLEAN, Step(t, ok) PROVE ClaimInv'
    BY <1>2, <2>1, StepClaimInv
  <2>2. ASSUME NEW t \in Tasks, StartupFails(t) \/ Die(t) PROVE ClaimInv'
    BY <1>2, <2>2 DEF StartupFails, Die
  <2>3. ASSUME NEW t \in Tasks, Abort(t) PROVE ClaimInv'
    BY <1>2, <2>3 DEF Abort
  <2>4. CASE Tick
    BY <1>2, <2>4 DEF Tick
  <2>5. CASE UNCHANGED vars
    BY <1>2, <2>5 DEF vars
  <2> QED
    BY <1>2, <2>1, <2>2, <2>3, <2>4, <2>5 DEF Next, Done
<1> QED
  BY <1>1, <1>2, TypeCorrect, PTL DEF Spec

\* However the database fails and whichever processes die, at most one task
\* aggregates: the recheck under the row locks in is_last_completing_task.
THEOREM AtMostOneAggregator == Spec => []OneAggregator
<1>1. ClaimInv => OneAggregator
  BY DEF ClaimInv, MarkedOnce, OneAggregator
<1> QED
  BY <1>1, ClaimInvariant, PTL

\* A settled row stays settled: a late save, abort or reconciliation never takes
\* an outcome back, and AGGREGATING, which excludes every later claim, is final.
THEOREM SettledRowsStay == Spec => RowsOnlyAdvance
<1> DEFINE Advance(t) ==
      /\ row[t] = "AGGREGATING" => row'[t] = "AGGREGATING"
      /\ row[t] \in {"COMPLETED", "FAILED"} => row'[t] \in {row[t], "AGGREGATING"}
<1>1. ASSUME TypeOK, ClaimInv, [Next]_vars, NEW t \in Tasks PROVE Advance(t)
  <2> USE <1>1 DEF TypeOK, ClaimInv, RowsOfCrawlers
  <2>1. ASSUME NEW u \in Tasks, NEW ok \in BOOLEAN, Step(u, ok) PROVE Advance(t)
    BY <2>1 DEF Step, FastExit, RecordTaskStart, SaveOutcome, CheckOthers,
       ClaimAggregation, Aggregate, Reconcile, Write
  <2>2. ASSUME NEW u \in Tasks, StartupFails(u) \/ Die(u) \/ Abort(u) PROVE Advance(t)
    BY <2>2 DEF StartupFails, Die, Abort
  <2>3. CASE Tick \/ UNCHANGED vars
    BY <2>3 DEF Tick, vars
  <2> QED
    BY <2>1, <2>2, <2>3 DEF Next, Done
<1>2. TypeOK /\ ClaimInv /\ [Next]_vars => [\A t \in Tasks : Advance(t)]_vars
  BY <1>1
<1> QED
  BY <1>2, TypeCorrect, ClaimInvariant, PTL DEF Spec, RowsOnlyAdvance

-----------------------------------------------------------------------------
(* The last one aggregates, when no container can outlive the staleness    *)
(* threshold: crawler_timeout <= CRAWL_TIMEOUT_SEC, minus the 300 s after   *)
(* which run_pipeline stops by itself.                                      *)

TimelyContainers == ContainerTimeout < StaleAfter

\* No live task is older than its container allows, and an election looks at
\* rows as of a moment that has passed.
TimeInv ==
  \A t \in Tasks : pc[t] \in Live =>
    /\ began[t] <= clock /\ clock <= began[t] + ContainerTimeout
    /\ pc[t] \in {"electing", "claiming"} => asked[t] <= clock

LeaderInv == \A t \in Tasks : Leading(t) => \A u \in Others(t) : ~Crawling(u)

\* No step of a task makes a live task older than its container allows.
LEMMA StepTimeInv ==
  ASSUME TypeOK, TimeInv, NEW t \in Tasks, NEW ok \in BOOLEAN, Step(t, ok)
  PROVE  TimeInv'
<1> USE TaskArrayAssumption DEF TypeOK, TimeInv, Live
<1>1. CASE FastExit(t, ok)
  BY <1>1 DEF FastExit
<1>2. CASE RecordTaskStart(t, ok)
  BY <1>2 DEF RecordTaskStart
<1>3. CASE SaveOutcome(t, ok)
  BY <1>3 DEF SaveOutcome
<1>4. CASE CheckOthers(t, ok)
  BY <1>4 DEF CheckOthers, Verdict, Retry
<1>5. CASE ClaimAggregation(t, ok)
  BY <1>5 DEF ClaimAggregation, Retry
<1>6. CASE Aggregate(t, ok)
  BY <1>6 DEF Aggregate
<1>7. CASE Reconcile(t, ok)
  BY <1>7 DEF Reconcile
<1> QED
  BY <1>1, <1>2, <1>3, <1>4, <1>5, <1>6, <1>7 DEF Step

\* A read that finds nobody pending finds nobody still to crawl: a task that
\* has not begun has no row, and the row of a crawling one is missing or fresh.
LEMMA NonePendingNoneCrawling ==
  ASSUME TimelyContainers, TypeOK, RowsOfCrawlers, TimeInv,
         NEW t \in Tasks, pc[t] = "electing", Pending(t) = {},
         NEW u \in Others(t)
  PROVE  ~Crawling(u)
<1> USE TaskArrayAssumption DEF TypeOK, Live, Others
<1>1. ~PendingFor(t, u)
  BY DEF Pending
<1>2. asked[t] - began[t] < StaleAfter
  BY DEF TimeInv, TimelyContainers
<1>3. row[u] # "ABSENT" /\ pc[u] # "idle"
  BY <1>1, <1>2 DEF PendingFor, RowsOfCrawlers
<1>4. CASE pc[u] = "crawling"
  <2>1. row[u] = "RUNNING"
    BY <1>3, <1>4 DEF RowsOfCrawlers
  <2>2. asked[t] - began[u] <= StaleAfter
    BY <1>4 DEF TimeInv, TimelyContainers
  <2> QED
    BY <1>1, <2>1, <2>2 DEF PendingFor
<1> QED
  BY <1>3, <1>4 DEF Crawling

\* Whoever a step lets claim or lead has no other task left crawling.
LEMMA StepLeaderInv ==
  ASSUME TimelyContainers, TypeOK, ClaimInv, TimeInv, LeaderInv,
         NEW t \in Tasks, NEW ok \in BOOLEAN, Step(t, ok)
  PROVE  LeaderInv'
<1> USE DEF TypeOK, LeaderInv, Leading, Crawling, Others
<1>1. CASE FastExit(t, ok)
  BY <1>1 DEF FastExit, Write
<1>2. CASE RecordTaskStart(t, ok)
  BY <1>2 DEF RecordTaskStart, Write
<1>3. CASE SaveOutcome(t, ok)
  BY <1>3 DEF SaveOutcome
<1>4. CASE CheckOthers(t, ok)
  <2>1. CASE pc'[t] = "claiming"
    <3>1. pc[t] = "electing" /\ Pending(t) = {}
      BY <1>4, <2>1 DEF CheckOthers, Verdict, Retry
    <3>2. \A u \in Others(t) : ~Crawling(u)
      BY <3>1, NonePendingNoneCrawling DEF ClaimInv
    <3> QED
      BY <1>4, <2>1, <3>2 DEF CheckOthers, Verdict, Retry
  <2>2. CASE pc'[t] # "claiming"
    BY <1>4, <2>2 DEF CheckOthers, Verdict, Retry
  <2> QED
    BY <2>1, <2>2
<1>5. CASE ClaimAggregation(t, ok)
  BY <1>5 DEF ClaimAggregation, Retry
<1>6. CASE Aggregate(t, ok)
  BY <1>6 DEF Aggregate
<1>7. CASE Reconcile(t, ok)
  BY <1>7 DEF Reconcile
<1> QED
  BY <1>1, <1>2, <1>3, <1>4, <1>5, <1>6, <1>7 DEF Step

\* Nobody crawls once a task is claiming, or once a row is AGGREGATING: the part
\* of the inductive invariant that rests on the age of rows and containers.
LEMMA LeaderInvariant ==
  ASSUME TimelyContainers
  PROVE  Spec => [](TimeInv /\ LeaderInv)
<1> USE TaskArrayAssumption DEF TypeOK, LeaderInv, TimeInv, Live, Leading, Crawling
<1>1. Init => TimeInv /\ LeaderInv
  BY DEF Init
<1>2. ASSUME TypeOK, ClaimInv, TimeInv, LeaderInv, [Next]_vars
      PROVE  TimeInv' /\ LeaderInv'
  <2>1. ASSUME NEW t \in Tasks, NEW ok \in BOOLEAN, Step(t, ok)
        PROVE  TimeInv' /\ LeaderInv'
    BY <1>2, <2>1, StepTimeInv, StepLeaderInv
  <2>2. ASSUME NEW t \in Tasks, StartupFails(t) \/ Die(t) PROVE TimeInv' /\ LeaderInv'
    BY <1>2, <2>2 DEF StartupFails, Die, Others
  <2>3. ASSUME NEW t \in Tasks, Abort(t) PROVE TimeInv' /\ LeaderInv'
    BY <1>2, <2>3 DEF Abort, Others
  <2>4. CASE Tick
    BY <1>2, <2>4 DEF Tick, Others
  <2>5. CASE UNCHANGED vars
    BY <1>2, <2>5 DEF vars, Others
  <2> QED
    BY <1>2, <2>1, <2>2, <2>3, <2>4, <2>5 DEF Next, Done
<1> QED
  BY <1>1, <1>2, TypeCorrect, ClaimInvariant, PTL DEF Spec

\* With timely containers the task that aggregates is the last one: the
\* promise of is_last_completing_task's name.
THEOREM AggregatorIsLast ==
  ASSUME TimelyContainers
  PROVE  Spec => []LastOneAggregates
<1>1. ClaimInv /\ LeaderInv => LastOneAggregates
  BY DEF ClaimInv, MarkedOnce, LeaderInv, Leading, Crawling, LastOneAggregates
<1> QED
  BY <1>1, ClaimInvariant, LeaderInvariant, PTL

\* With timely containers a report that could read the rows holds every result
\* that is ever stored.
THEOREM ReportHoldsAllResults ==
  ASSUME TimelyContainers
  PROVE  Spec => []NoResultLeftOut
<1> USE DEF TypeOK, NoResultLeftOut
<1>1. Init => NoResultLeftOut
  BY DEF Init
<1>2. ASSUME TypeOK, ClaimInv, LeaderInv, NoResultLeftOut, [Next]_vars
      PROVE  NoResultLeftOut'
  <2>1. ASSUME NEW t \in Tasks, NEW ok \in BOOLEAN, SaveOutcome(t, ok)
        PROVE  NoResultLeftOut'
    <3>1. reports = {}
      <4> SUFFICES ASSUME NEW r \in reports PROVE FALSE
        OBVIOUS
      <4>1. r.by \in Tasks /\ row[r.by] = "AGGREGATING"
        BY <1>2 DEF Report, ClaimInv, MarkedOnce, Claimed
      <4>2. pc[t] = "crawling"
        BY <2>1 DEF SaveOutcome
      <4>3. t # r.by
        BY <1>2, <4>1, <4>2 DEF ClaimInv, RowsOfCrawlers
      <4> QED
        BY <1>2, <4>1, <4>2, <4>3 DEF LeaderInv, Leading, Others, Crawling
    <3>2. reports' = reports
      BY <2>1 DEF SaveOutcome
    <3> QED
      BY <3>1, <3>2
  <2>2. ASSUME NEW t \in Tasks, NEW ok \in BOOLEAN, Aggregate(t, ok)
        PROVE  NoResultLeftOut'
    BY <1>2, <2>2 DEF Aggregate
  <2>3. ASSUME NEW t \in Tasks, NEW ok \in BOOLEAN, Step(t, ok)
        PROVE  NoResultLeftOut'
    BY <1>2, <2>1, <2>2, <2>3 DEF Step, FastExit, RecordTaskStart, CheckOthers,
       ClaimAggregation, Reconcile
  <2>4. ASSUME NEW t \in Tasks, StartupFails(t) \/ Die(t) \/ Abort(t) PROVE NoResultLeftOut'
    BY <1>2, <2>4 DEF StartupFails, Die, Abort
  <2>5. CASE Tick \/ UNCHANGED vars
    BY <1>2, <2>5 DEF Tick, vars
  <2> QED
    BY <1>2, <2>3, <2>4, <2>5 DEF Next, Done
<1> QED
  BY <1>1, <1>2, TypeCorrect, ClaimInvariant, LeaderInvariant, PTL DEF Spec

-----------------------------------------------------------------------------
(* The election implements Aggregation.                                    *)

Working == {t \in Tasks : Crawling(t)}
Leaders == {t \in Tasks : row[t] = "AGGREGATING"}
Publishers == {r.by : r \in reports}

\* A step of a task is a step of the abstract election or a stutter.
LEMMA StepImplements ==
  ASSUME TypeOK, ClaimInv, LeaderInv,
         NEW t \in Tasks, NEW ok \in BOOLEAN, Step(t, ok)
  PROVE  [Election!Next]_(Election!vars)
<1>1. SUFFICES \/ Working' = Working /\ Leaders' = Leaders /\ Publishers' = Publishers
               \/ /\ t \in Working /\ Working' = Working \ {t}
                  /\ Leaders' = Leaders /\ Publishers' = Publishers
               \/ /\ Working = {} /\ Leaders = {} /\ Leaders' = {t}
                  /\ Working' = Working /\ Publishers' = Publishers
               \/ /\ t \in Leaders /\ Publishers' = Publishers \cup {t}
                  /\ Leaders' = Leaders /\ Working' = Working
  BY DEF Working, Leaders, Publishers, Crawling, Election!Next, Election!vars,
     Election!Finish, Election!Elect, Election!Publish
<1> USE DEF TypeOK, Working, Leaders, Publishers, Crawling
<1>2. CASE FastExit(t, ok)
  BY <1>2 DEF FastExit, Write, ClaimInv, RowsOfCrawlers
<1>3. CASE RecordTaskStart(t, ok)
  BY <1>3 DEF RecordTaskStart, Write, ClaimInv, RowsOfCrawlers
<1>4. CASE SaveOutcome(t, ok)
  BY <1>4 DEF SaveOutcome, ClaimInv, RowsOfCrawlers
<1>5. CASE CheckOthers(t, ok)
  BY <1>5 DEF CheckOthers, Verdict, Retry
<1>6. CASE ClaimAggregation(t, ok)
  <2>1. Working = {} /\ Working' = {} /\ Publishers' = Publishers
    BY <1>6 DEF ClaimAggregation, Retry, LeaderInv, Leading, Others
  <2>2. CASE row' = row
    BY <2>1, <2>2
  <2>3. CASE row' # row
    <3>1. MayClaim(t) /\ row' = [row EXCEPT ![t] = "AGGREGATING"]
      BY <1>6, <2>3 DEF ClaimAggregation, Retry
    <3>2. Leaders \subseteq {t} /\ Leaders' = {t}
      BY <3>1 DEF MayClaim, Others
    <3> QED
      BY <2>1, <3>2
  <2> QED
    BY <2>2, <2>3
<1>7. CASE Aggregate(t, ok)
  BY <1>7 DEF Aggregate, ClaimInv, MarkedOnce, Claimed
<1>8. CASE Reconcile(t, ok)
  BY <1>8 DEF Reconcile
<1> QED
  BY <1>2, <1>3, <1>4, <1>5, <1>6, <1>7, <1>8 DEF Step

\* With timely containers every step of the task array is a step of the
\* abstract election or leaves it unchanged.
THEOREM RefinesElection ==
  ASSUME TimelyContainers
  PROVE  Spec => ImplementsElection
<1>1. Init => Election!Init
  BY DEF Init, Election!Init
<1>2. ASSUME TypeOK, ClaimInv, LeaderInv, [Next]_vars
      PROVE  [Election!Next]_(Election!vars)
  <2>1. ASSUME NEW t \in Tasks, NEW ok \in BOOLEAN, Step(t, ok)
        PROVE  [Election!Next]_(Election!vars)
    BY <1>2, <2>1, StepImplements
  <2>2. ASSUME NEW t \in Tasks, StartupFails(t) \/ Die(t) \/ Abort(t)
        PROVE  [Election!Next]_(Election!vars)
    <3>1. /\ Leaders' = Leaders /\ Publishers' = Publishers
          /\ \/ Working' = Working
             \/ t \in Working /\ Working' = Working \ {t}
      BY <1>2, <2>2 DEF StartupFails, Die, Abort, TypeOK, Working, Leaders, Publishers, Crawling,
         ClaimInv, RowsOfCrawlers
    <3> QED
      BY <3>1 DEF Working, Leaders, Publishers, Crawling, Election!Next,
         Election!vars, Election!Finish
  <2>3. CASE Tick \/ UNCHANGED vars
    BY <2>3 DEF Tick, vars, Election!vars
  <2> QED
    BY <1>2, <2>1, <2>2, <2>3 DEF Next, Done
<1> QED
  BY <1>1, <1>2, TypeCorrect, ClaimInvariant, LeaderInvariant, PTL
     DEF Spec, ImplementsElection, Election!Spec

-----------------------------------------------------------------------------
(* The jobs: what is dealt out, stored and reported.                       *)

JobLists == Seq([company : STRING, type : STRING])

\* The index of a job of the general case is a natural number.
LEMMA OtherIndexNat ==
  ASSUME NEW jobs \in JobLists, NEW count \in Nat \ {0}, NEW k \in DOMAIN jobs
  PROVE  OtherIndex(jobs, k, count) \in Nat
<1>1. k - 1 \in Int
  BY DEF JobLists
<1>2. IsFiniteSet({j \in 1 .. (k - 1) : IsOther(jobs[j], count)})
  BY <1>1, FS_Interval, FS_Subset
<1> QED
  BY <1>2, FS_CardinalityType DEF OtherIndex

\* The table for eight tasks names one of the eight.
LEMMA Assign8Range == ASSUME NEW job PROVE Assign8TaskIndex(job) \in 0 .. 7
BY DEF Assign8TaskIndex

\* Every job of every list is in the share of exactly one task, for any number
\* of tasks.
THEOREM EachJobToOneTask ==
  ASSUME NEW jobs \in JobLists, NEW count \in Nat \ {0}, NEW k \in DOMAIN jobs
  PROVE  \E t \in 0 .. (count - 1) :
           \A u \in 0 .. (count - 1) : k \in Share(jobs, u, count) <=> u = t
<1>1. CASE count = 1
  BY <1>1 DEF Share
<1>2. CASE count \in {3, 4}
  <2>1. CASE IsOther(jobs[k], count)
    <3> DEFINE t == OtherIndex(jobs, k, count) % count
    <3>1. t \in 0 .. (count - 1)
      BY OtherIndexNat
    <3>2. ASSUME NEW u \in 0 .. (count - 1) PROVE ~OfHost(jobs[k], u, count)
      BY <1>2, <2>1 DEF IsOther, OfHost, Hosts, BIG_3_COMPANIES, BIG_4_COMPANIES
    <3>3. ASSUME NEW u \in 0 .. (count - 1) PROVE k \in Share(jobs, u, count) <=> u = t
      BY <1>2, <2>1, <3>2 DEF Share
    <3> HIDE DEF t
    <3> QED
      BY <3>1, <3>3
  <2>2. CASE ~IsOther(jobs[k], count)
    <3>1. PICK i \in DOMAIN Hosts(count) : Hosts(count)[i] = jobs[k].company
      BY <2>2 DEF IsOther
    <3>2. i - 1 \in 0 .. (count - 1)
      BY <1>2, <3>1 DEF Hosts, BIG_3_COMPANIES, BIG_4_COMPANIES
    <3>3. ASSUME NEW u \in 0 .. (count - 1) PROVE OfHost(jobs[k], u, count) <=> u = i - 1
      BY <1>2, <3>1 DEF OfHost, Hosts, BIG_3_COMPANIES, BIG_4_COMPANIES
    <3>4. ASSUME NEW u \in 0 .. (count - 1) PROVE k \in Share(jobs, u, count) <=> u = i - 1
      BY <1>2, <2>2, <3>3 DEF Share
    <3> QED
      BY <3>2, <3>4
  <2> QED
    BY <2>1, <2>2
<1>3. CASE count = 8
  BY <1>3, Assign8Range DEF Share
<1>4. CASE count \notin {1, 3, 4, 8}
  <2> DEFINE t == (k - 1) % count
  <2>1. t \in 0 .. (count - 1)
    BY DEF JobLists
  <2>2. ASSUME NEW u \in 0 .. (count - 1) PROVE k \in Share(jobs, u, count) <=> u = t
    BY <1>4 DEF Share
  <2> HIDE DEF t
  <2> QED
    BY <2>1, <2>2
<1> QED
  BY <1>1, <1>2, <1>3, <1>4

-----------------------------------------------------------------------------
(* What a row says of the results                                          *)

\* COMPLETED is written together with the results, or by a task without jobs.
\* When nothing has failed, so is every outcome.
Evidence(t) ==
  /\ row[t] = "COMPLETED" => t \in results \cup Jobless
  /\ Undisturbed =>
       /\ pc[t] # "aborted"
       /\ pc[t] = "crawling" => t \in holds
       /\ pc[t] \in {"electing", "claiming", "aggregating"} => t \in results
       /\ row[t] \in {"FAILED", "AGGREGATING"} => t \in results

EvidenceInv == \A t \in Tasks : Evidence(t)

\* A step of a task keeps what completed rows are evidence of,
LEMMA StepEvidence ==
  ASSUME TypeOK, EvidenceInv, NEW t \in Tasks, NEW ok \in BOOLEAN, Step(t, ok)
  PROVE  EvidenceInv'
<1> SUFFICES ASSUME NEW u \in Tasks PROVE Evidence(u)'
  BY DEF EvidenceInv
<1>0. Evidence(u) /\ Evidence(t)
  BY DEF EvidenceInv
<1>1. Undisturbed' => Undisturbed /\ ok
  BY DEF Undisturbed, TypeOK, Step, FastExit, RecordTaskStart, SaveOutcome, CheckOthers,
     ClaimAggregation, Aggregate, Reconcile, Access
<1> USE <1>0, <1>1 DEF Evidence, TypeOK
<1>2. CASE FastExit(t, ok)
  BY <1>2 DEF FastExit, Write
<1>3. CASE RecordTaskStart(t, ok)
  BY <1>3 DEF RecordTaskStart, Write
<1>4. CASE SaveOutcome(t, ok)
  BY <1>4 DEF SaveOutcome
<1>5. CASE CheckOthers(t, ok)
  BY <1>5 DEF CheckOthers, Verdict, Retry
<1>6. CASE ClaimAggregation(t, ok)
  BY <1>6 DEF ClaimAggregation, Retry
<1>7. CASE Aggregate(t, ok)
  BY <1>7 DEF Aggregate
<1>8. CASE Reconcile(t, ok)
  BY <1>8 DEF Reconcile
<1> QED
  BY <1>2, <1>3, <1>4, <1>5, <1>6, <1>7, <1>8 DEF Step

\* so that it is an invariant.
LEMMA EvidenceInvariant == Spec => []EvidenceInv
<1>1. Init => EvidenceInv
  BY DEF Init, EvidenceInv, Evidence
<1>2. ASSUME TypeOK, EvidenceInv, [Next]_vars PROVE EvidenceInv'
  <2>1. ASSUME NEW t \in Tasks, NEW ok \in BOOLEAN, Step(t, ok) PROVE EvidenceInv'
    BY <1>2, <2>1, StepEvidence
  <2>2. ASSUME NEW t \in Tasks, StartupFails(t) PROVE EvidenceInv'
    BY <1>2, <2>2 DEF StartupFails, EvidenceInv, Evidence, Undisturbed, TypeOK
  <2>3. ASSUME NEW t \in Tasks, Die(t) \/ Abort(t) PROVE EvidenceInv'
    <3>1. ~Undisturbed'
      BY <1>2, <2>3 DEF Die, Abort, Undisturbed, TypeOK
    <3>2. results' = results /\ \A u \in Tasks : row'[u] = "COMPLETED" => row[u] = "COMPLETED"
      BY <1>2, <2>3 DEF Die, Abort, TypeOK
    <3> QED
      BY <1>2, <3>1, <3>2 DEF EvidenceInv, Evidence
  <2>4. CASE Tick
    BY <1>2, <2>4 DEF Tick, EvidenceInv, Evidence, Undisturbed
  <2>5. CASE UNCHANGED vars
    BY <1>2, <2>5 DEF vars, EvidenceInv, Evidence, Undisturbed
  <2> QED
    BY <1>2, <2>1, <2>2, <2>3, <2>4, <2>5 DEF Next, Done
<1> QED
  BY <1>1, <1>2, TypeCorrect, PTL DEF Spec

\* A barrier that passes by its ratio has the results of enough tasks, for any
\* number of tasks and any ratio.
THEOREM PassIsCrawled == Spec => []PassMeansCrawled
<1>1. ASSUME TypeOK, EvidenceInv PROVE PassMeansCrawled
  <2> DEFINE stored == results \cup Jobless
             enough == MinRatio * TaskCount
  <2>1. Completed \subseteq stored /\ stored \subseteq Tasks
    BY <1>1, TaskArrayAssumption DEF EvidenceInv, Evidence, Completed, TypeOK
  <2>2. IsFiniteSet(Tasks)
    BY TaskArrayAssumption, FS_Interval DEF Tasks
  <2>3. IsFiniteSet(stored) /\ IsFiniteSet(Completed)
    BY <2>1, <2>2, FS_Subset
  <2>4. Cardinality(Completed) <= Cardinality(stored)
    BY <2>1, <2>3, FS_Subset
  <2>5. Cardinality(Completed) \in Nat /\ Cardinality(stored) \in Nat
    BY <2>3, FS_CardinalityType
  <2>6. enough \in Int
    BY TaskArrayAssumption, MlBarrierAssumption
  <2>7. Judge = "enough" => Cardinality(Completed) * 100 >= enough
    BY DEF Judge
  <2> HIDE DEF stored, enough
  <2>8. Judge = "enough" => Cardinality(stored) * 100 >= enough
    BY <2>4, <2>5, <2>6, <2>7
  <2> QED
    BY <2>8 DEF PassMeansCrawled, stored, enough
<1> QED
  BY <1>1, TypeCorrect, EvidenceInvariant, PTL

-----------------------------------------------------------------------------
\* When nothing has failed and all rows are settled, the report has every job of
\* the list from one task, for any list, filters and number of tasks.
THEOREM ReportHasEachJobOnce ==
  ASSUME TimelyContainers
  PROVE  Spec => []EachJobReportedOnce
<1>1. ASSUME TypeOK, EvidenceInv, NoResultLeftOut PROVE EachJobReportedOnce
  <2> SUFFICES ASSUME Undisturbed, \A t \in Tasks : row[t] \in Terminal,
                      NEW r \in reports, r.complete, NEW k \in DOMAIN Jobs
               PROVE  Cardinality({t \in r.covers : k \in Share(Jobs, t, TaskCount)}) = 1
    BY DEF EachJobReportedOnce
  <2>1. PICK t \in Tasks : \A u \in Tasks : k \in Share(Jobs, u, TaskCount) <=> u = t
    <3>1. Jobs \in JobLists /\ TaskCount \in Nat \ {0}
      BY TaskArrayAssumption, JobCoverageAssumption DEF JobLists
    <3> QED
      BY <3>1, EachJobToOneTask DEF Tasks
  <2>2. t \notin Jobless
    BY <2>1, JobCoverageAssumption
  <2>3. t \in results
    BY <1>1, <2>2 DEF EvidenceInv, Evidence, Terminal
  <2>4. t \in r.covers /\ r.covers \subseteq Tasks
    BY <1>1, <2>3 DEF NoResultLeftOut, TypeOK, Report
  <2>5. {u \in r.covers : k \in Share(Jobs, u, TaskCount)} = {t}
    BY <2>1, <2>4
  <2> QED
    BY <2>5, FS_Singleton
<1> QED
  BY <1>1, TypeCorrect, EvidenceInvariant, ReportHoldsAllResults, PTL

-----------------------------------------------------------------------------
(* Somebody reports, when every task has jobs: a task without them settles *)
(* its row outside of the election, and with one SettledRunIsReported fails. *)

AllSettled == \A t \in Tasks : row[t] \in Terminal

Campaigning(t) == pc[t] \in {"electing", "claiming", "aggregating"}

\* A row that is claimed is being reported or has been, and the report of a
\* settled array is in somebody's hands.
HandOver ==
  /\ \A t \in Tasks : row[t] = "AGGREGATING" => pc[t] = "aggregating" \/ reports # {}
  /\ AllSettled => reports # {} \/ \E t \in Tasks : Campaigning(t)

HandOverInv == Undisturbed => HandOver

\* An undisturbed step of a task passes the report on, or sends it: the last to
\* settle finds nobody pending, and who may not claim has seen another claim.
LEMMA StepHandOver ==
  ASSUME Jobless = {}, TypeOK, ClaimInv, EvidenceInv, HandOverInv,
         NEW t \in Tasks, NEW ok \in BOOLEAN, Step(t, ok)
  PROVE  HandOverInv'
<1> SUFFICES ASSUME Undisturbed' PROVE HandOver'
  BY DEF HandOverInv
<1>1. Undisturbed /\ ok
  BY DEF Undisturbed, TypeOK, Step, FastExit, RecordTaskStart, SaveOutcome, CheckOthers,
     ClaimAggregation, Aggregate, Reconcile, Access
<1>2. HandOver
  BY <1>1 DEF HandOverInv
<1> USE <1>1, <1>2 DEF HandOver, AllSettled, Campaigning, TypeOK
<1>3. ~FastExit(t, ok)
  BY DEF FastExit
<1>4. CASE RecordTaskStart(t, ok)
  BY <1>4 DEF RecordTaskStart, Write, Terminal
<1>5. CASE SaveOutcome(t, ok)
  BY <1>5 DEF SaveOutcome
<1>6. CASE CheckOthers(t, ok)
  <2>1. UNCHANGED <<row, reports>> /\ pc[t] = "electing"
    BY <1>6 DEF CheckOthers
  <2>2. AllSettled => pc'[t] = "claiming"
    BY <1>6 DEF CheckOthers, Verdict, Pending, PendingFor, Others, Terminal
  <2>3. \A u \in Others(t) : pc'[u] = pc[u]
    BY <1>6 DEF CheckOthers, Verdict, Others
  <2> QED
    BY <2>1, <2>2, <2>3 DEF Others
<1>7. CASE ClaimAggregation(t, ok)
  <2>1. CASE MayClaim(t)
    BY <1>7, <2>1 DEF ClaimAggregation
  <2>2. CASE ~MayClaim(t)
    <3>1. row' = row /\ reports' = reports /\ pc' = [pc EXCEPT ![t] = "finished"]
      BY <1>7, <2>2 DEF ClaimAggregation
    <3>2. pc[t] = "claiming"
      BY <1>7 DEF ClaimAggregation
    <3>3. AllSettled => \E u \in Others(t) : row[u] = "AGGREGATING"
      BY <2>2 DEF MayClaim, Terminal
    <3> QED
      BY <3>1, <3>2, <3>3 DEF Others
  <2> QED
    BY <2>1, <2>2
<1>8. CASE Aggregate(t, ok)
  BY <1>8 DEF Aggregate
<1>9. ~Reconcile(t, ok)
  BY <1>1 DEF Reconcile, EvidenceInv, Evidence
<1> QED
  BY <1>3, <1>4, <1>5, <1>6, <1>7, <1>8, <1>9 DEF Step

\* When every task has jobs and nothing has failed, a task array that is over
\* and settled has been reported: no task leaves the aggregation to one that has
\* left it to others, whatever the age of rows and containers.
THEOREM SettledArrayIsReported ==
  ASSUME Jobless = {}
  PROVE  Spec => []SettledRunIsReported
<1>1. Init => HandOverInv
  <2> SUFFICES ASSUME Init PROVE HandOver
    BY DEF HandOverInv
  <2>1. 0 \in Tasks
    BY TaskArrayAssumption DEF Tasks
  <2> QED
    BY <2>1 DEF Init, HandOver, AllSettled, Terminal
<1>2. ASSUME TypeOK, ClaimInv, EvidenceInv, HandOverInv, [Next]_vars
      PROVE  HandOverInv'
  <2> USE <1>2 DEF HandOverInv, HandOver, AllSettled, Campaigning, Undisturbed
  <2>1. ASSUME NEW t \in Tasks, NEW ok \in BOOLEAN, Step(t, ok) PROVE HandOverInv'
    BY <2>1, StepHandOver
  <2>2. ASSUME NEW t \in Tasks, StartupFails(t) PROVE HandOverInv'
    BY <2>2 DEF StartupFails, ClaimInv, RowsOfCrawlers, Terminal, TypeOK
  <2>3. ASSUME NEW t \in Tasks, Die(t) \/ Abort(t) PROVE HandOverInv'
    BY <2>3 DEF Die, Abort, TypeOK
  <2>4. CASE Tick \/ UNCHANGED vars
    BY <2>4 DEF Tick, vars
  <2> QED
    BY <1>2, <2>1, <2>2, <2>3, <2>4 DEF Next, Done
<1>3. HandOverInv => SettledRunIsReported
  BY DEF HandOverInv, HandOver, AllSettled, Campaigning, SettledRunIsReported,
     AllStopped, Stopped
<1> QED
  BY <1>1, <1>2, <1>3, TypeCorrect, ClaimInvariant, EvidenceInvariant, PTL DEF Spec

-----------------------------------------------------------------------------
(* The array with its proxy.                                               *)

ProxyIsBoolean == proxy \in BOOLEAN

\* The proxy is up or down, and nothing else.
LEMMA ProxyType == TeardownSpec => []ProxyIsBoolean
<1>1. TeardownInit => ProxyIsBoolean
  BY DEF TeardownInit, ProxyIsBoolean
<1>2. ASSUME ProxyIsBoolean, [TeardownNext]_allVars
      PROVE  ProxyIsBoolean'
  BY <1>2 DEF ProxyIsBoolean, TeardownNext, StartProxy, Healthy, TaskStep, TaskFailsToStart,
     TaskDies, EnterFinally, Terminated, AskGuard, StopProxy, TeardownDone,
     allVars, proxyVars
<1> QED
  BY <1>1, <1>2, PTL DEF TeardownSpec

\* The proxy and its teardown only restrict the task array: losing the proxy
\* shows to it as accesses that raise, and nothing else.
THEOREM TeardownImplementsTaskArray == TeardownSpec => Spec
<1>1. TeardownInit => Init
  BY DEF TeardownInit
<1>2. ASSUME ProxyIsBoolean, [TeardownNext]_allVars PROVE [Next]_vars
  <2>1. ASSUME NEW t \in Tasks, TaskStep(t) PROVE Next
    BY <1>2, <2>1 DEF TaskStep, Next, ProxyIsBoolean
  <2>2. ASSUME NEW t \in Tasks, TaskFailsToStart(t) PROVE Next
    BY <2>2 DEF TaskFailsToStart, Next
  <2>3. ASSUME NEW t \in Tasks, TaskDies(t) PROVE Next
    BY <2>3 DEF TaskDies, Next
  <2>4. ASSUME NEW t \in Tasks, Abort(t) PROVE Next
    BY <2>4 DEF Next
  <2>5. CASE Terminated
    <3>1. Coordinator \in Tasks
      BY TaskArrayAssumption DEF Coordinator, Tasks
    <3> QED
      BY <2>5, <3>1 DEF Terminated, Next
  <2>6. CASE Tick
    BY <2>6 DEF Next
  <2>7. CASE StartProxy \/ EnterFinally \/ AskGuard \/ StopProxy
    BY <2>7 DEF StartProxy, EnterFinally, AskGuard, StopProxy
  <2>8. ASSUME NEW t \in Tasks, Healthy(t) PROVE UNCHANGED vars
    BY <2>8 DEF Healthy
  <2>9. CASE TeardownDone \/ UNCHANGED allVars
    BY <2>9 DEF TeardownDone, allVars
  <2> QED
    BY <1>2, <2>1, <2>2, <2>3, <2>4, <2>5, <2>6, <2>7, <2>8, <2>9 DEF TeardownNext
<1> QED
  BY <1>1, <1>2, ProxyType, PTL DEF TeardownSpec, Spec

\* So the election of a task array whose database comes and goes with the proxy
\* still has at most one winner.
THEOREM OneAggregatorDespiteProxy == TeardownSpec => []OneAggregator
  BY TeardownImplementsTaskArray, AtMostOneAggregator, PTL

\* And a settled array is reported when nothing has failed, although its proxy
\* comes and goes: an access that the stopped proxy refuses is a failure.
THEOREM SettledArrayIsReportedDespiteProxy ==
  ASSUME Jobless = {}
  PROVE  TeardownSpec => []SettledRunIsReported
  BY TeardownImplementsTaskArray, SettledArrayIsReported, PTL

\* The variables of the task array and of its proxy keep their types.
THEOREM TeardownTypeCorrect == TeardownSpec => []TeardownTypeOK
<1> DEFINE ProxyTypes == ready \subseteq Tasks /\ exit \in Exit /\ asks \in 0 .. 3
<1>1. TeardownInit => ProxyTypes
  BY DEF TeardownInit, Exit
<1>2. ASSUME ProxyTypes, [TeardownNext]_allVars PROVE ProxyTypes'
  <2> USE <1>2 DEF Exit
  <2>1. ASSUME NEW t \in Tasks,
               Healthy(t) \/ TaskStep(t) \/ TaskFailsToStart(t) \/ TaskDies(t)
                 \/ (Abort(t) /\ UNCHANGED proxyVars)
        PROVE  ProxyTypes'
    BY <2>1 DEF Healthy, TaskStep, TaskFailsToStart, TaskDies, proxyVars
  <2>2. CASE StartProxy \/ StopProxy
    <3>1. ready' = ready /\ asks' = asks /\ exit' \in {exit, "leaving"}
      BY <2>2 DEF StartProxy, StopProxy
    <3> QED
      BY <3>1
  <2>3. CASE EnterFinally \/ Terminated \/ AskGuard
    BY <2>3 DEF EnterFinally, Terminated, AskGuard
  <2>4. CASE TeardownDone \/ UNCHANGED allVars \/ (Tick /\ UNCHANGED proxyVars)
    BY <2>4 DEF TeardownDone, allVars, proxyVars
  <2> QED
    BY <1>2, <2>1, <2>2, <2>3, <2>4 DEF TeardownNext
<1>3. TypeOK /\ ProxyIsBoolean /\ ProxyTypes => TeardownTypeOK
  BY DEF TeardownTypeOK, ProxyIsBoolean
<1> QED
  BY <1>1, <1>2, <1>3, TeardownImplementsTaskArray, TypeCorrect, ProxyType, PTL
     DEF TeardownSpec

-----------------------------------------------------------------------------
(* No stop under a crawl.                                                  *)

\* What the guard saw still holds when the stop comes: a crawl that is over
\* does not begin again.  Before the coordinator asks, it knows nothing.
GuardInv == exit = "stopping" => \A u \in Workers : ~Crawling(u)

\* The coordinator stops the proxy only when no worker has jobs left, for any
\* number of tasks, deaths and failed accesses: _can_stop_shared_proxysql.
THEOREM CrawlsKeepTheirProxy == TeardownSpec => NoStopUnderCrawl
<1> USE DEF GuardInv, Crawling
<1>1. TeardownInit => GuardInv
  BY DEF TeardownInit
<1>2. ASSUME GuardInv, TypeOK, ClaimInv, [TeardownNext]_allVars
      PROVE  GuardInv'
  <2> USE <1>2 DEF TypeOK, Workers
  <2>1. CASE AskGuard
    <3>1. row' = row /\ pc' = pc
      BY <2>1 DEF AskGuard, vars
    <3>2. exit' = "stopping" => Guard
      BY <2>1 DEF AskGuard
    <3> QED
      BY <3>1, <3>2 DEF Guard, ClaimInv, RowsOfCrawlers
  <2>2. ASSUME NEW t \in Tasks, TaskStep(t) PROVE GuardInv'
    <3>1. \A u \in Tasks : ~Crawling(u) => ~Crawling(u)'
      BY <2>2 DEF TaskStep, Step, FastExit, RecordTaskStart, SaveOutcome, CheckOthers,
         Verdict, ClaimAggregation, Aggregate, Reconcile, Retry
    <3> QED
      BY <2>2, <3>1 DEF TaskStep, proxyVars
  <2>3. ASSUME NEW t \in Tasks,
               TaskFailsToStart(t) \/ TaskDies(t) \/ (Abort(t) /\ UNCHANGED proxyVars)
        PROVE  GuardInv'
    BY <2>3 DEF TaskFailsToStart, TaskDies, StartupFails, Die, Abort, proxyVars
  <2>4. CASE Terminated \/ EnterFinally \/ StopProxy
    BY <2>4 DEF Terminated, EnterFinally, StopProxy
  <2>5. ASSUME NEW t \in Tasks, Healthy(t) PROVE GuardInv'
    BY <2>5 DEF Healthy, vars
  <2>6. CASE StartProxy \/ TeardownDone \/ UNCHANGED allVars
    BY <2>6 DEF StartProxy, TeardownDone, allVars, proxyVars, vars
  <2>7. CASE Tick /\ UNCHANGED proxyVars
    BY <2>7 DEF Tick, proxyVars
  <2> QED
    BY <2>1, <2>2, <2>3, <2>4, <2>5, <2>6, <2>7 DEF TeardownNext
<1>3. ASSUME GuardInv, [TeardownNext]_allVars, Stops
      PROVE  \A u \in Workers : pc[u] \notin {"idle", "crawling"}
  <2>1. StopProxy
    BY <1>3 DEF Stops, TeardownNext, StartProxy, Healthy, TaskStep, TaskFailsToStart,
       TaskDies, EnterFinally, Terminated, AskGuard, TeardownDone, allVars, proxyVars
  <2> QED
    BY <1>3, <2>1 DEF StopProxy
<1>4. TeardownSpec => [](TypeOK /\ ClaimInv)
  BY TeardownImplementsTaskArray, TypeCorrect, ClaimInvariant, PTL
<1>5. GuardInv /\ [TeardownNext]_allVars =>
        [Stops => \A u \in Workers : pc[u] \notin {"idle", "crawling"}]_allVars
  BY <1>3
<1> QED
  BY <1>1, <1>2, <1>4, <1>5, PTL DEF TeardownSpec, NoStopUnderCrawl
=============================================================================
