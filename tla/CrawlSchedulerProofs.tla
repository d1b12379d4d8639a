------------------------ MODULE CrawlSchedulerProofs ------------------------
(***************************************************************************)
(* The safety of the job loop for every list of jobs and every limit.      *)
(***************************************************************************)
EXTENDS CrawlScheduler, FiniteSetTheorems, TLAPS

\* What the state file holds is expanded in every step.
USE DEF file

-----------------------------------------------------------------------------
(* Types                                                                   *)

\* Any set of jobs is finite, so that its cardinality is a number.
LEMMA JobsFinite ==
  ASSUME NEW S, S \subseteq Jobs
  PROVE  IsFiniteSet(S) /\ Cardinality(S) \in Nat
<1>1. IsFiniteSet(Jobs)
  BY SchedulerAssumption, FS_Interval DEF Jobs
<1> QED BY <1>1, FS_Subset, FS_CardinalityType

\* Every step of the loop, of a signal and of a crawler keeps the types.
LEMMA StepType == TypeOK /\ [Next]_vars => TypeOK'
<1> SUFFICES ASSUME TypeOK, [Next]_vars PROVE TypeOK'
  OBVIOUS
<1> USE DEF TypeOK, ResultStatus
<1>1. CASE LoopEnds
  BY <1>1 DEF LoopEnds
<1>2. CASE Reap
  BY <1>2, SchedulerAssumption DEF Reap, Exited, Outcome, ReadFile
<1>3. CASE KillHungAndLate
  BY <1>3 DEF KillHungAndLate, Outcome, Kill, Running
<1>4. ASSUME NEW j \in Jobs, Spawn(j) PROVE TypeOK'
  BY <1>4 DEF Spawn
<1>5. ASSUME NEW j \in Jobs, SpawnFails(j) PROVE TypeOK'
  BY <1>5 DEF SpawnFails, Outcome
<1>6. CASE Register
  BY <1>6, SchedulerAssumption DEF Register, ReadFile
<1>7. CASE NothingToStart
  BY <1>7 DEF NothingToStart
<1>8. CASE Signal \/ DatabaseLost \/ LoopKilled
  BY <1>8 DEF Signal, DatabaseLost, Cleanup, LoopKilled, Kill, Running
<1>9. ASSUME NEW j \in Jobs, Exit(j) \/ FallSilent(j) \/ Resume(j) PROVE TypeOK'
  BY <1>9, SchedulerAssumption DEF Exit, FallSilent, Resume
<1>10. CASE UNCHANGED vars
  BY <1>10 DEF vars
<1>11. CASE WriteCount
  <2>1. Shown(active) \in Nat
    BY JobsFinite DEF Shown
  <2>2. lost' \in BOOLEAN /\ unread' \in BOOLEAN
    BY <1>11, Zenon DEF WriteCount
  <2>3. overload' \in 0 .. MaxOverloads /\ copied' \in 0 .. MaxOverloads
    BY <1>11, SchedulerAssumption DEF WriteCount, Rewritten
  <2> QED BY <1>11, <2>1, <2>2, <2>3 DEF WriteCount
<1>12. ASSUME NEW j \in Jobs, Overload(j) PROVE TypeOK'
  <2>1. Shown({}) \in Nat
    BY DEF Shown
  <2>2. lost' \in BOOLEAN /\ unread' \in BOOLEAN
    BY <1>12, Zenon DEF Overload
  <2>3. overload' \in 0 .. MaxOverloads
    BY <1>12, SchedulerAssumption DEF Overload
  <2> QED BY <1>12, <2>1, <2>2, <2>3 DEF Overload
<1> QED BY <1>1, <1>2, <1>3, <1>4, <1>5, <1>6, <1>7, <1>8, <1>9, <1>10, <1>11, <1>12
        DEF Next, Loop, Crawler

\* Type correctness of the job loop.
THEOREM TypeCorrect == Spec => []TypeOK
<1>1. Init => TypeOK
  <2>1. 0 \in 0 .. MaxOverloads /\ 1 \in Nat
    BY SchedulerAssumption
  <2> QED BY <2>1 DEF Init, TypeOK
<1> QED BY <1>1, StepType, PTL DEF Spec

-----------------------------------------------------------------------------
(* Where a job is                                                          *)

\* Only the registration phase has a job whose process is not yet active.
PlaceInv ==
  /\ EachJobInOnePlace
  /\ phase \notin {"register", "aborted"} => starting = {}

\* What Outcome records, and nothing else, is added to the recorded jobs.
LEMMA RecordedJobs ==
  ASSUME NEW S, NEW status, NEW R
  PROVE  {r.job : r \in R \cup Outcome(S, status)} = {r.job : r \in R} \cup S
<1>1. {r.job : r \in Outcome(S, status)} = S
  <2>1. \A r \in Outcome(S, status) : r.job \in S
    BY DEF Outcome
  <2>2. \A j \in S : [job |-> j, status |-> status] \in Outcome(S, status)
    BY DEF Outcome
  <2>3. \A j : [job |-> j, status |-> status].job = j
    OBVIOUS
  <2> HIDE DEF Outcome
  <2> QED BY <2>1, <2>2, <2>3
<1> QED BY <1>1

\* The jobs that a step moves to the results get exactly one result each.
LEMMA StepPlace == TypeOK /\ PlaceInv /\ [Next]_vars => PlaceInv'
<1> SUFFICES ASSUME TypeOK, PlaceInv, [Next]_vars PROVE PlaceInv'
  OBVIOUS
<1> USE DEF PlaceInv, EachJobInOnePlace, Recorded
<1>1. CASE LoopEnds
  BY <1>1 DEF LoopEnds
<1>2. CASE Reap
  <2>1. PICK good \in SUBSET {j \in Exited : proc[j] = "ok"} :
          results' = results \cup Outcome(good, "success")
                             \cup Outcome(Exited \ good, "failed")
    BY <1>2 DEF Reap
  <2>2. Recorded' = Recorded \cup Exited
    <3>1. Recorded' = Recorded \cup good \cup (Exited \ good)
      BY <2>1, RecordedJobs
    <3> QED BY <3>1
  <2>3. \A r, s \in results' : r.job = s.job => r = s
    BY <2>1 DEF Outcome, Exited
  <2> QED BY <1>2, <2>2, <2>3 DEF Reap, Exited
<1>3. CASE KillHungAndLate
  <2> DEFINE hung == IF HangWatch THEN active \cap silent ELSE {}
  <2>1. PICK late \in IF TimeoutOn THEN SUBSET (active \ hung) ELSE {{}} :
          /\ results' = results \cup Outcome(hung, "hung_timeout")
                                \cup Outcome(late, "timeout")
          /\ active' = active \ (hung \cup late)
    BY <1>3 DEF KillHungAndLate
  <2>2. hung \subseteq active /\ late \subseteq active /\ hung \cap late = {}
    OBVIOUS
  <2> HIDE DEF hung
  <2>3. Recorded' = Recorded \cup hung \cup late
    <3> DEFINE R == results \cup Outcome(hung, "hung_timeout")
    <3>1. {r.job : r \in R} = Recorded \cup hung
      BY RecordedJobs
    <3>2. {r.job : r \in R \cup Outcome(late, "timeout")} = {r.job : r \in R} \cup late
      BY RecordedJobs
    <3> QED BY <2>1, <3>1, <3>2
  <2>4. \A r, s \in results' : r.job = s.job => r = s
    BY <2>1, <2>2 DEF Outcome
  <2> QED BY <1>3, <2>1, <2>2, <2>3, <2>4 DEF KillHungAndLate
<1>4. ASSUME NEW j \in Jobs, Spawn(j) PROVE PlaceInv'
  BY <1>4 DEF Spawn, IsNext, Candidates, HasRoom
<1>5. ASSUME NEW j \in Jobs, SpawnFails(j) PROVE PlaceInv'
  <2>1. j \in queued
    BY <1>5 DEF SpawnFails, IsNext, Candidates
  <2>2. Recorded' = Recorded \cup {j}
    <3>1. results' = results \cup Outcome({j}, "error")
      BY <1>5 DEF SpawnFails
    <3>2. {r.job : r \in results \cup Outcome({j}, "error")} = Recorded \cup {j}
      BY RecordedJobs
    <3> QED BY <3>1, <3>2
  <2>3. \A r, s \in results' : r.job = s.job => r = s
    BY <1>5, <2>1 DEF SpawnFails, Outcome
  <2> HIDE DEF Recorded
  <2> QED BY <1>5, <2>1, <2>2, <2>3 DEF SpawnFails
<1>6. CASE Register
  BY <1>6 DEF Register
<1>7. CASE NothingToStart
  BY <1>7 DEF NothingToStart
<1>8. CASE Signal \/ DatabaseLost \/ LoopKilled
  BY <1>8 DEF Signal, DatabaseLost, Cleanup, LoopKilled
<1>9. ASSUME NEW j \in Jobs, Crawler(j) PROVE PlaceInv'
  BY <1>9 DEF Crawler, Exit, FallSilent, Resume, Overload
<1>10. CASE UNCHANGED vars
  BY <1>10 DEF vars
<1>11. CASE WriteCount
  BY <1>11 DEF WriteCount
<1> QED BY <1>1, <1>2, <1>3, <1>4, <1>5, <1>6, <1>7, <1>8, <1>9, <1>10, <1>11 DEF Next, Loop

\* At first every job waits.
LEMMA InitPlace == Init => PlaceInv
BY DEF Init, PlaceInv, EachJobInOnePlace, Recorded

\* No job is lost or recorded twice, whatever ends, hangs, times out or fails
\* to start in the loop.
THEOREM NoJobLost == Spec => []EachJobInOnePlace
<1>1. PlaceInv => EachJobInOnePlace
  BY DEF PlaceInv
<1> QED BY <1>1, InitPlace, StepPlace, TypeCorrect, PTL DEF Spec

-----------------------------------------------------------------------------
(* The limits                                                              *)

\* The jobs whose process the loop knows of or is about to.
Held == active \cup starting

Within(S) ==
  /\ Cardinality(S) <= Parallel
  /\ Cardinality({j \in S : Company[j] \in Browser}) <= BrowserParallel
  /\ \A c \in Companies : Cardinality({j \in S : Company[j] = c}) <= CompanyLimit[c]

\* Until somebody stops the loop the processes that run are held ones, and the
\* limits hold for all held ones: those that have ended and wait to be reaped
\* count too.
LimitInv ==
  /\ Within(Running)
  /\ phase \notin {"aborted", "killed"} => Running \subseteq Held /\ Within(Held)

\* Fewer jobs stay within the limits.
LEMMA WithinSubset ==
  ASSUME NEW S, NEW R, S \subseteq Jobs, R \subseteq S, Within(S)
  PROVE  Within(R)
<1>1. \A A, B : A \subseteq B /\ B \subseteq Jobs
                  => Cardinality(A) \in Nat /\ Cardinality(B) \in Nat
                     /\ Cardinality(A) <= Cardinality(B)
  BY JobsFinite, FS_Subset
<1>2. Cardinality(R) <= Parallel
  BY <1>1, SchedulerAssumption DEF Within
<1>3. Cardinality({j \in R : Company[j] \in Browser}) <= BrowserParallel
  <2>1. {j \in R : Company[j] \in Browser} \subseteq {j \in S : Company[j] \in Browser}
    OBVIOUS
  <2> QED BY <1>1, <2>1, SchedulerAssumption DEF Within
<1>4. ASSUME NEW c \in Companies
      PROVE  Cardinality({j \in R : Company[j] = c}) <= CompanyLimit[c]
  <2> DEFINE A == {j \in R : Company[j] = c}
             B == {j \in S : Company[j] = c}
  <2>1. A \subseteq B /\ B \subseteq Jobs
    OBVIOUS
  <2>2. CompanyLimit[c] \in Nat /\ Cardinality(B) <= CompanyLimit[c]
    BY SchedulerAssumption DEF Within
  <2> HIDE DEF A, B
  <2>3. Cardinality(A) <= CompanyLimit[c]
    BY <1>1, <2>1, <2>2
  <2> QED BY <2>3 DEF A
<1> QED BY <1>2, <1>3, <1>4 DEF Within

\* select_next_job's conditions are those that keep one more job within them.
LEMMA WithinOneMore ==
  ASSUME NEW S, S \subseteq Jobs, NEW j \in Jobs, j \notin S, Within(S),
         Cardinality(S) < Parallel,
         Company[j] \in Browser =>
           Cardinality({k \in S : Company[k] \in Browser}) < BrowserParallel,
         Cardinality({k \in S : Company[k] = Company[j]}) < CompanyLimit[Company[j]]
  PROVE  Within(S \cup {j})
<1>1. \A A : A \subseteq S => /\ Cardinality(A) \in Nat
                              /\ Cardinality(A \cup {j}) = Cardinality(A) + 1
  BY JobsFinite, FS_AddElement
<1>2. Cardinality(S \cup {j}) <= Parallel
  BY <1>1, SchedulerAssumption
<1>3. Cardinality({k \in S \cup {j} : Company[k] \in Browser}) <= BrowserParallel
  <2> DEFINE B == {k \in S : Company[k] \in Browser}
  <2>1. CASE Company[j] \in Browser
    <3>1. {k \in S \cup {j} : Company[k] \in Browser} = B \cup {j}
      BY <2>1
    <3>2. Cardinality(B) < BrowserParallel
      BY <2>1
    <3>3. Cardinality(B) \in Nat /\ Cardinality(B \cup {j}) = Cardinality(B) + 1
      BY <1>1
    <3> HIDE DEF B
    <3> QED BY <3>1, <3>2, <3>3, SchedulerAssumption
  <2>2. CASE Company[j] \notin Browser
    <3>1. {k \in S \cup {j} : Company[k] \in Browser} = B
      BY <2>2
    <3> QED BY <3>1 DEF Within
  <2> QED BY <2>1, <2>2
<1>4. ASSUME NEW c \in Companies
      PROVE  Cardinality({k \in S \cup {j} : Company[k] = c}) <= CompanyLimit[c]
  <2> DEFINE C == {k \in S : Company[k] = c}
  <2>0. CompanyLimit[c] \in Nat
    BY SchedulerAssumption
  <2>1. CASE Company[j] = c
    <3>1. {k \in S \cup {j} : Company[k] = c} = C \cup {j}
      BY <2>1
    <3>2. Cardinality(C) < CompanyLimit[c]
      BY <2>1
    <3>3. Cardinality(C) \in Nat /\ Cardinality(C \cup {j}) = Cardinality(C) + 1
      BY <1>1
    <3>4. Cardinality(C \cup {j}) <= CompanyLimit[c]
      <4> HIDE DEF C
      <4> QED BY <2>0, <3>2, <3>3
    <3> QED BY <3>1, <3>4
  <2>2. CASE Company[j] # c
    <3>1. {k \in S \cup {j} : Company[k] = c} = C
      BY <2>2
    <3> QED BY <3>1 DEF Within
  <2> QED BY <2>1, <2>2
<1> QED BY <1>2, <1>3, <1>4 DEF Within

\* Every step keeps the running processes among the held ones, and those
\* within the limits.
LEMMA StepLimit == TypeOK /\ PlaceInv /\ LimitInv /\ [Next]_vars => LimitInv'
<1> SUFFICES ASSUME TypeOK, PlaceInv, LimitInv, [Next]_vars PROVE LimitInv'
  OBVIOUS
<1>0. CASE phase' \in {"aborted", "killed"}
  <2>1. Running' \subseteq Running
    BY <1>0 DEF Next, Loop, LoopEnds, Reap, KillHungAndLate, Spawn, SpawnFails, Register,
         WriteCount, NothingToStart, Signal, DatabaseLost, Cleanup, LoopKilled, Kill, vars,
         Crawler, Exit, FallSilent, Resume, Overload, Running, TypeOK
  <2>2. Running \subseteq Jobs /\ Within(Running)
    BY DEF Running, LimitInv
  <2> QED BY <1>0, <2>1, <2>2, WithinSubset DEF LimitInv
<1> SUFFICES ASSUME phase' \notin {"aborted", "killed"}
             PROVE  Running' \subseteq Held' /\ Within(Held')
  <2>1. Held' \subseteq Jobs
    BY StepType DEF Held, TypeOK
  <2> QED BY <1>0, <2>1, WithinSubset DEF LimitInv
<1>a. phase \notin {"aborted", "killed"}
  BY DEF Next, Loop, LoopEnds, Reap, KillHungAndLate, Spawn, SpawnFails, Register,
         WriteCount, NothingToStart, Signal, DatabaseLost, Cleanup, LoopKilled, Over, vars,
         Crawler, Exit, FallSilent, Resume, Overload
<1>b. /\ Running \subseteq Held /\ Within(Held)
      /\ Held \subseteq Jobs
      /\ phase # "register" => starting = {}
  BY <1>a DEF LimitInv, PlaceInv, Held, TypeOK
<1>1. CASE LoopEnds
  BY <1>1, <1>b DEF LoopEnds, Held, Running
<1>2. CASE Reap
  <2>1. Held' \subseteq Held /\ Running' \subseteq Held'
    BY <1>2, <1>b DEF Reap, Exited, Held, Running
  <2> QED BY <1>b, <2>1, WithinSubset
<1>3. CASE KillHungAndLate
  <2>1. PICK S \in SUBSET active : active' = active \ S /\ Kill(S)
    BY <1>3 DEF KillHungAndLate
  <2>2. Held' \subseteq Held
    BY <1>3, <2>1 DEF KillHungAndLate, Held
  <2>3. Running' = Running \ S
    BY <2>1 DEF Kill, Running
  <2>4. Running' \subseteq Held'
    BY <1>3, <1>b, <2>1, <2>3 DEF KillHungAndLate, Held
  <2> QED BY <1>b, <2>2, <2>4, WithinSubset
<1>4. ASSUME NEW j \in Jobs, Spawn(j) PROVE Running' \subseteq Held' /\ Within(Held')
  <2>1. /\ j \in queued /\ HasRoom(j) /\ Cardinality(active) < Parallel
        /\ starting = {} /\ Held = active
    BY <1>4, <1>b DEF Spawn, IsNext, Candidates, Held
  <2>2. j \notin active
    BY <2>1 DEF PlaceInv, EachJobInOnePlace
  <2>3. Held' = active \cup {j}
    BY <1>4 DEF Spawn, Held
  <2>4. Running' \subseteq Running \cup {j}
    BY <1>4 DEF Spawn, Running, TypeOK
  <2>5. Within(active \cup {j})
    BY <1>b, <2>1, <2>2, WithinOneMore DEF HasRoom, ActiveOf, ActiveBrowsers
  <2> QED BY <1>b, <2>1, <2>3, <2>4, <2>5
<1>5. ASSUME NEW j \in Jobs, SpawnFails(j) PROVE Running' \subseteq Held' /\ Within(Held')
  BY <1>5, <1>b DEF SpawnFails, Held, Running
<1>6. CASE Register
  <2>1. Held' = Held /\ Running' = Running
    BY <1>6 DEF Register, Held, Running
  <2> QED BY <1>b, <2>1
<1>7. CASE NothingToStart
  BY <1>7, <1>b DEF NothingToStart, Held, Running
<1>9. ASSUME NEW j \in Jobs, Crawler(j) PROVE Running' \subseteq Held' /\ Within(Held')
  <2>1. Held' = Held /\ Running' \subseteq Running
    BY <1>9 DEF Crawler, Exit, FallSilent, Resume, Overload, Held, Running, TypeOK
  <2> QED BY <1>b, <2>1
<1>10. CASE UNCHANGED vars
  BY <1>10, <1>b DEF vars, Held, Running
<1>11. CASE Signal \/ DatabaseLost \/ LoopKilled
  BY <1>11 DEF Signal, DatabaseLost, Cleanup, LoopKilled
<1>12. CASE WriteCount
  BY <1>12, <1>b DEF WriteCount, Held, Running
<1> QED BY <1>1, <1>2, <1>3, <1>4, <1>5, <1>6, <1>7, <1>9, <1>10, <1>11, <1>12 DEF Next, Loop

\* At first nothing runs.
LEMMA InitLimit == Init => LimitInv
<1> SUFFICES ASSUME Init PROVE LimitInv
  OBVIOUS
<1>1. Held = {} /\ Running = {}
  BY DEF Init, Held, Running
<1>2. Cardinality({}) = 0
  BY FS_EmptySet
<1>3. Within({})
  <2>2. {j \in {} : Company[j] \in Browser} = {}
    OBVIOUS
  <2>3. \A c \in Companies : {j \in {} : Company[j] = c} = {}
    OBVIOUS
  <2> QED BY <1>2, <2>2, <2>3, SchedulerAssumption DEF Within
<1> QED BY <1>1, <1>3 DEF LimitInv

\* The three limits hold of the processes that really run, for every number of
\* jobs, every assignment to companies and all limits.
THEOREM LimitsHold == Spec => []WithinLimits
<1>1. LimitInv => WithinLimits
  BY DEF LimitInv, WithinLimits, Within
<1> QED BY <1>1, InitPlace, StepPlace, InitLimit, StepLimit, TypeCorrect, PTL DEF Spec

\* A loop that came to its normal end has a result for each job and has left
\* no crawler running.
THEOREM NothingLeft == Spec => []EndsWithNothingLeft
<1> DEFINE EndInv == phase = "ended" => queued = {} /\ active = {}
<1>1. Init => EndInv
  BY DEF Init
<1>2. EndInv /\ [Next]_vars => EndInv'
  BY DEF Next, Loop, LoopEnds, Reap, KillHungAndLate, Spawn, SpawnFails, Register,
         WriteCount, NothingToStart, Signal, DatabaseLost, Cleanup, LoopKilled, Crawler,
         Exit, FallSilent, Resume, Overload, vars
<1>3. EndInv /\ PlaceInv /\ LimitInv => EndsWithNothingLeft
  BY DEF PlaceInv, EachJobInOnePlace, LimitInv, Held, EndsWithNothingLeft
<1> QED BY <1>1, <1>2, <1>3, InitPlace, StepPlace, InitLimit, StepLimit, TypeCorrect, PTL DEF Spec

-----------------------------------------------------------------------------
(* What a signal leaves behind, and what the crawlers read                  *)

\* After a cleanup only a job that was being started may run.
OrphanInv == phase = "aborted" => Running \subseteq starting

\* The cleanup kills all that is active, and then processes only end.
LEMMA StepOrphan == TypeOK /\ LimitInv /\ OrphanInv /\ [Next]_vars => OrphanInv'
<1> SUFFICES ASSUME TypeOK, LimitInv, OrphanInv, [Next]_vars PROVE OrphanInv'
  OBVIOUS
<1> USE DEF OrphanInv
<1>1. CASE Signal \/ DatabaseLost
  BY <1>1 DEF Signal, DatabaseLost, Cleanup, Over, Kill, Running, LimitInv, Held
<1>2. ASSUME NEW j \in Jobs, Crawler(j) PROVE OrphanInv'
  BY <1>2 DEF Crawler, Exit, FallSilent, Resume, Overload, Running, TypeOK
<1>3. CASE UNCHANGED vars
  BY <1>3 DEF vars, Running
<1>4. CASE Loop
  BY <1>4 DEF Loop, LoopEnds, Reap, KillHungAndLate, Spawn, SpawnFails, Register,
              WriteCount, NothingToStart
<1>5. CASE LoopKilled
  BY <1>5 DEF LoopKilled
<1> QED BY <1>1, <1>2, <1>3, <1>4, <1>5 DEF Next

\* A parent that has ended by itself or has handled what stopped it leaves at
\* most the crawler that was being started: cleanup_active_process of
\* run_all_crawlers misses no other.  A parent that is killed does not run it.
THEOREM OrphansWereStarting == Spec => []HandledExitLeavesOnlyAStartingOne
<1>1. Init => OrphanInv
  BY DEF Init, OrphanInv
<1>2. OrphanInv /\ EndsWithNothingLeft => HandledExitLeavesOnlyAStartingOne
  BY DEF OrphanInv, EndsWithNothingLeft, HandledExitLeavesOnlyAStartingOne
<1> QED BY <1>1, <1>2, InitLimit, StepLimit, InitPlace, StepPlace, StepOrphan,
           TypeCorrect, NothingLeft, PTL DEF Spec

\* The number shown is one of active jobs, or of more than there are now,
\* unless a job was added and the new number is not written.
ShownInv ==
  /\ shown >= 1
  /\ phase # "registered" /\ ~lost => Cardinality(active) <= shown
  /\ \E j : starting \subseteq {j}

\* At first nothing is active, and readers without a file count one job.
LEMMA InitShown == Init => ShownInv
BY FS_EmptySet DEF Init, ShownInv

\* Starting and ending jobs are counted anew, kills only lower the number.
LEMMA StepShown == TypeOK /\ ShownInv /\ [Next]_vars => ShownInv'
<1> SUFFICES ASSUME TypeOK, ShownInv, [Next]_vars PROVE ShownInv'
  OBVIOUS
<1> USE DEF ShownInv, TypeOK
<1>a. \A S : S \subseteq Jobs => Shown(S) \in Nat /\ Shown(S) >= 1 /\ Cardinality(S) <= Shown(S)
  <2> SUFFICES ASSUME NEW S, S \subseteq Jobs
               PROVE  Shown(S) \in Nat /\ Shown(S) >= 1 /\ Cardinality(S) <= Shown(S)
    OBVIOUS
  <2>1. IsFiniteSet(S) /\ Cardinality(S) \in Nat /\ (Cardinality(S) = 0 <=> S = {})
    BY JobsFinite, FS_EmptySet
  <2> QED BY <2>1 DEF Shown
<1>b. ASSUME NEW S, S \subseteq active, phase # "registered", ~lost
      PROVE  Cardinality(S) <= shown
  <2>1. /\ Cardinality(S) \in Nat /\ Cardinality(active) \in Nat
        /\ Cardinality(S) <= Cardinality(active)
    BY <1>b, JobsFinite, FS_Subset
  <2>2. Cardinality(active) <= shown
    BY <1>b
  <2> QED BY <2>1, <2>2
<1>1. CASE Reap
  BY <1>1, <1>b DEF Reap, Exited
<1>2. CASE KillHungAndLate
  <2>1. active' \subseteq active /\ UNCHANGED <<shown, lost, starting>> /\ phase = "watch"
    BY <1>2 DEF KillHungAndLate
  <2> QED BY <2>1, <1>b
<1>3. CASE Register
  BY <1>3 DEF Register
<1>4. CASE Signal \/ DatabaseLost \/ LoopKilled
  <2>1. active' = {} /\ starting' \subseteq starting /\ UNCHANGED shown
    BY <1>4 DEF Signal, DatabaseLost, Cleanup, LoopKilled
  <2> QED BY <2>1, FS_EmptySet
<1>5. CASE LoopEnds \/ NothingToStart \/ \E j \in Jobs : Spawn(j) \/ SpawnFails(j)
  BY <1>5 DEF LoopEnds, NothingToStart, Spawn, SpawnFails
<1>6. CASE (\E j \in Jobs : Exit(j) \/ FallSilent(j) \/ Resume(j)) \/ UNCHANGED vars
  BY <1>6 DEF Exit, FallSilent, Resume, vars
<1>7. CASE WriteCount
  BY <1>7, <1>a DEF WriteCount
<1>8. ASSUME NEW j \in Jobs, Overload(j) PROVE ShownInv'
  <2>1. /\ shown' = shown \/ (shown' = Shown({}) /\ (shown' # shown => lost'))
        /\ ~lost' => ~lost
        /\ UNCHANGED <<phase, starting, active>>
    BY <1>8 DEF Overload
  <2>2. Shown({}) >= 1
    BY <1>a
  <2> QED BY <2>1, <2>2
<1> QED BY <1>1, <1>2, <1>3, <1>4, <1>5, <1>6, <1>7, <1>8 DEF Next, Loop, Crawler

\* While the writes of set_active_jobs_count succeed, no overload is written over
\* an unreadable file and the loop itself is not killed, the crawlers never
\* divide by less than the number of crawlers that run, however starts, ends,
\* kills and signals interleave.
THEOREM ShownSuffices == Spec => []ShownCoversTheRunning
<1>1. TypeOK /\ PlaceInv /\ LimitInv /\ OrphanInv /\ ShownInv => ShownCoversTheRunning
  <2> SUFFICES ASSUME TypeOK, PlaceInv, LimitInv, OrphanInv, ShownInv, ~lost,
                      phase \notin {"register", "registered", "killed"}
               PROVE  Cardinality(Running) <= shown
    BY DEF ShownCoversTheRunning
  <2>1. CASE phase = "aborted"
    <3>1. PICK j : starting \subseteq {j}
      BY DEF ShownInv
    <3>2. Running \subseteq {j} /\ IsFiniteSet({j}) /\ Cardinality({j}) = 1
      BY <2>1, <3>1, FS_Singleton DEF OrphanInv
    <3>3. Cardinality(Running) \in Nat /\ Cardinality(Running) <= 1
      BY <3>2, FS_Subset, FS_CardinalityType
    <3> QED BY <3>3 DEF ShownInv, TypeOK
  <2>2. CASE phase # "aborted"
    <3>1. Running \subseteq active
      BY <2>2 DEF LimitInv, Held, PlaceInv
    <3>2. Cardinality(Running) \in Nat /\ Cardinality(active) \in Nat
          /\ Cardinality(Running) <= Cardinality(active)
      BY <3>1, JobsFinite, FS_Subset DEF TypeOK
    <3> QED BY <3>2 DEF ShownInv, TypeOK
  <2> QED BY <2>1, <2>2
<1>2. Init => OrphanInv
  BY DEF Init, OrphanInv
<1> QED BY <1>1, <1>2, InitPlace, StepPlace, InitLimit, StepLimit, StepOrphan, InitShown,
           StepShown, TypeCorrect, PTL DEF Spec

\* An overload noted by record_db_overload is forgotten only by a write of the
\* loop that cannot read the file and whose own copy has none, though every such
\* write puts back what was read before.
THEOREM OverloadKept == Spec => ReadableOverloadIsKept
<1>1. TypeOK /\ [Next]_vars => (overload # 0 /\ overload' = 0 => unread' /\ copied = 0)
  <2> SUFFICES ASSUME TypeOK, [Next]_vars, overload # 0, overload' = 0
               PROVE  unread' /\ copied = 0
    OBVIOUS
  <2>1. CASE WriteCount
    <3>1. overload' = Rewritten(copied, overload)
      BY <2>1 DEF WriteCount
    <3> QED BY <3>1 DEF Rewritten
  <2>2. ASSUME NEW j \in Jobs, Overload(j) PROVE FALSE
    BY <2>2, SchedulerAssumption DEF Overload, TypeOK
  <2>3. CASE overload' = overload
    BY <2>3
  <2> QED BY <2>1, <2>2, <2>3 DEF Next, Loop, LoopEnds, Reap, KillHungAndLate, Spawn, SpawnFails,
         Register, NothingToStart, Signal, DatabaseLost, Cleanup, LoopKilled, Crawler, Exit,
         FallSilent, Resume, vars
<1> QED BY <1>1, TypeCorrect, PTL DEF Spec, ReadableOverloadIsKept

-----------------------------------------------------------------------------
(* The queue is not held back for nothing                                   *)

\* The process of this job has been started and was not killed: poll() reports
\* its end, now or once it has ended.
Reapable(j) == proc[j] \in {"running", "ok", "bad"}

\* The loop only sleeps with jobs in the queue while one is active whose end it
\* will find, which makes room again: nobody is kept among the active whose
\* process is gone without being reported.  With a browser limit of 0, which
\* resource_limiter.py accepts, browser jobs wait for ever.
SleepsForAProcess ==
  BrowserParallel # 0 /\ phase = "launch" /\ queued # {} /\ Candidates = {} =>
    \E j \in active : Reapable(j)

\* A job that holds room has a process whose end will be found.
HeldInv == \A j \in Held : Reapable(j)

\* What is killed is taken out of the active ones in the same step.
LEMMA StepHeld == TypeOK /\ PlaceInv /\ HeldInv /\ [Next]_vars => HeldInv'
<1> SUFFICES ASSUME TypeOK, PlaceInv, HeldInv, [Next]_vars PROVE HeldInv'
  OBVIOUS
<1> USE DEF HeldInv, Held, Reapable
<1>1. CASE Reap \/ LoopEnds \/ NothingToStart \/ Register \/ WriteCount
  BY <1>1 DEF Reap, LoopEnds, NothingToStart, Register, WriteCount
<1>2. CASE KillHungAndLate
  <2>1. PICK S \in SUBSET active : active' = active \ S /\ Kill(S)
    BY <1>2 DEF KillHungAndLate
  <2>2. starting' = starting /\ starting \cap active = {}
    BY <1>2 DEF KillHungAndLate, PlaceInv, EachJobInOnePlace
  <2> QED BY <2>1, <2>2 DEF Kill, Running, TypeOK
<1>3. ASSUME NEW j \in Jobs, Spawn(j) \/ SpawnFails(j) PROVE HeldInv'
  BY <1>3 DEF Spawn, SpawnFails, TypeOK
<1>4. CASE Signal \/ DatabaseLost
  <2>1. active' = {} /\ starting' = starting /\ Kill(active) /\ starting \cap active = {}
    BY <1>4 DEF Signal, DatabaseLost, Cleanup, PlaceInv, EachJobInOnePlace
  <2> QED BY <2>1 DEF Kill, Running, TypeOK
<1>5. ASSUME NEW j \in Jobs, Crawler(j) PROVE HeldInv'
  BY <1>5 DEF Crawler, Exit, FallSilent, Resume, Overload, TypeOK
<1>6. CASE UNCHANGED vars
  BY <1>6 DEF vars
<1>7. CASE LoopKilled
  BY <1>7 DEF LoopKilled
<1> QED BY <1>1, <1>2, <1>3, <1>4, <1>5, <1>6, <1>7 DEF Next, Loop

\* With nothing active each limit has room, so that whatever is queued may start.
LEMMA RoomWhenIdle ==
  ASSUME TypeOK, active = {}, BrowserParallel # 0, NEW j \in queued
  PROVE  j \in Candidates
<1>1. Cardinality({}) = 0
  BY FS_EmptySet
<1>2. ActiveBrowsers = {} /\ ActiveOf(Company[j]) = {}
  BY DEF ActiveBrowsers, ActiveOf
<1>3. /\ 0 < Parallel /\ 0 < BrowserParallel /\ 0 < CompanyLimit[Company[j]]
  BY SchedulerAssumption DEF TypeOK
<1> QED BY <1>1, <1>2, <1>3 DEF Candidates, HasRoom

\* The loop never sleeps over a queue that nothing will move: of the limits, the
\* kills and the failed starts none leaves a job that holds room without an end.
THEOREM QueueIsNotHeldForNothing == Spec => []SleepsForAProcess
<1>1. Init => HeldInv
  BY DEF Init, HeldInv, Held
<1>2. TypeOK /\ HeldInv => SleepsForAProcess
  <2> SUFFICES ASSUME TypeOK, HeldInv, BrowserParallel # 0, queued # {}, Candidates = {}
               PROVE  \E j \in active : Reapable(j)
    BY DEF SleepsForAProcess
  <2>1. active # {}
    BY RoomWhenIdle
  <2> QED BY <2>1 DEF HeldInv, Held
<1> QED BY <1>1, <1>2, StepHeld, InitPlace, StepPlace, TypeCorrect, PTL DEF Spec
=============================================================================
