------------------------ MODULE FireAndForgetProofs ------------------------
(***************************************************************************)
(* The pool and its waits, for every number of roots, tasks and workers.   *)
(***************************************************************************)
EXTENDS FireAndForget, FiniteSetTheorems, WellFoundedInduction, TLAPS

-----------------------------------------------------------------------------
(* Types                                                                   *)

\* Handing on a crawl keeps the types.
LEMMA DispatchType ==
  ASSUME TypeOK, NEW t \in Tasks, Dispatch(t) \/ Submit(t) \/ Track(t)
  PROVE  TypeOK'
<1> USE DEF TypeOK, Accepted, Refused
<1>1. CASE Dispatch(t)
  <2>1. made' \in Nat /\ made <= made' /\ executor' \in 0 .. made'
    BY <1>1 DEF Dispatch
  <2>2. exe' \in [Tasks -> 0 .. made']
    BY <1>1, <2>1 DEF Dispatch
  <2>3. shut' \subseteq 1 .. made'
    BY <1>1, <2>1 DEF Dispatch
  <2>4. tracked' \subseteq {u \in Tasks : st'[u] \in Accepted}
    BY <1>1 DEF Dispatch
  <2> QED BY <1>1, <2>1, <2>2, <2>3, <2>4 DEF Dispatch
<1>2. CASE Submit(t)
  BY <1>2 DEF Submit
<1>3. CASE Track(t)
  BY <1>3 DEF Track, Registered
<1> QED BY <1>1, <1>2, <1>3

\* So do the workers.
LEMMA WorkerType ==
  ASSUME TypeOK, NEW t \in Tasks, Start(t) \/ Finish(t)
  PROVE  TypeOK'
BY DEF TypeOK, Accepted, Refused, Start, Finish

\* And the waits: an end of a wait only cancels what no worker has taken.
LEMMA WaitType ==
  ASSUME TypeOK, NEW r \in Roots, EndCrawl(r) \/ Expire(r) \/ Leave(r)
  PROVE  TypeOK'
<1> USE DEF TypeOK, Accepted, Refused, Waits, Ended, MoveTo, pool
<1>1. CASE EndCrawl(r) \/ Expire(r) \/ LeaveOnStop(r) \/ NothingToCancel(r)
  BY <1>1 DEF EndCrawl, Expire, LeaveOnStop, NothingToCancel
<1>2. CASE Poll(r)
  <2>1. idle[r] \in Nat /\ idle[r] + 1 \in 0 .. IdlePolls
    BY <1>2, FireAndForgetAssumption DEF Poll
  <2>2. CASE Alive # {}
    BY <1>2, <2>2, FireAndForgetAssumption DEF Poll
  <2>3. CASE Alive = {}
    BY <1>2, <2>1, <2>3, FireAndForgetAssumption DEF Poll
  <2> QED BY <2>2, <2>3
<1>3. CASE CancelUnstarted(r)
  BY <1>3 DEF CancelUnstarted
<1>4. CASE LookForExecutor(r)
  BY <1>4 DEF LookForExecutor
<1>5. CASE Drop(r)
  BY <1>5 DEF Drop
<1>6. CASE Check(r)
  BY <1>6 DEF Check
<1>7. CASE Close(r)
  BY <1>7 DEF Close
<1> QED BY <1>1, <1>2, <1>3, <1>4, <1>5, <1>6, <1>7 DEF Leave

\* Type correctness of the pool.
THEOREM TypeCorrect == Spec => []TypeOK
<1>1. Init => TypeOK
  <2> SUFFICES ASSUME Init PROVE TypeOK
    OBVIOUS
  <2>1. 0 \in 0 .. IdlePolls /\ 0 < IdlePolls
    BY FireAndForgetAssumption
  <2>2. idle \in [Roots -> 0 .. IdlePolls] /\ \A r \in Roots : idle[r] < IdlePolls
    BY <2>1 DEF Init
  <2>3. made \in Nat /\ executor \in 0 .. made /\ exe \in [Tasks -> 0 .. made]
    BY DEF Init
  <2> QED BY <2>2, <2>3 DEF Init, TypeOK
<1>2. TypeOK /\ [Next]_vars => TypeOK'
  <2> SUFFICES ASSUME TypeOK, [Next]_vars PROVE TypeOK'
    OBVIOUS
  <2>1. CASE UNCHANGED vars
    BY <2>1 DEF vars, TypeOK, Accepted
  <2>2. CASE SetStop \/ ClearStop
    BY <2>2 DEF SetStop, ClearStop, TypeOK, Accepted, pool
  <2> QED BY <2>1, <2>2, DispatchType, WorkerType, WaitType DEF Next, Done
<1> QED BY <1>1, <1>2, PTL DEF Spec

-----------------------------------------------------------------------------
(* A main() that ends in order leaves nothing behind                       *)

Unsettled == Accepted \cup {"got"}

\* An accepted task is registered, or about to be by a caller that still crawls;
\* so whatever is unsettled has a crawling caller or is in the registry.
RegistryInv ==
  \A t \in Tasks :
    /\ st[t] \in Accepted => t \in tracked \cup toTrack
    /\ st[t] = "got" \/ t \in toTrack => Crawls(Parent[t])

\* The invariant behind EndedMeansSettled.
SettledInv ==
  /\ stop => "stop" \in hurry
  /\ \A r \in Roots : phase[r] = "ended" /\ "stop" \notin hurry =>
       \A t \in Under(r) : st[t] \notin Unsettled

\* Callers are tasks and roots, and not both.
LEMMA Callers ==
  ASSUME NEW t \in Tasks
  PROVE  /\ Parent[t] \in Roots \/ (Parent[t] \in Tasks /\ Parent[t] \notin Roots)
         /\ t \notin Roots /\ RootOf[t] \in Roots
BY FireAndForgetAssumption

\* Handing on a crawl keeps the registry complete.
LEMMA DispatchRegistry ==
  ASSUME TypeOK, RegistryInv, NEW t \in Tasks, Dispatch(t) \/ Submit(t) \/ Track(t)
  PROVE  RegistryInv'
<1> USE DEF TypeOK, Accepted, Refused, RegistryInv, Crawls
<1>1. CASE Dispatch(t)
  BY <1>1, Callers DEF Dispatch
<1>2. CASE Submit(t)
  BY <1>2, Callers DEF Submit
<1>3. CASE Track(t)
  BY <1>3, Callers DEF Track, Registered
<1> QED BY <1>1, <1>2, <1>3

\* So do the workers: a crawl ends when it has nothing in its hands.
LEMMA WorkerRegistry ==
  ASSUME TypeOK, RegistryInv, NEW t \in Tasks, Start(t) \/ Finish(t)
  PROVE  RegistryInv'
<1> USE DEF TypeOK, Accepted, Refused, RegistryInv, Crawls
<1>1. CASE Start(t)
  BY <1>1, Callers DEF Start
<1>2. CASE Finish(t)
  BY <1>2, Callers DEF Finish, Busy
<1> QED BY <1>1, <1>2

\* And the waits.
LEMMA WaitRegistry ==
  ASSUME TypeOK, RegistryInv, NEW r \in Roots, EndCrawl(r) \/ Expire(r) \/ Leave(r)
  PROVE  RegistryInv'
<1> USE DEF TypeOK, Accepted, Refused, RegistryInv, Crawls, pool, MoveTo
<1>1. CASE EndCrawl(r)
  BY <1>1, Callers DEF EndCrawl, Busy
<1>2. CASE Expire(r) \/ Poll(r) \/ LeaveOnStop(r) \/ NothingToCancel(r)
  BY <1>2, Callers DEF Expire, Poll, LeaveOnStop, NothingToCancel
<1>3. CASE CancelUnstarted(r)
  BY <1>3, Callers DEF CancelUnstarted, MustCancel
<1>4. CASE LookForExecutor(r) \/ Drop(r) \/ Check(r)
  BY <1>4, Callers DEF LookForExecutor, Drop, Check
<1>5. CASE Close(r)
  BY <1>5, Callers DEF Close, MayClose
<1> QED BY <1>1, <1>2, <1>3, <1>4, <1>5 DEF Leave

\* No step of a task or a root breaks either invariant.
LEMMA RegistryStep ==
  ASSUME TypeOK, RegistryInv, [Next]_vars
  PROVE  RegistryInv'
<1>1. CASE UNCHANGED vars
  BY <1>1 DEF vars, RegistryInv, Crawls
<1>2. CASE SetStop \/ ClearStop
  BY <1>2 DEF SetStop, ClearStop, RegistryInv, Crawls, pool
<1> QED BY <1>1, <1>2, DispatchRegistry, WorkerRegistry, WaitRegistry DEF Next, Done

\* Which task hands on which: no crawl is handed on by what it hands on.
HandsOn == {<<Parent[t], t>> : t \in {u \in Tasks : Parent[u] \in Tasks}}

\* When the registry is empty, a root that no longer crawls has nothing left
\* under it: the outermost unsettled task would have no caller.
LEMMA EmptyRegistry ==
  ASSUME IsWellFoundedOn(HandsOn, Tasks), RegistryInv, tracked = {},
         NEW r \in Roots, phase[r] # "crawling"
  PROVE  \A t \in Under(r) : st[t] \notin Unsettled
<1> DEFINE U == {t \in Under(r) : st[t] \in Unsettled \/ t \in toTrack}
<1> SUFFICES U = {}
  OBVIOUS
<1> SUFFICES ASSUME U # {} PROVE FALSE
  OBVIOUS
<1>1. U \subseteq Tasks
  BY DEF Under
<1>2. PICK t \in U : \A u \in U : ~ (<<u, t>> \in HandsOn)
  <2> HIDE DEF U
  <2> QED BY <1>1, WFMin
<1>3. t \in Tasks /\ RootOf[t] = r
  BY DEF Under
<1>4. st[t] = "got" \/ t \in toTrack
  BY <1>2, <1>3 DEF RegistryInv, Unsettled
<1>5. Crawls(Parent[t])
  BY <1>3, <1>4 DEF RegistryInv
<1>6. Parent[t] \notin Roots
  BY <1>3, <1>5, FireAndForgetAssumption DEF Crawls
<1>7. Parent[t] \in Tasks /\ RootOf[Parent[t]] = r /\ st[Parent[t]] = "running"
  BY <1>3, <1>5, <1>6, FireAndForgetAssumption DEF Crawls
<1>8. Parent[t] \in U /\ <<Parent[t], t>> \in HandsOn
  BY <1>3, <1>7 DEF Under, Unsettled, Accepted, HandsOn
<1> QED BY <1>2, <1>8

\* Once nothing is left under a root that has ended, nothing comes back.
LEMMA SettledStep ==
  ASSUME IsWellFoundedOn(HandsOn, Tasks), TypeOK, RegistryInv, SettledInv, [Next]_vars
  PROVE  SettledInv'
<1> USE DEF SettledInv, Under, Unsettled, Accepted, Refused, pool, MoveTo
<1>1. CASE UNCHANGED vars
  BY <1>1 DEF vars
<1>2. CASE SetStop \/ ClearStop
  BY <1>2 DEF SetStop, ClearStop
<1>3. ASSUME NEW t \in Tasks, Dispatch(t) PROVE SettledInv'
  <2>1. PICK r \in Roots : RootOf[t] = r
    BY Callers
  <2>2. phase[r] # "ended" \/ "stop" \in hurry
    <3>1. Crawls(Parent[t])
      BY <1>3 DEF Dispatch
    <3>2. CASE Parent[t] \in Roots
      BY <2>1, <3>1, <3>2, FireAndForgetAssumption DEF Crawls
    <3>3. CASE Parent[t] \notin Roots
      <4>1. Parent[t] \in Tasks /\ RootOf[Parent[t]] = r /\ st[Parent[t]] = "running"
        BY <2>1, <3>1, <3>3, FireAndForgetAssumption DEF Crawls
      <4> QED BY <4>1
    <3> QED BY <3>2, <3>3
  <2> QED BY <1>3, <2>1, <2>2 DEF TypeOK, Dispatch
<1>4. ASSUME NEW t \in Tasks, Submit(t) \/ Track(t) \/ Start(t) \/ Finish(t)
      PROVE  SettledInv'
  BY <1>4 DEF TypeOK, Submit, Track, Start, Finish
<1>5. ASSUME NEW r \in Roots, Check(r) PROVE SettledInv'
  <2>1. CASE Alive # {} /\ ~stop
    BY <1>5, <2>1 DEF TypeOK, Check
  <2>2. CASE Alive = {}
    <3>1. \A t \in Under(r) : st[t] \notin Unsettled
      BY <1>5, <2>2, EmptyRegistry DEF Check, Alive
    <3> QED BY <1>5, <3>1 DEF TypeOK, Check
  <2>3. CASE stop
    BY <1>5, <2>3 DEF TypeOK, Check
  <2> QED BY <2>1, <2>2, <2>3
<1>6. ASSUME NEW r \in Roots, EndCrawl(r) \/ Expire(r) \/ Poll(r) \/ LeaveOnStop(r)
                              \/ NothingToCancel(r) \/ LookForExecutor(r) \/ Drop(r)
      PROVE  SettledInv'
  BY <1>6 DEF TypeOK, EndCrawl, Expire, Poll, LeaveOnStop, NothingToCancel,
              LookForExecutor, Drop
<1>7. ASSUME NEW r \in Roots, CancelUnstarted(r) \/ Close(r) PROVE SettledInv'
  BY <1>7 DEF TypeOK, CancelUnstarted, Close
<1> QED BY <1>1, <1>2, <1>3, <1>4, <1>5, <1>6, <1>7 DEF Next, Leave, Done

\* EndedMeansSettled for all behaviours, however deep crawls are handed on.
THEOREM NothingLeftBehind ==
  ASSUME IsWellFoundedOn(HandsOn, Tasks)
  PROVE  Spec => []EndedMeansSettled
<1> DEFINE I == TypeOK /\ RegistryInv /\ SettledInv
<1>1. Init => RegistryInv /\ SettledInv
  BY DEF Init, RegistryInv, SettledInv, Accepted
<1>2. I /\ [Next]_vars => RegistryInv' /\ SettledInv'
  BY RegistryStep, SettledStep
<1>3. SettledInv => EndedMeansSettled
  BY DEF SettledInv, EndedMeansSettled, Unsettled
<1> QED BY <1>1, <1>2, <1>3, TypeCorrect, PTL DEF Spec

-----------------------------------------------------------------------------
(* As long as nothing hurries                                              *)

\* Without a stop and an expired wait nothing is shut and there is one executor
\* at most, which all work is on.
QuietInv ==
  hurry = {} =>
    /\ ~stop /\ shut = {}
    /\ \A r \in Roots : phase[r] \in {"crawling", "waiting", "leaving", "checking"} \cup Ended
    /\ \A t \in Tasks :
         /\ st[t] \notin Refused \cup {"cancelled", "skipped"}
         /\ st[t] \in Unsettled => exe[t] = executor /\ executor # 0

\* The crawls that run at once.
RunningNow == {t \in Tasks : st[t] = "running"}

\* A worker is only given a task when there is room on the executor.
BoundInv ==
  /\ IsFiniteSet(RunningNow)
  /\ hurry = {} => Cardinality(RunningNow) <= PoolSize

\* No step without hurry shuts, replaces or cancels anything.
LEMMA QuietStep ==
  ASSUME TypeOK, QuietInv, [Next]_vars
  PROVE  QuietInv'
<1> USE DEF QuietInv, Unsettled, Accepted, Refused, Ended, pool, MoveTo
<1>1. CASE UNCHANGED vars
  BY <1>1 DEF vars
<1>2. CASE SetStop \/ ClearStop
  BY <1>2 DEF SetStop, ClearStop, TypeOK
<1>3. ASSUME NEW t \in Tasks, Dispatch(t) PROVE QuietInv'
  <2>1. made + 1 # 0
    BY DEF TypeOK
  <2> QED BY <1>3, <2>1 DEF TypeOK, Dispatch, HasExecutor
<1>4. ASSUME NEW t \in Tasks, Submit(t) \/ Track(t) \/ Start(t) \/ Finish(t)
      PROVE  QuietInv'
  BY <1>4 DEF TypeOK, Submit, Track, Start, Finish
<1>5. ASSUME NEW r \in Roots, Expire(r) PROVE QuietInv'
  BY <1>5 DEF Expire
<1>6. ASSUME NEW r \in Roots, EndCrawl(r) \/ Poll(r) \/ LeaveOnStop(r)
                              \/ NothingToCancel(r) \/ Check(r)
      PROVE  QuietInv'
  BY <1>6 DEF TypeOK, EndCrawl, Poll, LeaveOnStop, NothingToCancel, Check
<1>7. ASSUME NEW r \in Roots, CancelUnstarted(r) \/ LookForExecutor(r) \/ Close(r) \/ Drop(r)
      PROVE  QuietInv'
  BY <1>7 DEF CancelUnstarted, MustCancel, LookForExecutor, Close, MayClose, Drop
<1> QED BY <1>1, <1>2, <1>3, <1>4, <1>5, <1>6, <1>7 DEF Next, Leave, Done

\* The bound is kept: only Start adds to the crawls that run.
LEMMA BoundStep ==
  ASSUME TypeOK, QuietInv, BoundInv, [Next]_vars
  PROVE  BoundInv'
<1> USE DEF BoundInv, RunningNow, Accepted
<1>1. ASSUME RunningNow' = RunningNow, hurry' = {} => hurry = {} PROVE BoundInv'
  BY <1>1
<1>2. CASE UNCHANGED vars \/ SetStop \/ ClearStop
  BY <1>1, <1>2 DEF vars, SetStop, ClearStop, pool
<1>3. ASSUME NEW t \in Tasks, Dispatch(t) \/ Submit(t) \/ Track(t) PROVE BoundInv'
  <2>1. RunningNow' = RunningNow /\ hurry' = hurry
    BY <1>3 DEF TypeOK, Dispatch, Submit, Track
  <2> QED BY <1>1, <2>1
<1>4. ASSUME NEW t \in Tasks, Start(t) PROVE BoundInv'
  <2>1. CASE stop
    <3>1. RunningNow' = RunningNow /\ hurry' = hurry
      BY <1>4, <2>1 DEF TypeOK, Start
    <3> QED BY <1>1, <3>1
  <2>2. CASE ~stop
    <3>1. RunningNow' = RunningNow \cup {t} /\ hurry' = hurry
      BY <1>4, <2>2 DEF TypeOK, Start
    <3>2. IsFiniteSet(RunningNow \cup {t})
          /\ Cardinality(RunningNow \cup {t}) <= Cardinality(RunningNow) + 1
      <4> HIDE DEF RunningNow
      <4>1. IsFiniteSet(RunningNow)
        BY DEF BoundInv
      <4>2. Cardinality(RunningNow) \in Nat
        BY <4>1, FS_CardinalityType
      <4> QED BY <4>1, <4>2, FS_AddElement
    <3>3. hurry = {} => RunningIn(exe[t]) = RunningNow
      BY <1>4 DEF QuietInv, Unsettled, Start, RunningIn
    <3>4. hurry = {} => Cardinality(RunningNow) < PoolSize
      BY <1>4, <3>3 DEF Start
    <3>5. Cardinality(RunningNow) \in Nat /\ Cardinality(RunningNow \cup {t}) \in Nat
      BY <3>2, FS_CardinalityType DEF BoundInv
    <3> HIDE DEF RunningNow
    <3> QED BY <3>1, <3>2, <3>4, <3>5, FireAndForgetAssumption
  <2> QED BY <2>1, <2>2
<1>5. ASSUME NEW t \in Tasks, Finish(t) PROVE BoundInv'
  <2>1. RunningNow' \subseteq RunningNow /\ hurry' = hurry
    BY <1>5 DEF TypeOK, Finish
  <2>2. IsFiniteSet(RunningNow') /\ Cardinality(RunningNow') <= Cardinality(RunningNow)
    BY <2>1, FS_Subset
  <2>3. Cardinality(RunningNow) \in Nat /\ Cardinality(RunningNow') \in Nat
    BY <2>2, FS_CardinalityType
  <2> HIDE DEF RunningNow
  <2> QED BY <2>1, <2>2, <2>3, FireAndForgetAssumption
<1>6. ASSUME NEW r \in Roots, EndCrawl(r) \/ Expire(r) \/ Leave(r) PROVE BoundInv'
  <2>1. RunningNow' = RunningNow /\ (hurry' = {} => hurry = {})
    BY <1>6 DEF TypeOK, Leave, EndCrawl, Expire, Poll, LeaveOnStop, NothingToCancel,
                CancelUnstarted, LookForExecutor, Close, Drop, Check, pool
  <2> QED BY <1>1, <2>1
<1> QED BY <1>2, <1>3, <1>4, <1>5, <1>6 DEF Next, Done

\* What was accepted is neither cancelled nor skipped as long as nothing hurries.
THEOREM AcceptedIsKept == Spec => []AcceptedWorkIsKept
<1>1. Init => QuietInv
  BY DEF Init, QuietInv, Unsettled, Accepted, Refused
<1>2. TypeOK /\ QuietInv /\ [Next]_vars => QuietInv'
  BY QuietStep
<1>3. QuietInv => AcceptedWorkIsKept
  BY DEF QuietInv, AcceptedWorkIsKept
<1> QED BY <1>1, <1>2, <1>3, TypeCorrect, PTL DEF Spec

\* The pool's bound holds for all roots together as long as nothing hurries.
THEOREM BoundHolds == Spec => []PoolIsBounded
<1>1. Init => QuietInv /\ BoundInv
  <2> SUFFICES ASSUME Init PROVE QuietInv /\ BoundInv
    OBVIOUS
  <2>1. QuietInv
    BY DEF Init, QuietInv, Unsettled, Accepted, Refused
  <2>2. RunningNow = {}
    BY DEF Init, RunningNow
  <2> QED BY <2>1, <2>2, FS_EmptySet, FireAndForgetAssumption DEF BoundInv
<1>2. TypeOK /\ QuietInv /\ [Next]_vars => QuietInv'
  BY QuietStep
<1>3. TypeOK /\ QuietInv /\ BoundInv /\ [Next]_vars => BoundInv'
  BY BoundStep
<1>4. BoundInv => PoolIsBounded
  BY DEF BoundInv, PoolIsBounded, RunningNow
<1> QED BY <1>1, <1>2, <1>3, <1>4, TypeCorrect, PTL DEF Spec
=============================================================================
