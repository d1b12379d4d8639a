------------------------ MODULE DetailDispatchProofs ------------------------
(***************************************************************************)
(* The shared keys of the list crawls, for every number of crawls, workers *)
(* and pages.                                                              *)
(***************************************************************************)
EXTENDS DetailDispatch, FiniteSetTheorems, TLAPS

-----------------------------------------------------------------------------
(* Types                                                                   *)

\* What the pages of a run hold.
LEMMA PageType ==
  ASSUME NEW r \in Runs, NEW i \in 1 .. Len(Pages[r])
  PROVE  Pages[r][i] \in Seq(Urls)
BY DispatchAssumption

\* The walk through the pages and the ends of attempts keep the types.
LEMMA CrawlType ==
  ASSUME TypeOK, NEW r \in Runs, Crawl(r)
  PROVE  TypeOK'
<1> USE DEF TypeOK, Phases, MoveTo
<1>1. CASE FetchPage(r)
  <2>1. page[r] + 1 \in 1 .. Len(Pages[r])
    BY <1>1, DispatchAssumption DEF FetchPage
  <2>2. Pages[r][page[r] + 1] \in Seq(Urls)
    BY <2>1, PageType
  <2>3. InSeq(Pages[r][page[r] + 1]) \subseteq Urls
    BY <2>2 DEF InSeq
  <2> QED BY <1>1, <2>2, <2>3 DEF FetchPage
<1>2. CASE PageFails(r) \/ PageBreaks(r) \/ PageEnds(r) \/ Join(r) \/ GiveUp(r)
  BY <1>2 DEF PageFails, PageBreaks, PageEnds, Join, GiveUp
<1>3. CASE Put(r)
  <2>1. toPut[r] \in Seq(Urls) /\ toPut[r] # <<>> /\ queue[r] \in Seq(Urls)
    BY <1>3 DEF Put
  <2>2. Head(toPut[r]) \in Urls /\ Tail(toPut[r]) \in Seq(Urls)
    BY <2>1
  <2>3. Append(queue[r], Head(toPut[r])) \in Seq(Urls)
    BY <2>1, <2>2
  <2> QED BY <1>3, <2>2, <2>3 DEF Put
<1>4. CASE RunAgain(r)
  BY <1>4 DEF RunAgain
<1> QED BY <1>1, <1>2, <1>3, <1>4 DEF Crawl

\* A worker takes URLs from its queue and records nothing else.
LEMMA WorkerType ==
  ASSUME TypeOK, NEW r \in Runs, NEW w \in Workers, Worker(r, w)
  PROVE  TypeOK'
<1> USE DEF TypeOK
<1>1. CASE Take(r, w)
  <2>1. queue[r] \in Seq(Urls) /\ queue[r] # <<>>
    BY <1>1 DEF Take
  <2>2. Head(queue[r]) \in Urls /\ Tail(queue[r]) \in Seq(Urls)
    BY <2>1
  <2> DEFINE u == Head(queue[r])
  <2>3. /\ queue' = [queue EXCEPT ![r] = Tail(@)]
        /\ \/ UNCHANGED <<keys, work>> /\ undone' = [undone EXCEPT ![r] = @ - 1]
           \/ /\ keys' = keys \cup {u} /\ UNCHANGED undone
              /\ work' = [work EXCEPT ![r][w] = u]
        /\ UNCHANGED <<phase, attempt, page, toPut, answered, failed, listed, settled>>
    BY <1>1 DEF Take
  <2> HIDE DEF u
  <2>4. keys' \subseteq Urls /\ undone' \in [Runs -> Int]
        /\ queue' \in [Runs -> Seq(Urls)]
    BY <2>2, <2>3 DEF u
  <2>5. work' \in [Runs -> [Workers -> Urls \cup {Free}]]
    <3>1. u \in Urls
      BY <2>2 DEF u
    <3>2. CASE work' = work
      BY <3>2
    <3>3. CASE work' = [work EXCEPT ![r][w] = u]
      BY <3>1, <3>3
    <3> QED BY <2>3, <3>2, <3>3
  <2> QED BY <2>3, <2>4, <2>5
<1>2. CASE Settle(r, w)
  BY <1>2 DEF Settle, Record
<1>3. CASE Fail(r, w)
  BY <1>3 DEF Fail, Record
<1>4. CASE Cancelled(r, w)
  BY <1>4 DEF Cancelled
<1> QED BY <1>1, <1>2, <1>3, <1>4 DEF Worker

\* Type correctness of the list crawls.
THEOREM TypeCorrect == Spec => []TypeOK
<1>1. Init => TypeOK
  BY DEF Init, TypeOK, Phases
<1>2. TypeOK /\ [Next]_vars => TypeOK'
  <2> SUFFICES ASSUME TypeOK, [Next]_vars PROVE TypeOK'
    OBVIOUS
  <2>1. CASE UNCHANGED vars
    BY <2>1 DEF vars, TypeOK
  <2> QED BY <2>1, CrawlType, WorkerType DEF Next, Done
<1> QED BY <1>1, <1>2, PTL DEF Spec

-----------------------------------------------------------------------------
(* Keys                                                                    *)

\* A URL is in flight when some worker has it.
LEMMA InFlightWorker ==
  \A u : u \in InFlight <=> u # Free /\ \E r \in Runs, w \in Workers : work[r][w] = u
BY DEF InFlight

\* The same in the next state.
LEMMA InFlightWorkerNext ==
  \A u : u \in InFlight' <=> u # Free /\ \E r \in Runs, w \in Workers : work'[r][w] = u
BY DEF InFlight

\* A worker that lets go of its item takes it, and nothing else, out of flight.
LEMMA LetGo ==
  ASSUME TypeOK, ClaimsAreExact, NEW r \in Runs, NEW w \in Workers, work[r][w] # Free,
         work' = [work EXCEPT ![r][w] = Free]
  PROVE  /\ InFlight' = InFlight \ {work[r][w]}
         /\ work[r][w] \in InFlight
<1>1. \A s \in Runs, v \in Workers :
        work'[s][v] = IF s = r /\ v = w THEN Free ELSE work[s][v]
  BY DEF TypeOK
<1>2. \A s \in Runs, v \in Workers : work[s][v] = work[r][w] => s = r /\ v = w
  BY DEF ClaimsAreExact
<1>3. \A u : u \in InFlight' <=> u \in InFlight /\ u # work[r][w]
  BY <1>1, <1>2, InFlightWorker, InFlightWorkerNext
<1> QED BY <1>3, InFlightWorker

\* No step leaves a key behind, drops one in use or dispatches one twice.
LEMMA StepClaims == TypeOK /\ ClaimsAreExact /\ [Next]_vars => ClaimsAreExact'
<1> SUFFICES ASSUME TypeOK, ClaimsAreExact, [Next]_vars PROVE ClaimsAreExact'
  OBVIOUS
<1>1. ASSUME UNCHANGED <<keys, settled, work>> PROVE ClaimsAreExact'
  BY <1>1 DEF ClaimsAreExact, InFlight
<1>2. ASSUME NEW r \in Runs, Crawl(r) PROVE ClaimsAreExact'
  BY <1>1, <1>2 DEF Crawl, FetchPage, PageFails, PageBreaks, Put, PageEnds, Join,
                    RunAgain, GiveUp
<1>3. ASSUME NEW r \in Runs, NEW w \in Workers, Worker(r, w) PROVE ClaimsAreExact'
  <2>1. CASE Take(r, w)
    <3> DEFINE u == Head(queue[r])
    <3>1. CASE u \in keys
      BY <1>1, <2>1, <3>1 DEF Take
    <3>2. CASE u \notin keys
      <4>1. u \in Urls /\ u # Free
        BY <2>1, DispatchAssumption DEF Take, TypeOK
      <4>2. /\ keys' = keys \cup {u} /\ settled' = settled
            /\ work[r][w] = Free
            /\ work' = [work EXCEPT ![r][w] = u]
        BY <2>1, <3>2 DEF Take
      <4> HIDE DEF u
      <4>3. \A s \in Runs, v \in Workers :
              work'[s][v] = IF s = r /\ v = w THEN u ELSE work[s][v]
        BY <4>2 DEF TypeOK
      <4>4. InFlight' = InFlight \cup {u}
        BY <4>1, <4>2, <4>3, InFlightWorker, InFlightWorkerNext
      <4>5. \A s \in Runs, v \in Workers : work[s][v] # u
        BY <3>2, <4>1, InFlightWorker DEF ClaimsAreExact
      <4> QED BY <3>2, <4>2, <4>3, <4>4, <4>5 DEF ClaimsAreExact
    <3> QED BY <3>1, <3>2
  <2>2. CASE Settle(r, w) \/ Fail(r, w) \/ Cancelled(r, w)
    <3>1. /\ work[r][w] # Free
          /\ work' = [work EXCEPT ![r][w] = Free]
          /\ \/ keys' = keys /\ settled' = settled \cup {work[r][w]}
             \/ keys' = keys \ {work[r][w]} /\ settled' = settled
      BY <2>2 DEF Settle, Fail, Cancelled, Record
    <3>2. /\ InFlight' = InFlight \ {work[r][w]}
          /\ work[r][w] \in InFlight
      BY <3>1, LetGo
    <3>3. \A s \in Runs, v \in Workers :
            work'[s][v] = IF s = r /\ v = w THEN Free ELSE work[s][v]
      BY <3>1 DEF TypeOK
    <3>4. keys' = settled' \cup InFlight' /\ settled' \cap InFlight' = {}
      BY <3>1, <3>2 DEF ClaimsAreExact
    <3> QED BY <3>3, <3>4 DEF ClaimsAreExact
  <2> QED BY <1>3, <2>1, <2>2 DEF Worker
<1>4. CASE UNCHANGED vars
  BY <1>1, <1>4 DEF vars
<1> QED BY <1>2, <1>3, <1>4 DEF Next, Done

\* At all times the shared keys are exactly those settled or being fetched, and
\* no two workers of any crawls fetch the same detail.
THEOREM ClaimsStayExact == Spec => []ClaimsAreExact
<1>1. Init => ClaimsAreExact
  BY DEF Init, ClaimsAreExact, InFlight
<1> QED BY <1>1, StepClaims, TypeCorrect, PTL DEF Spec

\* A settled detail is never dispatched again, in no attempt of no crawl.
THEOREM SettledIsForGood == Spec => NoRefetch
<1>1. TypeOK /\ ClaimsAreExact /\ [Next]_vars
        => [(InFlight' \ InFlight) \cap settled = {}]_vars
  <2> SUFFICES ASSUME TypeOK, ClaimsAreExact, Next
               PROVE  (InFlight' \ InFlight) \cap settled = {}
    OBVIOUS
  <2>1. ASSUME UNCHANGED work PROVE InFlight' = InFlight
    BY <2>1 DEF InFlight
  <2>2. ASSUME NEW r \in Runs, Crawl(r) PROVE UNCHANGED work
    BY <2>2 DEF Crawl, FetchPage, PageFails, PageBreaks, Put, PageEnds, Join, RunAgain,
                GiveUp
  <2>3. ASSUME NEW r \in Runs, NEW w \in Workers, Worker(r, w)
        PROVE  \A u \in InFlight' \ InFlight : u \notin keys
    <3>1. CASE Take(r, w)
      <4>1. \/ work' = work
            \/ /\ Head(queue[r]) \notin keys
               /\ work' = [work EXCEPT ![r][w] = Head(queue[r])]
        BY <3>1 DEF Take
      <4>2. \A s \in Runs, v \in Workers :
              work'[s][v] = work[s][v] \/ work'[s][v] \notin keys
        <5>1. CASE work' = work
          BY <5>1
        <5>2. ASSUME NEW u, u \notin keys, work' = [work EXCEPT ![r][w] = u]
              PROVE  \A s \in Runs, v \in Workers :
                       work'[s][v] = work[s][v] \/ work'[s][v] \notin keys
          BY <5>2 DEF TypeOK
        <5> QED BY <4>1, <5>1, <5>2
      <4> QED BY <4>2, InFlightWorker, InFlightWorkerNext
    <3>2. CASE Settle(r, w) \/ Fail(r, w) \/ Cancelled(r, w)
      <4>1. work[r][w] # Free /\ work' = [work EXCEPT ![r][w] = Free]
        BY <3>2 DEF Settle, Fail, Cancelled, Record
      <4> QED BY <4>1, LetGo
    <3> QED BY <2>3, <3>1, <3>2 DEF Worker
  <2>4. settled \subseteq keys
    BY DEF ClaimsAreExact
  <2> QED BY <2>1, <2>2, <2>3, <2>4 DEF Next, Done, vars
<1> QED BY <1>1, ClaimsStayExact, TypeCorrect, PTL DEF Spec, NoRefetch

-----------------------------------------------------------------------------
(* The crawls keep the promise of KeyLease                                  *)

\* What the holders of the lease have is what the workers have.
LEMMA ItemOfWorker ==
  /\ \A r \in Runs, w \in Workers :
       <<r, w>> \in Runs \X Workers /\ Items[<<r, w>>] = work[r][w]
  /\ \A h \in Runs \X Workers :
       \E r \in Runs, w \in Workers : h = <<r, w>> /\ Items[h] = work[r][w]
BY DEF Items

\* A worker that has another item changes what one holder has.
LEMMA LeaseItem ==
  ASSUME TypeOK, NEW r \in Runs, NEW w \in Workers, NEW u,
         work' = [work EXCEPT ![r][w] = u]
  PROVE  Items' = [Items EXCEPT ![<<r, w>>] = u]
<1>1. ASSUME NEW h \in Runs \X Workers
      PROVE  work'[h[1]][h[2]] = IF h = <<r, w>> THEN u ELSE work[h[1]][h[2]]
  <2>1. PICK s \in Runs, v \in Workers : h = <<s, v>>
    OBVIOUS
  <2>2. work'[s][v] = IF s = r /\ v = w THEN u ELSE work[s][v]
    BY DEF TypeOK
  <2> QED BY <2>1, <2>2
<1> QED BY <1>1 DEF Items

\* What is held is what is in flight.
LEMMA HeldInFlight == Lease!Held = InFlight
<1>1. \A u : u \in Lease!Held <=> u # Free /\ \E h \in Runs \X Workers : Items[h] = u
  BY DEF Lease!Held
<1>2. ASSUME NEW u
      PROVE  (\E h \in Runs \X Workers : Items[h] = u)
               <=> \E r \in Runs, w \in Workers : work[r][w] = u
  <2>1. ASSUME NEW h \in Runs \X Workers, Items[h] = u
        PROVE  \E r \in Runs, w \in Workers : work[r][w] = u
    BY <2>1, ItemOfWorker
  <2>2. ASSUME NEW r \in Runs, NEW w \in Workers, work[r][w] = u
        PROVE  \E h \in Runs \X Workers : Items[h] = u
    <3>1. <<r, w>> \in Runs \X Workers /\ Items[<<r, w>>] = u
      BY <2>2, ItemOfWorker
    <3> QED BY <3>1
  <2> QED BY <2>1, <2>2
<1> QED BY <1>1, <1>2, InFlightWorker

\* A step of a worker lends a detail, gives it back or does nothing to it.
LEMMA WorkerLeases ==
  ASSUME TypeOK, ClaimsAreExact, NEW r \in Runs, NEW w \in Workers, Worker(r, w)
  PROVE  Lease!Next \/ UNCHANGED <<work, settled>>
<1> DEFINE h == <<r, w>>
<1>1. h \in Runs \X Workers /\ Items[h] = work[r][w]
  BY ItemOfWorker
<1>2. \A u : work' = [work EXCEPT ![r][w] = u] => Items' = [Items EXCEPT ![h] = u]
  BY LeaseItem
<1> HIDE DEF h
<1>3. CASE Take(r, w) /\ work' # work
  <2> DEFINE u == Head(queue[r])
  <2>1. /\ work[r][w] = Free /\ u \notin keys /\ queue[r] # <<>>
        /\ work' = [work EXCEPT ![r][w] = u]
        /\ settled' = settled
    BY <1>3 DEF Take
  <2>2. u \in Urls
    BY <2>1 DEF TypeOK
  <2> HIDE DEF u
  <2>3. u \notin settled \cup Lease!Held
    BY <2>1, HeldInFlight DEF ClaimsAreExact
  <2>4. Lease!Lend(h, u)
    BY <1>1, <1>2, <2>1, <2>3 DEF Lease!Lend
  <2> QED BY <1>1, <2>2, <2>4 DEF Lease!Next
<1>4. CASE Settle(r, w) \/ Fail(r, w) \/ Cancelled(r, w)
  <2>1. /\ work[r][w] # Free /\ work' = [work EXCEPT ![r][w] = Free]
        /\ settled' \in {settled, settled \cup {work[r][w]}}
    BY <1>4 DEF Settle, Fail, Cancelled, Record
  <2>2. Lease!GiveBack(h)
    BY <1>1, <1>2, <2>1 DEF Lease!GiveBack
  <2> QED BY <1>1, <2>2 DEF Lease!Next
<1>5. CASE Take(r, w) /\ work' = work
  BY <1>5 DEF Take
<1> QED BY <1>3, <1>4, <1>5 DEF Worker

\* The workers of all crawls, attempts and cancellations together implement the
\* lease: a detail is lent to one worker at a time, and never once it is settled.
THEOREM CrawlsLease == Spec => ImplementsKeyLease
<1>1. Init => Lease!Init
  <2> SUFFICES ASSUME Init PROVE Items = [h \in Runs \X Workers |-> Free]
    BY DEF Init, Lease!Init
  <2>1. \A h \in Runs \X Workers : work[h[1]][h[2]] = Free
    BY DEF Init
  <2> QED BY <2>1 DEF Items
<1>2. UNCHANGED <<work, settled>> => UNCHANGED Lease!vars
  BY DEF Lease!vars, Items
<1>3. TypeOK /\ ClaimsAreExact /\ [Next]_vars => [Lease!Next]_(Lease!vars)
  <2> SUFFICES ASSUME TypeOK, ClaimsAreExact, [Next]_vars
               PROVE  Lease!Next \/ UNCHANGED <<work, settled>>
    BY <1>2
  <2>1. ASSUME NEW r \in Runs, Crawl(r) PROVE UNCHANGED <<work, settled>>
    BY <2>1 DEF Crawl, FetchPage, PageFails, PageBreaks, Put, PageEnds, Join, RunAgain,
                GiveUp
  <2> QED BY <2>1, WorkerLeases DEF Next, Done, vars
<1> QED BY <1>1, <1>3, ClaimsStayExact, TypeCorrect, PTL
        DEF Spec, ImplementsKeyLease, Lease!Spec

-----------------------------------------------------------------------------
(* A crawl ends when, and only when, its details are through               *)

Busy(r) == {w \in Workers : work[r][w] # Free}

\* What the queue counts as unfinished is queued or with a worker.
Counted(r) ==
  /\ undone[r] = Len(queue[r]) + Cardinality(Busy(r))
  /\ phase[r] # "putting" => toPut[r] = <<>>
  /\ phase[r] = "done" => undone[r] = 0

\* The count is exact in every attempt, but not of a crawl that is cancelled: its
\* workers report one item twice each.
Counting(r) == phase[r] \notin Cancelling \cup {"failed"}

CountInv == \A r \in Runs : Counting(r) => Counted(r)

\* A worker that takes an item makes one more that is busy, of its own crawl.
LEMMA OneMoreBusy ==
  ASSUME TypeOK, NEW r \in Runs, NEW w \in Workers, NEW u, u # Free,
         work[r][w] = Free, work' = [work EXCEPT ![r][w] = u]
  PROVE  /\ Cardinality(Busy(r)') = Cardinality(Busy(r)) + 1
         /\ \A s \in Runs \ {r} : Busy(s)' = Busy(s)
<1>1. \A s \in Runs, v \in Workers :
        work'[s][v] = IF s = r /\ v = w THEN u ELSE work[s][v]
  BY DEF TypeOK
<1>2. Busy(r)' = Busy(r) \cup {w} /\ w \notin Busy(r)
  BY <1>1 DEF Busy
<1>3. IsFiniteSet(Busy(r))
  BY FS_Subset, DispatchAssumption DEF Busy
<1>4. Cardinality(Busy(r)') = Cardinality(Busy(r)) + 1
  BY <1>2, <1>3, FS_AddElement
<1> QED BY <1>1, <1>4 DEF Busy

\* A worker that lets go of its item makes one less.
LEMMA OneLessBusy ==
  ASSUME TypeOK, NEW r \in Runs, NEW w \in Workers,
         work[r][w] # Free, work' = [work EXCEPT ![r][w] = Free]
  PROVE  /\ Cardinality(Busy(r)') = Cardinality(Busy(r)) - 1
         /\ \A s \in Runs \ {r} : Busy(s)' = Busy(s)
<1>1. \A s \in Runs, v \in Workers :
        work'[s][v] = IF s = r /\ v = w THEN Free ELSE work[s][v]
  BY DEF TypeOK
<1>2. Busy(r)' = Busy(r) \ {w} /\ w \in Busy(r)
  BY <1>1 DEF Busy
<1>3. IsFiniteSet(Busy(r))
  BY FS_Subset, DispatchAssumption DEF Busy
<1>4. Cardinality(Busy(r)') = Cardinality(Busy(r)) - 1
  BY <1>2, <1>3, FS_RemoveElement
<1> QED BY <1>1, <1>4 DEF Busy

\* The number of busy workers is a number.
LEMMA BusyCount ==
  ASSUME NEW r \in Runs
  PROVE  IsFiniteSet(Busy(r)) /\ Cardinality(Busy(r)) \in Nat
BY FS_Subset, FS_CardinalityType, DispatchAssumption DEF Busy

\* No worker is busy when the count of busy workers is zero.
LEMMA NobodyBusy ==
  ASSUME NEW r \in Runs
  PROVE  Cardinality(Busy(r)) = 0 <=> AllFree(r)
<1>1. Cardinality(Busy(r)) = 0 <=> Busy(r) = {}
  BY BusyCount, FS_EmptySet
<1> QED BY <1>1 DEF Busy, AllFree

\* A crawl is told by its own part of the state alone.
LEMMA CountedElsewhere ==
  ASSUME NEW s \in Runs, Counting(s) => Counted(s), Busy(s)' = Busy(s),
         phase'[s] = phase[s], toPut'[s] = toPut[s], queue'[s] = queue[s],
         undone'[s] = undone[s]
  PROVE  Counting(s)' => Counted(s)'
BY DEF Counted, Counting

\* The walk through the pages counts what it puts, and a second attempt starts
\* from nothing with free workers.
LEMMA CrawlCount ==
  ASSUME TypeOK, CountInv, NEW r \in Runs, Crawl(r)
  PROVE  CountInv'
<1> USE DEF TypeOK, MoveTo
<1>1. UNCHANGED work
  BY DEF Crawl, FetchPage, PageFails, PageBreaks, Put, PageEnds, Join, RunAgain, GiveUp
<1>2. \A s \in Runs : Busy(s)' = Busy(s)
  BY <1>1 DEF Busy
<1>3. ASSUME NEW s \in Runs \ {r} PROVE Counting(s)' => Counted(s)'
  <2>1. /\ phase'[s] = phase[s] /\ toPut'[s] = toPut[s] /\ queue'[s] = queue[s]
        /\ undone'[s] = undone[s]
    BY DEF Crawl, FetchPage, PageFails, PageBreaks, Put, PageEnds, Join, RunAgain, GiveUp
  <2>2. Counting(s) => Counted(s)
    BY DEF CountInv
  <2> QED BY <1>2, <2>1, <2>2, CountedElsewhere
<1>4. Counting(r) => Counted(r)
  BY DEF CountInv
<1>5. Counting(r)' => Counted(r)'
  <2>1. CASE FetchPage(r)
    BY <1>2, <1>4, <2>1 DEF FetchPage, Counting, Counted, Cancelling
  <2>2. CASE PageFails(r) \/ PageBreaks(r) \/ GiveUp(r)
    BY <1>2, <1>4, <2>2
       DEF PageFails, PageBreaks, GiveUp, Counting, Counted, Cancelling
  <2>3. CASE Put(r)
    <3>1. /\ phase[r] = "putting" /\ toPut[r] # <<>>
          /\ queue' = [queue EXCEPT ![r] = Append(@, Head(toPut[r]))]
          /\ undone' = [undone EXCEPT ![r] = @ + 1]
          /\ UNCHANGED phase
      BY <2>3 DEF Put
    <3>2. Len(queue'[r]) = Len(queue[r]) + 1 /\ undone'[r] = undone[r] + 1
      BY <3>1
    <3>3. undone[r] = Len(queue[r]) + Cardinality(Busy(r))
      BY <1>4, <3>1 DEF Counting, Counted, Cancelling
    <3> QED BY <1>2, <3>1, <3>2, <3>3, BusyCount DEF Counted
  <2>4. CASE PageEnds(r) \/ Join(r)
    BY <1>2, <1>4, <2>4 DEF PageEnds, Join, Counting, Counted, Cancelling
  <2>5. CASE RunAgain(r)
    <3>1. AllFree(r) /\ queue'[r] = <<>> /\ undone'[r] = 0 /\ toPut'[r] = <<>>
          /\ phase'[r] = "page"
      BY <2>5 DEF RunAgain
    <3> QED BY <1>2, <3>1, NobodyBusy DEF Counted
  <2> QED BY <2>1, <2>2, <2>3, <2>4, <2>5 DEF Crawl
<1> QED BY <1>3, <1>5 DEF CountInv

\* A worker reports an item done when it lets go of it, and only then.
LEMMA WorkerCount ==
  ASSUME TypeOK, CountInv, NEW r \in Runs, NEW w \in Workers, Worker(r, w)
  PROVE  CountInv'
<1> USE DEF TypeOK
<1>1. UNCHANGED <<phase, toPut>>
  BY DEF Worker, Take, Settle, Fail, Cancelled
<1>2. ASSUME NEW s \in Runs \ {r} PROVE Counting(s)' => Counted(s)'
  <2>1. queue'[s] = queue[s] /\ undone'[s] = undone[s] /\ work'[s] = work[s]
    <3>1. CASE Take(r, w)
      BY <3>1 DEF Take
    <3>2. CASE Settle(r, w) \/ Fail(r, w)
      BY <3>2 DEF Settle, Fail, Record
    <3>3. CASE Cancelled(r, w)
      BY <3>3 DEF Cancelled
    <3> QED BY <3>1, <3>2, <3>3 DEF Worker
  <2>2. Busy(s)' = Busy(s)
    BY <2>1 DEF Busy
  <2>3. Counting(s) => Counted(s)
    BY DEF CountInv
  <2> QED BY <1>1, <2>1, <2>2, <2>3, CountedElsewhere
<1>3. Counting(r)' => Counted(r)'
  <2> SUFFICES ASSUME Counting(r) PROVE Counted(r)'
    BY <1>1 DEF Counting
  <2>1. Counted(r) /\ Len(queue[r]) \in Nat
    BY DEF CountInv
  <2>2. CASE Take(r, w)
    <3> DEFINE u == Head(queue[r])
    <3>1. /\ phase[r] # "done" /\ work[r][w] = Free /\ queue[r] # <<>>
          /\ queue' = [queue EXCEPT ![r] = Tail(@)]
          /\ \/ undone' = [undone EXCEPT ![r] = @ - 1] /\ UNCHANGED work
             \/ UNCHANGED undone /\ work' = [work EXCEPT ![r][w] = u]
      BY <2>2 DEF Take, Working
    <3>2. u \in Urls /\ u # Free /\ Len(queue'[r]) = Len(queue[r]) - 1
      BY <3>1, DispatchAssumption
    <3> HIDE DEF u
    <3>3. undone'[r] = Len(queue'[r]) + Cardinality(Busy(r)')
      <4>1. CASE undone' = [undone EXCEPT ![r] = @ - 1] /\ UNCHANGED work
        <5>1. undone'[r] = undone[r] - 1 /\ Busy(r)' = Busy(r)
          BY <4>1 DEF Busy
        <5> QED BY <2>1, <3>2, <5>1, BusyCount DEF Counted
      <4>2. CASE UNCHANGED undone /\ work' = [work EXCEPT ![r][w] = u]
        <5>1. Cardinality(Busy(r)') = Cardinality(Busy(r)) + 1
          BY <3>1, <3>2, <4>2, OneMoreBusy
        <5> QED BY <2>1, <3>2, <4>2, <5>1, BusyCount DEF Counted
      <4> QED BY <3>1, <4>1, <4>2
    <3> QED BY <1>1, <2>1, <3>1, <3>3 DEF Counted
  <2>3. CASE Settle(r, w) \/ Fail(r, w)
    <3>1. /\ phase[r] # "done" /\ work[r][w] # Free
          /\ work' = [work EXCEPT ![r][w] = Free]
          /\ undone' = [undone EXCEPT ![r] = @ - 1]
          /\ UNCHANGED queue
      BY <2>3 DEF Settle, Fail, Record, Working
    <3>2. Cardinality(Busy(r)') = Cardinality(Busy(r)) - 1
      BY <3>1, OneLessBusy
    <3>3. undone'[r] = undone[r] - 1
      BY <3>1
    <3> QED BY <1>1, <2>1, <3>1, <3>2, <3>3, BusyCount DEF Counted
  <2>4. CASE Cancelled(r, w)
    BY <2>4 DEF Cancelled, Counting
  <2> QED BY <2>2, <2>3, <2>4 DEF Worker
<1> QED BY <1>2, <1>3 DEF CountInv

\* The count stays exact.
LEMMA StepCount == TypeOK /\ CountInv /\ [Next]_vars => CountInv'
<1> SUFFICES ASSUME TypeOK, CountInv, [Next]_vars PROVE CountInv'
  OBVIOUS
<1>1. CASE UNCHANGED vars
  BY <1>1 DEF vars, CountInv, Counting, Counted, Busy
<1> QED BY <1>1, CrawlCount, WorkerCount DEF Next, Done

\* The count is exact in every reachable state.
LEMMA CountIsExact == Spec => []CountInv
<1>1. Init => CountInv
  <2> SUFFICES ASSUME Init PROVE \A r \in Runs : Counted(r)
    BY DEF CountInv
  <2> TAKE r \in Runs
  <2>1. Busy(r) = {} /\ Cardinality(Busy(r)) = 0
    BY FS_EmptySet DEF Init, Busy
  <2> QED BY <2>1 DEF Init, Counted
<1> QED BY <1>1, StepCount, TypeCorrect, PTL DEF Spec

\* A crawl is through when, and only when, no detail of it is queued or with a
\* worker, in its first attempt and in its second.
THEOREM JoinIsExact == Spec => []EndsWhenDone
<1>1. TypeOK /\ CountInv => EndsWhenDone
  <2> SUFFICES ASSUME TypeOK, CountInv, NEW r \in Runs, phase[r] \in {"joining", "done"}
               PROVE  /\ undone[r] = 0 <=> queue[r] = <<>> /\ AllFree(r)
                      /\ phase[r] = "done" => undone[r] = 0
    BY DEF EndsWhenDone
  <2>1. Counted(r)
    BY DEF CountInv, Counting, Cancelling
  <2>2. queue[r] \in Seq(Urls) /\ (Len(queue[r]) = 0 <=> queue[r] = <<>>)
    BY DEF TypeOK
  <2>3. undone[r] = 0 <=> Len(queue[r]) = 0 /\ Cardinality(Busy(r)) = 0
    BY <2>1, <2>2, BusyCount DEF Counted
  <2> QED BY <2>1, <2>2, <2>3, NobodyBusy DEF Counted
<1> QED BY <1>1, CountIsExact, TypeCorrect, PTL

-----------------------------------------------------------------------------
(* No crawl waits for ever                                                 *)

\* The page walk goes on without failing: a page is there, there is room for the
\* next item, the join returns, or all cancelled workers have ended.
WalkGoesOn(r) ==
  \/ phase[r] = "page" /\ page[r] < Len(Pages[r])
  \/ phase[r] = "putting" /\ (toPut[r] # <<>> => Len(queue[r]) < QueueSize)
  \/ phase[r] = "joining" /\ undone[r] = 0
  \/ phase[r] \in Cancelling /\ AllFree(r)

\* A worker has an item to take, or to be done with.
WorkerGoesOn(r, w) ==
  \/ Working(r) /\ work[r][w] = Free /\ queue[r] # <<>>
  \/ phase[r] \notin {"done", "failed"} /\ work[r][w] # Free

\* The walk waits for room in the queue, the workers for items and the join for
\* the workers, but never all of them: in every crawl that is not over something
\* goes on without a failure or another crawl.
NobodyWaitsForEver ==
  \A r \in Runs :
    phase[r] \in {"done", "failed"} \/ WalkGoesOn(r) \/ \E w \in Workers : WorkerGoesOn(r, w)

\* The walk asks for a next page only when there is one.
PageInv == \A r \in Runs : phase[r] = "page" => page[r] < Len(Pages[r])

\* Every crawl has a first page.
LEMMA FirstPage == ASSUME NEW r \in Runs PROVE 0 < Len(Pages[r]) /\ Len(Pages[r]) \in Nat
<1>1. Pages[r] \in Seq(Seq(Urls)) /\ Pages[r] # <<>>
  BY DispatchAssumption
<1> QED BY <1>1

\* It keeps to its pages.
LEMMA StepPage == TypeOK /\ PageInv /\ [Next]_vars => PageInv'
<1> SUFFICES ASSUME TypeOK, PageInv, [Next]_vars PROVE PageInv'
  OBVIOUS
<1> USE DEF PageInv, TypeOK, MoveTo
<1>1. ASSUME NEW r \in Runs, Crawl(r) PROVE PageInv'
  <2>1. CASE FetchPage(r) \/ PageFails(r) \/ PageBreaks(r) \/ Put(r) \/ PageEnds(r)
             \/ Join(r) \/ GiveUp(r)
    BY <2>1 DEF FetchPage, PageFails, PageBreaks, Put, PageEnds, Join, GiveUp
  <2>2. CASE RunAgain(r)
    BY <2>2, FirstPage DEF RunAgain
  <2> QED BY <1>1, <2>1, <2>2 DEF Crawl
<1>2. ASSUME NEW r \in Runs, NEW w \in Workers, Worker(r, w) PROVE PageInv'
  BY <1>2 DEF Worker, Take, Settle, Fail, Cancelled
<1>3. CASE UNCHANGED vars
  BY <1>3 DEF vars
<1> QED BY <1>1, <1>2, <1>3 DEF Next, Done

\* Every crawl that is not over can go on by itself, in any attempt.
THEOREM CrawlsNeverWaitForEver == Spec => []NobodyWaitsForEver
<1>1. Init => PageInv
  BY FirstPage DEF Init, PageInv
<1>2. TypeOK /\ CountInv /\ PageInv => NobodyWaitsForEver
  <2> SUFFICES ASSUME TypeOK, CountInv, PageInv, NEW r \in Runs,
                      phase[r] \notin {"done", "failed"},
                      \A w \in Workers : ~WorkerGoesOn(r, w)
               PROVE  WalkGoesOn(r)
    BY DEF NobodyWaitsForEver
  <2>1. AllFree(r)
    BY DEF WorkerGoesOn, AllFree
  <2>2. CASE phase[r] \in Cancelling
    BY <2>1, <2>2 DEF WalkGoesOn
  <2>3. CASE phase[r] \notin Cancelling
    <3>1. queue[r] = <<>>
      <4>1. PICK w \in Workers : TRUE
        BY DispatchAssumption
      <4>2. Working(r)
        BY <2>3 DEF Working
      <4> QED BY <2>1, <4>1, <4>2 DEF WorkerGoesOn, AllFree
    <3>2. Len(queue[r]) = 0 /\ 0 < QueueSize
      BY <3>1, DispatchAssumption
    <3>3. undone[r] = 0
      <4>1. Counted(r)
        BY <2>3 DEF CountInv, Counting
      <4> QED BY <2>1, <3>2, <4>1, NobodyBusy DEF Counted
    <3>4. phase[r] \in {"page", "putting", "joining"}
      BY <2>3 DEF TypeOK, Phases, Cancelling
    <3> QED BY <3>2, <3>3, <3>4 DEF WalkGoesOn, PageInv
  <2> QED BY <2>2, <2>3
<1> QED BY <1>1, <1>2, StepPage, CountIsExact, TypeCorrect, PTL DEF Spec

-----------------------------------------------------------------------------
(* Nothing listed is left out                                              *)

\* No crawl has been cancelled or run a second time.
Undisturbed == \A r \in Runs : attempt[r] = 1 /\ phase[r] \notin Cancelling \cup {"failed"}

\* What is listed is on its way to a worker, claimed or failed.
Placed(r) ==
  listed[r] \subseteq InSeq(toPut[r]) \cup InSeq(queue[r]) \cup keys
                      \cup UNION {failed[s] : s \in Runs}

DispatchInv == Undisturbed => \A r \in Runs : Placed(r)

\* The members of an extended sequence.
LEMMA InSeqAppend ==
  ASSUME NEW S, NEW s \in Seq(S), NEW x \in S
  PROVE  InSeq(Append(s, x)) = InSeq(s) \cup {x}
<1> DEFINE t == Append(s, x)
<1>1. /\ Len(t) = Len(s) + 1 /\ Len(s) \in Nat
      /\ \A i \in 1 .. Len(s) : t[i] = s[i]
      /\ t[Len(s) + 1] = x
  OBVIOUS
<1> HIDE DEF t
<1>2. \A i : i \in 1 .. Len(t) <=> i \in 1 .. Len(s) \/ i = Len(s) + 1
  BY <1>1
<1>3. \A y : y \in InSeq(t) <=> y \in InSeq(s) \/ y = x
  BY <1>1, <1>2 DEF InSeq
<1> QED BY <1>3 DEF t

\* The members of a sequence are its head and the members of its tail.
LEMMA InSeqHeadTail ==
  ASSUME NEW S, NEW s \in Seq(S), s # <<>>
  PROVE  InSeq(s) = {Head(s)} \cup InSeq(Tail(s))
<1> DEFINE t == Tail(s)
<1>1. /\ Len(s) \in Nat \ {0} /\ Len(t) = Len(s) - 1
      /\ \A i \in 1 .. Len(t) : t[i] = s[i + 1]
      /\ Head(s) = s[1]
  OBVIOUS
<1> HIDE DEF t
<1>2. ASSUME NEW i \in 1 .. Len(s) PROVE s[i] \in {Head(s)} \cup InSeq(t)
  <2>1. CASE i = 1
    BY <1>1, <2>1
  <2>2. CASE i # 1
    <3>1. i - 1 \in 1 .. Len(t) /\ t[i - 1] = s[i]
      BY <1>1, <2>2
    <3> QED BY <3>1 DEF InSeq
  <2> QED BY <2>1, <2>2
<1>3. Head(s) \in InSeq(s)
  BY <1>1 DEF InSeq
<1>4. ASSUME NEW i \in 1 .. Len(t) PROVE t[i] \in InSeq(s)
  <2>1. i + 1 \in 1 .. Len(s) /\ s[i + 1] = t[i]
    BY <1>1
  <2> QED BY <2>1 DEF InSeq
<1> QED BY <1>2, <1>3, <1>4 DEF InSeq, t

\* A disturbance is for good: it ends in a second attempt or a failed crawl.
LEMMA DisturbedForGood ==
  ASSUME TypeOK, [Next]_vars, Undisturbed'
  PROVE  Undisturbed
<1> USE DEF Undisturbed, TypeOK, Cancelling, MoveTo
<1>1. ASSUME NEW r \in Runs, Crawl(r) PROVE Undisturbed
  <2>1. CASE FetchPage(r) \/ Put(r) \/ PageEnds(r) \/ Join(r) \/ PageBreaks(r)
             \/ PageFails(r)
    BY <2>1 DEF FetchPage, Put, PageEnds, Join, PageBreaks, PageFails
  <2>2. CASE RunAgain(r) \/ GiveUp(r)
    BY <2>2 DEF RunAgain, GiveUp
  <2> QED BY <1>1, <2>1, <2>2 DEF Crawl
<1>2. ASSUME NEW r \in Runs, NEW w \in Workers, Worker(r, w) PROVE Undisturbed
  BY <1>2 DEF Worker, Take, Settle, Fail, Cancelled
<1>3. CASE UNCHANGED vars
  BY <1>3 DEF vars
<1> QED BY <1>1, <1>2, <1>3 DEF Next, Done

\* The walk through the pages puts all that it lists in the queue.
LEMMA CrawlPlaces ==
  ASSUME TypeOK, CountInv, Undisturbed, Undisturbed', NEW r \in Runs, Crawl(r),
         \A s \in Runs : Placed(s)
  PROVE  \A s \in Runs : Placed(s)'
<1> USE DEF TypeOK, MoveTo
<1>1. CASE FetchPage(r)
  <2> DEFINE found == Pages[r][page[r] + 1]
  <2>1. /\ phase[r] = "page" /\ toPut' = [toPut EXCEPT ![r] = found]
        /\ listed' = [listed EXCEPT ![r] = @ \cup InSeq(found)]
        /\ UNCHANGED <<keys, queue, failed>>
    BY <1>1 DEF FetchPage
  <2> HIDE DEF found
  <2>2. toPut[r] = <<>>
    BY <2>1 DEF CountInv, Counting, Cancelling, Counted
  <2>3. InSeq(toPut[r]) = {}
    BY <2>2 DEF InSeq
  <2> QED BY <2>1, <2>3 DEF Placed
<1>2. CASE PageFails(r) \/ PageBreaks(r) \/ PageEnds(r) \/ Join(r)
  BY <1>2 DEF PageFails, PageBreaks, PageEnds, Join, Placed
<1>3. CASE Put(r)
  <2>1. /\ toPut[r] # <<>>
        /\ queue' = [queue EXCEPT ![r] = Append(@, Head(toPut[r]))]
        /\ toPut' = [toPut EXCEPT ![r] = Tail(@)]
        /\ UNCHANGED <<keys, failed, listed>>
    BY <1>3 DEF Put
  <2>2. toPut[r] \in Seq(Urls) /\ queue[r] \in Seq(Urls) /\ Head(toPut[r]) \in Urls
    BY <2>1
  <2>3. InSeq(queue'[r]) = InSeq(queue[r]) \cup {Head(toPut[r])}
    BY <2>1, <2>2, InSeqAppend
  <2>4. InSeq(toPut[r]) = {Head(toPut[r])} \cup InSeq(toPut'[r])
    BY <2>1, <2>2, InSeqHeadTail
  <2>5. \A s \in Runs \ {r} : queue'[s] = queue[s] /\ toPut'[s] = toPut[s]
    BY <2>1
  <2> QED BY <2>1, <2>3, <2>4, <2>5 DEF Placed
<1>4. CASE RunAgain(r) \/ GiveUp(r)
  BY <1>4 DEF RunAgain, GiveUp, Undisturbed, Cancelling
<1> QED BY <1>1, <1>2, <1>3, <1>4 DEF Crawl

\* A worker is done with an item when it has claimed, settled or failed it.
LEMMA WorkerPlaces ==
  ASSUME TypeOK, Undisturbed, NEW r \in Runs, NEW w \in Workers, Worker(r, w),
         \A s \in Runs : Placed(s)
  PROVE  \A s \in Runs : Placed(s)'
<1> USE DEF TypeOK
<1>1. UNCHANGED <<toPut, listed>>
  BY DEF Worker, Take, Settle, Fail, Cancelled
<1>2. CASE Take(r, w)
  <2> DEFINE u == Head(queue[r])
  <2>1. /\ queue[r] # <<>>
        /\ queue' = [queue EXCEPT ![r] = Tail(@)]
        /\ u \in keys' /\ keys \subseteq keys'
        /\ UNCHANGED failed
    BY <1>2 DEF Take
  <2>2. InSeq(queue[r]) = {u} \cup InSeq(queue'[r])
    BY <2>1, InSeqHeadTail
  <2> HIDE DEF u
  <2>3. \A s \in Runs : InSeq(queue[s]) \subseteq InSeq(queue'[s]) \cup keys'
    BY <2>1, <2>2
  <2> QED BY <1>1, <2>1, <2>3 DEF Placed
<1>3. CASE Settle(r, w) \/ Fail(r, w)
  <2>1. /\ UNCHANGED queue
        /\ \/ UNCHANGED <<keys, failed>>
           \/ /\ keys' = keys \ {work[r][w]}
              /\ failed' = [failed EXCEPT ![r] = @ \cup {work[r][w]}]
    BY <1>3 DEF Settle, Fail
  <2>2. keys \cup UNION {failed[s] : s \in Runs}
          \subseteq keys' \cup UNION {failed'[s] : s \in Runs}
    <3>1. CASE UNCHANGED <<keys, failed>>
      BY <3>1
    <3>2. CASE /\ keys' = keys \ {work[r][w]}
               /\ failed' = [failed EXCEPT ![r] = @ \cup {work[r][w]}]
      <4>1. \A s \in Runs : failed[s] \subseteq failed'[s]
        BY <3>2
      <4>2. work[r][w] \in failed'[r]
        BY <3>2
      <4> QED BY <3>2, <4>1, <4>2
    <3> QED BY <2>1, <3>1, <3>2
  <2> QED BY <1>1, <2>1, <2>2 DEF Placed
<1>4. CASE Cancelled(r, w)
  BY <1>4 DEF Cancelled, Undisturbed
<1> QED BY <1>2, <1>3, <1>4 DEF Worker

\* No item gets lost on its way.
LEMMA StepDispatch == TypeOK /\ CountInv /\ DispatchInv /\ [Next]_vars => DispatchInv'
<1> SUFFICES ASSUME TypeOK, CountInv, DispatchInv, [Next]_vars, Undisturbed'
             PROVE  \A s \in Runs : Placed(s)'
  BY DEF DispatchInv, Undisturbed
<1>1. Undisturbed
  BY DisturbedForGood
<1>2. \A s \in Runs : Placed(s)
  BY <1>1 DEF DispatchInv
<1>3. CASE UNCHANGED vars
  BY <1>2, <1>3 DEF vars, Placed
<1> QED BY <1>1, <1>2, <1>3, CrawlPlaces, WorkerPlaces DEF Next, Done

\* When all goes well nothing that a crawl has listed is left out at its end: it
\* is claimed by some crawl, or some crawl has recorded its failure.
THEOREM NothingListedIsLost == Spec => []ListedIsAccountedFor
<1>1. Init => DispatchInv
  BY DEF Init, DispatchInv, Placed
<1>2. TypeOK /\ CountInv /\ EndsWhenDone /\ DispatchInv => ListedIsAccountedFor
  <2> SUFFICES ASSUME TypeOK, CountInv, EndsWhenDone, Undisturbed, DispatchInv,
                      NEW r \in Runs, phase[r] = "done"
               PROVE  /\ AllFree(r)
                      /\ listed[r] \subseteq keys \cup UNION {failed[s] : s \in Runs}
    BY DEF ListedIsAccountedFor, Undisturbed
  <2>1. Placed(r) /\ queue[r] = <<>> /\ AllFree(r)
    BY DEF DispatchInv, EndsWhenDone
  <2>2. toPut[r] = <<>>
    BY DEF CountInv, Counting, Cancelling, Counted
  <2>3. InSeq(queue[r]) = {} /\ InSeq(toPut[r]) = {}
    BY <2>1, <2>2 DEF InSeq
  <2> QED BY <2>1, <2>3 DEF Placed
<1> QED BY <1>1, <1>2, StepDispatch, CountIsExact, JoinIsExact, TypeCorrect, PTL DEF Spec
=============================================================================
