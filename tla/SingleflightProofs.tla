------------------------- MODULE SingleflightProofs -------------------------
(***************************************************************************)
(* Theorems of Singleflight, for any requests and keys: with the requests  *)
(* on one event loop, as in the unit tests, and with a loop for each as    *)
(* long as nobody has had to wait for the lock.                            *)
(***************************************************************************)
EXTENDS Singleflight, Integers, TLAPS

\* Who has been woken, or should have been, is the first in line.
HeadInv ==
  \A r \in Requests : pc[r] \in {"woken", "deaf"} => waiters # <<>> /\ Head(waiters) = r

\* Only a call that runs, or one whose lock was taken away, has no result yet.
PendingInv == \A r \in Requests : future[r] = "pending" => pc[r] \in {"running", "over"}

TypeInv == TypeOK /\ HeadInv /\ PendingInv

Answers == {"none", "ok", "err", "loop"}

\* What becomes of the line when r leaves the lock: the first of it may be woken,
\* and nobody else is touched.
LineMoves(r) ==
  \A s \in Requests \ {r} :
    \/ pc'[s] = pc[s]
    \/ /\ pc[s] = "waiting" /\ pc'[s] \in {"woken", "deaf"}
       /\ waiters # <<>> /\ s = Head(waiters)

\* A request that releases the lock goes to p with its answer, or is over if it
\* was not locked, and of the others at most the first in line is woken.
LEMMA ReleaseMoves ==
  ASSUME TypeOK, NEW r \in Requests, pc[r] # "waiting", NEW got \in Answers,
         NEW p \in Places, Release(r, got, p)
  PROVE  /\ pc' \in [Requests -> Places]
         /\ pc'[r] \in {p, "over"}
         /\ LineMoves(r)
         /\ locked' \in BOOLEAN
         /\ answer' \in [Requests -> Answers]
<1> USE DEF TypeOK, Places, Answers, LineMoves
<1>1. CASE ~locked
  BY <1>1 DEF Release
<1>2. CASE locked
  <2> DEFINE moved == [pc EXCEPT ![r] = p]
             first == Head(waiters)
  <2>1. CASE waiters # <<>> /\ pc[first] = "waiting"
    <3>1. PICK q \in {"woken", "deaf"} : pc' = [moved EXCEPT ![first] = q]
      BY <1>2, <2>1 DEF Release
    <3>2. first \in Requests
      BY <2>1
    <3>3. first # r /\ pc'[first] = q /\ pc'[r] = p
      BY <2>1, <3>1, <3>2
    <3>4. \A s \in Requests \ {r, first} : pc'[s] = pc[s]
      BY <3>1, <3>2
    <3>5. pc' \in [Requests -> Places]
      BY <3>1, <3>2
    <3>6. LineMoves(r)
      BY <2>1, <3>2, <3>3, <3>4
    <3>7. locked' = FALSE /\ answer' = [answer EXCEPT ![r] = got]
      BY <1>2 DEF Release
    <3> QED
      BY <3>3, <3>5, <3>6, <3>7
  <2>2. CASE ~(waiters # <<>> /\ pc[first] = "waiting")
    <3>1. pc' = moved
      BY <1>2, <2>2 DEF Release
    <3>2. locked' = FALSE /\ answer' = [answer EXCEPT ![r] = got]
      BY <1>2 DEF Release
    <3> QED
      BY <3>1, <3>2
  <2> QED
    BY <2>1, <2>2
<1> QED
  BY <1>1, <1>2

\* So a release keeps the line in order, whatever becomes of r.
LEMMA ReleaseKeepsHead ==
  ASSUME HeadInv, NEW r \in Requests, LineMoves(r), waiters' = waiters,
         pc'[r] \notin {"woken", "deaf"}
  PROVE  HeadInv'
BY DEF HeadInv, LineMoves

\* A request that releases the lock is not waiting for it.
Releases(r) == Lead(r) \/ Follow(r) \/ Raise(r) \/ Pop(r)

\* A release keeps the types, the order of the line and the pending futures.
LEMMA ReleaseType ==
  ASSUME TypeInv, NEW r \in Requests, Releases(r), UNCHANGED threaded
  PROVE  TypeInv'
<1> USE SingleflightAssumption DEF TypeInv
<1>1. PICK got \in Answers, p \in {"running", "over"} :
        /\ Release(r, got, p)
        /\ p = "running" \/ (Release(r, got, "over") /\ future' = future)
  <2>1. CASE Lead(r)
    BY <2>1 DEF Lead, Answers
  <2>2. CASE Follow(r)
    BY <2>2 DEF Follow, Answers
  <2>3. CASE Raise(r)
    BY <2>3 DEF Raise, Answers
  <2>4. CASE Pop(r)
    <3>1. future[r] \in Answers
      BY <2>4 DEF Pop, PendingInv, TypeOK, Answers
    <3> QED
      BY <2>4, <3>1 DEF Pop
  <2> QED
    BY <2>1, <2>2, <2>3, <2>4 DEF Releases
<1>2. pc[r] \in {"registering", "following", "raising", "inside"}
  BY DEF Releases, Lead, Follow, Raise, Pop
<1>3. /\ pc' \in [Requests -> Places] /\ pc'[r] \in {"running", "over"}
      /\ LineMoves(r)
      /\ locked' \in BOOLEAN /\ answer' \in [Requests -> Answers]
  BY <1>1, <1>2, ReleaseMoves DEF Places
<1>4. /\ UNCHANGED <<waiters, bound, joined>>
      /\ calls' \in [Keys -> Requests \cup {None}]
      /\ future' \in [Requests -> {"none", "pending", "ok", "err"}]
      /\ \A s \in Requests \ {r} : future'[s] = future[s]
  BY DEF TypeOK, Releases, Lead, Follow, Raise, Pop
<1>5. TypeOK'
  BY <1>3, <1>4 DEF TypeOK, Answers
<1>6. HeadInv'
  BY <1>3, <1>4, ReleaseKeepsHead
<1>7. PendingInv'
  BY <1>2, <1>3, <1>4 DEF PendingInv, LineMoves
<1> QED
  BY <1>5, <1>6, <1>7

\* The other steps change the place of r alone.
LEMMA StepType ==
  ASSUME TypeInv, NEW r \in Requests, Step(r)
  PROVE  TypeInv'
<1> USE SingleflightAssumption DEF TypeInv
<1>1. CASE Releases(r)
  BY <1>1, ReleaseType DEF Step
<1>2. CASE AcquireAtOnce(r)
  BY <1>2 DEF AcquireAtOnce, Step, TypeOK, HeadInv, PendingInv, Places
<1>3. CASE Grab(r)
  BY <1>3 DEF Grab, Step, TypeOK, HeadInv, PendingInv, Places
<1>4. CASE Queue(r)
  <2>1. waiters' = waiters \/ waiters' = Append(waiters, r)
    BY <1>4 DEF Queue
  <2>2. waiters' \in Seq(Requests)
    BY <2>1 DEF TypeOK
  <2>3. waiters # <<>> => waiters' # <<>> /\ Head(waiters') = Head(waiters)
    BY <2>1 DEF TypeOK
  <2>4. TypeOK'
    BY <1>4, <2>2 DEF Queue, Step, TypeOK, Places
  <2>5. \A s \in Requests : pc'[s] \in {pc[s], "waiting", "over"}
    BY <1>4 DEF Queue, TypeOK
  <2>6. HeadInv'
    BY <2>3, <2>5 DEF HeadInv
  <2>7. PendingInv'
    BY <1>4 DEF Queue, PendingInv, TypeOK
  <2> QED
    BY <2>4, <2>6, <2>7
<1>5. CASE Resume(r)
  <2>1. waiters # <<>> /\ waiters' \in Seq(Requests)
    BY <1>5 DEF Resume, TypeOK, HeadInv
  <2>2. TypeOK'
    BY <1>5, <2>1 DEF Resume, Step, TypeOK, Places
  <2>3. \A s \in Requests \ {r} : pc'[s] = pc[s] /\ pc[s] \notin {"woken", "deaf"}
    BY <1>5 DEF Resume, HeadInv, TypeOK
  <2>4. HeadInv'
    BY <1>5, <2>3 DEF Resume, HeadInv, TypeOK
  <2>5. PendingInv'
    BY <1>5 DEF Resume, PendingInv, TypeOK
  <2> QED
    BY <2>2, <2>4, <2>5
<1>6. CASE Look(r)
  <2>1. TypeOK'
    BY <1>6 DEF Look, Step, TypeOK, Places
  <2> QED
    BY <1>6, <2>1 DEF Look, TypeOK, HeadInv, PendingInv
<1>7. CASE Run(r)
  BY <1>7 DEF Run, Step, TypeOK, HeadInv, PendingInv, Places
<1> QED
  BY <1>1, <1>2, <1>3, <1>4, <1>5, <1>6, <1>7 DEF Step, Releases

\* Every variable keeps its type, the line is woken from its head, and a call
\* without a result is running or was thrown out of the lock.
LEMMA TypeInvariant == Spec => []TypeInv
<1>1. Init => TypeInv
  <2>1. ASSUME Init PROVE TypeOK
    <3>1. waiters \in Seq(Requests)
      BY <2>1 DEF Init
    <3>2. locked \in BOOLEAN /\ threaded \in BOOLEAN
      BY <2>1 DEF Init
    <3>3. bound \in Requests \cup {None} /\ calls \in [Keys -> Requests \cup {None}]
      BY <2>1 DEF Init
    <3>4. /\ pc \in [Requests -> Places]
          /\ future \in [Requests -> {"none", "pending", "ok", "err"}]
          /\ joined \in [Requests -> Requests \cup {None}]
          /\ answer \in [Requests -> {"none", "ok", "err", "loop"}]
      BY <2>1 DEF Init, Places
    <3> QED
      BY <3>1, <3>2, <3>3, <3>4 DEF TypeOK
  <2>2. Init => HeadInv /\ PendingInv
    BY DEF Init, HeadInv, PendingInv
  <2> QED
    BY <2>1, <2>2 DEF TypeInv
<1>2. TypeInv /\ [Next]_vars => TypeInv'
  <2> SUFFICES ASSUME TypeInv, [Next]_vars PROVE TypeInv'
    OBVIOUS
  <2>1. ASSUME NEW r \in Requests, Step(r) PROVE TypeInv'
    BY <2>1, StepType
  <2>2. CASE UNCHANGED vars
    BY <2>2 DEF vars, TypeInv, TypeOK, HeadInv, PendingInv
  <2> QED
    BY <2>1, <2>2 DEF Next, Done
<1> QED
  BY <1>1, <1>2, PTL DEF Spec

\* Type correctness in both modes, even where asyncio's lock lets two in.
THEOREM SingleflightTypeCorrect == Spec => []TypeOK
BY TypeInvariant, PTL DEF TypeInv

-----------------------------------------------------------------------------
(* While nobody has waited for a lock of another loop, the lock excludes.  *)

Holds(r) == pc[r] \in {"inside", "registering", "following", "raising"}

\* The lock is held by one request, it is locked then, and whoever has been
\* woken finds it free.
Exclusive ==
  /\ threaded => waiters = <<>>
  /\ \A r \in Requests : pc[r] \notin {"grabbing", "deaf"}
  /\ \A r \in Requests : Holds(r) => locked
  /\ \A r, s \in Requests : Holds(r) /\ Holds(s) => r = s
  /\ \A r \in Requests : pc[r] = "woken" => ~locked

\* On one loop the lock is never bound to one.
BoundInv == ~threaded => bound = None

\* Once bound the lock stays so.
LEMMA StepBound ==
  ASSUME BoundInv, NEW r \in Requests, Step(r)
  PROVE  /\ BoundInv'
         /\ bound' = None => bound = None
         /\ Queue(r) /\ bound' = None => ~threaded
BY SingleflightAssumption DEF BoundInv, Step, AcquireAtOnce, Grab, Queue, Resume, Look, Lead,
   Follow, Raise, Run, Pop

\* What a holder's release is: it frees the lock, has its answer, goes to its place
\* and wakes at most one that waits.
Left(r, got, p) ==
  /\ locked' = FALSE
  /\ answer' = [answer EXCEPT ![r] = got]
  /\ pc'[r] = p
  /\ \A s \in Requests \ {r} :
       \/ pc'[s] = pc[s]
       \/ ~threaded /\ pc[s] = "waiting" /\ pc'[s] = "woken"

\* A holder's release is such a step.
LEMMA QuietRelease ==
  ASSUME TypeInv, Exclusive, NEW r \in Requests, Holds(r), NEW got \in Answers,
         NEW p \in Places, Release(r, got, p)
  PROVE  Left(r, got, p)
<1> USE DEF TypeInv, TypeOK, Exclusive, Left
<1>1. locked /\ pc[r] # "waiting"
  BY DEF Holds
<1>2. locked' = FALSE /\ answer' = [answer EXCEPT ![r] = got]
  BY <1>1 DEF Release
<1> DEFINE moved == [pc EXCEPT ![r] = p]
           first == Head(waiters)
<1>3. CASE waiters # <<>> /\ pc[first] = "waiting"
  <2>1. ~threaded /\ first \in Requests
    BY <1>3
  <2>2. pc' = [moved EXCEPT ![first] = "woken"]
    BY <1>1, <1>3, <2>1 DEF Release
  <2> QED
    BY <1>1, <1>2, <1>3, <2>1, <2>2
<1>4. CASE ~(waiters # <<>> /\ pc[first] = "waiting")
  <2>1. pc' = moved
    BY <1>1, <1>4 DEF Release
  <2> QED
    BY <1>2, <2>1
<1> QED
  BY <1>3, <1>4

\* Whatever a request releases the lock for, it held it.
LEMMA HoldersLeave ==
  ASSUME TypeInv, Exclusive, NEW r \in Requests
  PROVE  /\ Lead(r) => Left(r, "none", "running")
         /\ Follow(r) => Left(r, future[joined[r]], "over")
         /\ Raise(r) => Left(r, "loop", "over")
         /\ Pop(r) => Left(r, future[r], "over")
<1> USE DEF Holds
<1>1. {"none", "loop", "ok", "err"} \subseteq Answers /\ {"running", "over"} \subseteq Places
  BY DEF Answers, Places
<1>2. ASSUME Lead(r) PROVE Left(r, "none", "running")
  BY <1>1, <1>2, QuietRelease DEF Lead
<1>3. ASSUME Follow(r) PROVE Left(r, future[joined[r]], "over")
  BY <1>1, <1>3, QuietRelease DEF Follow
<1>4. ASSUME Raise(r) PROVE Left(r, "loop", "over")
  BY <1>1, <1>4, QuietRelease DEF Raise
<1>5. ASSUME Pop(r) PROVE Left(r, future[r], "over")
  <2>1. future[r] \in Answers
    BY <1>1, <1>5 DEF Pop, TypeInv, PendingInv, TypeOK
  <2> QED
    BY <1>1, <1>5, <2>1, QuietRelease DEF Pop
<1> QED
  BY <1>2, <1>3, <1>4, <1>5

\* Until a lock is waited for on a loop of its own every step keeps it exclusive.
LEMMA StepExclusive ==
  ASSUME TypeInv, BoundInv, Exclusive, NEW r \in Requests, Step(r), bound' = None
  PROVE  Exclusive'
<1> USE DEF Exclusive, Holds
<1>1. CASE Releases(r)
  <2>1. /\ ~locked' /\ pc'[r] \in {"running", "over"}
        /\ \A s \in Requests \ {r} :
             \/ pc'[s] = pc[s]
             \/ ~threaded /\ pc[s] = "waiting" /\ pc'[s] = "woken"
    BY <1>1, HoldersLeave DEF Releases, Left
  <2>2. Holds(r) /\ UNCHANGED <<waiters, threaded>>
    BY <1>1 DEF Releases, Lead, Follow, Raise, Pop, Step
  <2> QED
    BY <2>1, <2>2
<1>2. CASE AcquireAtOnce(r)
  <2>1. /\ locked' = TRUE /\ UNCHANGED <<waiters, threaded>> /\ ~locked
        /\ pc' = [pc EXCEPT ![r] = "inside"]
    BY <1>2, StepBound DEF AcquireAtOnce, Step
  <2>2. \A s \in Requests : pc[s] # "woken"
    BY <1>2 DEF AcquireAtOnce, TypeInv, HeadInv
  <2> QED
    BY <2>1, <2>2 DEF TypeInv, TypeOK
<1>3. CASE Queue(r)
  BY <1>3, StepBound DEF Queue, Step, TypeInv, TypeOK
<1>4. CASE Resume(r)
  <2>1. /\ ~locked /\ locked' = TRUE /\ threaded' = threaded
        /\ pc' = [pc EXCEPT ![r] = "inside"]
    BY <1>4 DEF Resume, Step
  <2>2. \A s \in Requests \ {r} : pc[s] # "woken"
    BY <1>4 DEF Resume, TypeInv, HeadInv
  <2>3. ~threaded
    BY <1>4 DEF Resume, TypeInv, HeadInv
  <2> QED
    BY <2>1, <2>2, <2>3 DEF TypeInv, TypeOK
<1>5. CASE Look(r)
  BY <1>5 DEF Look, Step, TypeInv, TypeOK
<1>6. CASE Run(r)
  BY <1>6 DEF Run, Step, TypeInv, TypeOK
<1>7. ~Grab(r)
  BY DEF Grab
<1> QED
  BY <1>1, <1>2, <1>3, <1>4, <1>5, <1>6, <1>7 DEF Step, Releases

-----------------------------------------------------------------------------
(* Then the table of calls is exact, a key for each leader under way.      *)

\* A leader has its key until it is over, and a request that is about to lead
\* finds the key free; who has not looked yet, or follows, does not lead.
CallsInv ==
  /\ \A r \in Requests :
       /\ Leads(r) /\ pc[r] # "over" => calls[Key[r]] = r
       /\ pc[r] = "registering" => calls[Key[r]] = None
       /\ pc[r] \in {"idle", "registering", "following", "raising"} => ~Leads(r)
       /\ pc[r] = "running" <=> future[r] = "pending"
  /\ \A k \in Keys : calls[k] # None =>
       pc[calls[k]] # "over" /\ Key[calls[k]] = k /\ Leads(calls[k])

\* A leader's key enters the table before it runs and leaves it with its lock.
LEMMA StepCalls ==
  ASSUME TypeInv, BoundInv, Exclusive, CallsInv, NEW r \in Requests, Step(r), bound' = None
  PROVE  CallsInv'
<1> USE SingleflightAssumption DEF CallsInv, Leads
<1> USE DEF TypeInv, TypeOK
<1>1. CASE Lead(r)
  <2>1. Left(r, "none", "running") /\ pc[r] = "registering"
    BY <1>1, HoldersLeave DEF Lead
  <2>2. \A s \in Requests \ {r} : pc[s] # "registering"
    BY <2>1 DEF Exclusive, Holds
  <2> QED
    BY <1>1, <2>1, <2>2 DEF Lead, Left
<1>2. CASE Follow(r) \/ Raise(r)
  <2>1. /\ pc[r] \in {"following", "raising"} /\ pc'[r] = "over"
        /\ \A s \in Requests \ {r} :
             pc'[s] = pc[s] \/ (pc[s] = "waiting" /\ pc'[s] = "woken")
        /\ UNCHANGED <<calls, future>>
    BY <1>2, HoldersLeave DEF Left, Follow, Raise
  <2> QED
    BY <2>1
<1>3. CASE Pop(r)
  <2>1. Left(r, future[r], "over") /\ pc[r] = "inside" /\ Leads(r)
    BY <1>3, HoldersLeave DEF Pop
  <2> QED
    BY <1>3, <2>1 DEF Pop, Left
<1>4. CASE AcquireAtOnce(r)
  BY <1>4 DEF AcquireAtOnce
<1>5. CASE Queue(r)
  BY <1>5, StepBound DEF Queue
<1>6. CASE Resume(r)
  BY <1>6 DEF Resume
<1>7. CASE Look(r)
  BY <1>7 DEF Look, MayLead
<1>8. CASE Run(r)
  BY <1>8 DEF Run
<1>9. ~Grab(r)
  BY DEF Grab, Exclusive
<1> QED
  BY <1>1, <1>2, <1>3, <1>4, <1>5, <1>6, <1>7, <1>8, <1>9 DEF Step

GroupInv == BoundInv /\ (bound = None => Exclusive /\ CallsInv)

\* The lock excludes and the table is exact until a lock is waited for on a loop
\* of its own.
LEMMA GroupInvariant == Spec => []GroupInv
<1>1. Init => GroupInv
  BY DEF Init, GroupInv, BoundInv, Exclusive, Holds, CallsInv, Leads
<1>2. TypeInv /\ GroupInv /\ [Next]_vars => GroupInv'
  <2> SUFFICES ASSUME TypeInv, GroupInv, [Next]_vars PROVE GroupInv'
    OBVIOUS
  <2>1. ASSUME NEW r \in Requests, Step(r) PROVE GroupInv'
    <3>1. BoundInv' /\ (bound' = None => bound = None)
      BY <2>1, StepBound DEF GroupInv
    <3>2. ASSUME bound' = None PROVE Exclusive' /\ CallsInv'
      BY <2>1, <3>1, <3>2, StepExclusive, StepCalls DEF GroupInv
    <3> QED
      BY <3>1, <3>2 DEF GroupInv
  <2>2. CASE UNCHANGED vars
    BY <2>2 DEF vars, GroupInv, BoundInv, Exclusive, Holds, CallsInv, Leads
  <2> QED
    BY <2>1, <2>2 DEF Next, Done
<1> QED
  BY <1>1, <1>2, TypeInvariant, PTL DEF Spec

\* SingleflightGroup.do executes fn once per key at a time, however the requests
\* interleave on one loop, and on several as long as the lock is free for each.
THEOREM RunsDoNotOverlap == Spec => []OneRunPerKey
<1>1. TypeInv /\ GroupInv => OneRunPerKey
  BY DEF TypeInv, TypeOK, GroupInv, BoundInv, CallsInv, Leads, OneRunPerKey
<1> QED
  BY <1>1, TypeInvariant, GroupInvariant, PTL

\* The table of calls has a key exactly for each leader that is under way.
THEOREM TableIsExact == Spec => []CallsAreExact
<1>1. ASSUME TypeInv, GroupInv PROVE CallsAreExact
  <2> SUFFICES ASSUME bound = None, NEW k \in Keys
               PROVE  {r \in Requests : Key[r] = k /\ Leads(r) /\ pc[r] # "over"}
                        = {calls[k]} \ {None}
    BY <1>1 DEF CallsAreExact, GroupInv, BoundInv
  <2>1. CallsInv /\ calls[k] \in Requests \cup {None}
    BY <1>1 DEF GroupInv, TypeInv, TypeOK
  <2>2. \A r \in Requests :
          Key[r] = k /\ Leads(r) /\ pc[r] # "over" <=> calls[k] = r
    BY <2>1, SingleflightAssumption DEF CallsInv
  <2> QED
    BY <2>1, <2>2, SingleflightAssumption
<1> QED
  BY <1>1, TypeInvariant, GroupInvariant, PTL

\* Nobody joins a call that has been answered: the key is freed before.
THEOREM JoinedCallsAreFresh == Spec => SharesAFreshResult
<1> DEFINE Fresh ==
      \A r \in Requests :
        ~threaded /\ pc[r] = "idle" /\ pc'[r] # "idle" /\ calls[Key[r]] # None
          => pc[calls[Key[r]]] # "over"
<1>1. GroupInv => Fresh
  BY SingleflightAssumption DEF GroupInv, BoundInv, CallsInv
<1>2. GroupInv /\ [Next]_vars => [Fresh]_vars
  BY <1>1
<1> QED
  BY <1>2, GroupInvariant, PTL DEF Spec, SharesAFreshResult

-----------------------------------------------------------------------------
(* On one loop what a follower gets is the leader's result.                *)

\* A follower has joined somebody who leads, and is answered with that call's
\* result, which does not change any more.
Joined(r) ==
  /\ pc[r] # "raising"
  /\ joined[r] # None =>
       /\ pc[r] \in {"following", "over"} /\ Leads(joined[r])
       /\ pc[r] = "over" => answer[r] = future[joined[r]] /\ answer[r] \in {"ok", "err"}

JoinInv == ~threaded => \A r \in Requests : Joined(r)

\* A joined call stays one that leads, and its result does not change any more.
LEMMA StepJoin ==
  ASSUME TypeInv, GroupInv, JoinInv, NEW r \in Requests, Step(r)
  PROVE  JoinInv'
<1> SUFFICES ASSUME ~threaded PROVE \A s \in Requests : Joined(s)'
  BY DEF JoinInv, Step
<1>1. Exclusive /\ CallsInv /\ \A s \in Requests : Joined(s)
  BY DEF GroupInv, BoundInv, JoinInv
<1> USE SingleflightAssumption, <1>1 DEF Joined, Leads
<1> USE DEF TypeInv, TypeOK
<1>2. CASE Lead(r)
  <2>1. Left(r, "none", "running") /\ pc[r] = "registering" /\ ~Leads(r)
    BY <1>2, HoldersLeave DEF Lead, CallsInv
  <2> QED
    BY <1>2, <2>1 DEF Lead, Left
<1>3. CASE Follow(r)
  <2>1. Left(r, future[joined[r]], "over") /\ future[joined[r]] \in {"ok", "err"}
    BY <1>3, HoldersLeave DEF Follow
  <2> QED
    BY <1>3, <2>1 DEF Follow, Left
<1>4. ~Raise(r)
  BY DEF Raise
<1>5. CASE Pop(r)
  <2>1. Left(r, future[r], "over") /\ pc[r] = "inside"
    BY <1>5, HoldersLeave DEF Pop
  <2> QED
    BY <1>5, <2>1 DEF Pop, Left
<1>6. CASE AcquireAtOnce(r) \/ Resume(r)
  BY <1>6 DEF AcquireAtOnce, Resume
<1>7. CASE Queue(r)
  BY <1>7 DEF Queue
<1>8. CASE Look(r)
  BY <1>8 DEF Look, MayLead, CallsInv
<1>9. CASE Run(r)
  <2>1. future[r] = "pending" /\ future'[r] \in {"ok", "err"}
    BY <1>9 DEF Run, CallsInv
  <2>2. \A s \in Requests : pc[s] = "over" => joined[s] # r
    BY <2>1
  <2>3. \A s \in Requests : s # r => pc'[s] = pc[s] /\ future'[s] = future[s]
    BY <1>9 DEF Run
  <2>4. pc[r] = "running" /\ pc'[r] = "closing" /\ UNCHANGED <<joined, answer>>
    BY <1>9 DEF Run
  <2> QED
    BY <2>1, <2>2, <2>3, <2>4
<1>10. ~Grab(r)
  BY DEF Grab, Exclusive
<1> QED
  BY <1>2, <1>3, <1>4, <1>5, <1>6, <1>7, <1>8, <1>9, <1>10 DEF Step

\* On one loop a call that has been joined is never lost.
LEMMA JoinInvariant == Spec => []JoinInv
<1>1. Init => JoinInv
  BY DEF Init, JoinInv, Joined
<1>2. TypeInv /\ GroupInv /\ JoinInv /\ [Next]_vars => JoinInv'
  <2> SUFFICES ASSUME TypeInv, GroupInv, JoinInv, [Next]_vars PROVE JoinInv'
    OBVIOUS
  <2>1. ASSUME NEW r \in Requests, Step(r) PROVE JoinInv'
    BY <2>1, StepJoin
  <2>2. CASE UNCHANGED vars
    BY <2>2 DEF vars, JoinInv, Joined, Leads
  <2> QED
    BY <2>1, <2>2 DEF Next, Done
<1> QED
  BY <1>1, <1>2, TypeInvariant, GroupInvariant, PTL DEF Spec

\* On one event loop every request that found a call for its key is answered with
\* that call's result, be it a value or an error.
THEOREM FollowersGetTheResult == Spec => []SharedOnOneLoop
<1>1. JoinInv => SharedOnOneLoop
  BY DEF JoinInv, Joined, SharedOnOneLoop, FollowersShareTheResult
<1> QED
  BY <1>1, JoinInvariant, PTL

-----------------------------------------------------------------------------
(* On one loop the lock and the futures never wait for each other.         *)

\* Who waits is in line, once, and the first in line has been woken when the lock
\* is free; a lock that is not free has a holder, and a follower a call.
WaitInv ==
  ~threaded =>
    /\ locked => \E r \in Requests : Holds(r)
    /\ ~locked /\ waiters # <<>> => pc[Head(waiters)] = "woken"
    /\ \A i \in 1 .. Len(waiters) : pc[waiters[i]] \in {"waiting", "woken"}
    /\ \A i, j \in 1 .. Len(waiters) : waiters[i] = waiters[j] => i = j
    /\ \A r \in Requests : pc[r] = "waiting" => \E i \in 1 .. Len(waiters) : waiters[i] = r
    /\ \A r \in Requests : pc[r] = "following" => joined[r] # None

\* A holder that leaves wakes the first in line.
LEMMA WakesHead ==
  ASSUME TypeInv, Exclusive, WaitInv, ~threaded, NEW r \in Requests, Holds(r),
         NEW got \in Answers, NEW p \in Places, Release(r, got, p), waiters # <<>>
  PROVE  pc'[Head(waiters)] = "woken"
<1> USE DEF TypeInv, TypeOK
<1> DEFINE moved == [pc EXCEPT ![r] = p]
           first == Head(waiters)
<1>1. locked /\ first \in Requests
  BY DEF Exclusive
<1>2. pc[first] \in {"waiting", "woken"}
  <2>1. 1 \in 1 .. Len(waiters) /\ first = waiters[1]
    OBVIOUS
  <2> QED
    BY <2>1 DEF WaitInv
<1>3. pc[first] = "waiting"
  BY <1>1, <1>2 DEF Exclusive
<1>4. pc' = [moved EXCEPT ![first] = "woken"]
  BY <1>1, <1>3 DEF Release
<1> QED
  BY <1>1, <1>4

\* It keeps the line as it is, but for the one it wakes.
LEMMA ReleaseWaits ==
  ASSUME TypeInv, Exclusive, WaitInv, NEW r \in Requests, Releases(r), Step(r), ~threaded
  PROVE  WaitInv'
<1> USE DEF TypeInv, TypeOK
<1>1. PICK got \in Answers, p \in {"running", "over"} :
        Release(r, got, p) /\ Left(r, got, p)
  <2>1. {"none", "loop", "ok", "err"} \subseteq Answers
    BY DEF Answers
  <2>2. CASE Lead(r)
    BY <2>1, <2>2, HoldersLeave DEF Lead
  <2>3. CASE Follow(r)
    BY <2>1, <2>3, HoldersLeave DEF Follow
  <2>4. CASE Raise(r)
    BY <2>1, <2>4, HoldersLeave DEF Raise
  <2>5. CASE Pop(r)
    <3>1. future[r] \in Answers
      BY <2>1, <2>5 DEF Pop, PendingInv
    <3> QED
      BY <2>5, <3>1, HoldersLeave DEF Pop
  <2> QED
    BY <2>2, <2>3, <2>4, <2>5 DEF Releases
<1>2. Holds(r) /\ UNCHANGED <<threaded, waiters, joined>>
  BY DEF Releases, Lead, Follow, Raise, Pop, Holds, Step
<1>3. waiters # <<>> => pc'[Head(waiters)] = "woken"
  BY <1>1, <1>2, WakesHead DEF Places
<1>4. /\ ~locked' /\ pc'[r] \in {"running", "over"}
      /\ \A s \in Requests \ {r} :
           pc'[s] = pc[s] \/ (pc[s] = "waiting" /\ pc'[s] = "woken")
  BY <1>1 DEF Left
<1>5. \A i \in 1 .. Len(waiters) : waiters[i] \in Requests \ {r}
  BY <1>2 DEF WaitInv, Holds
<1> QED
  BY <1>2, <1>3, <1>4, <1>5 DEF WaitInv

\* Every other step gets in line at its end, leaves it from its head or keeps it.
LEMMA StepWaits ==
  ASSUME TypeInv, GroupInv, WaitInv, NEW r \in Requests, Step(r)
  PROVE  WaitInv'
<1> SUFFICES ASSUME ~threaded PROVE WaitInv'
  BY DEF WaitInv, Step
<1>1. Exclusive /\ CallsInv
  BY DEF GroupInv, BoundInv
<1> USE DEF TypeInv, TypeOK
<1>2. CASE Releases(r)
  BY <1>1, <1>2, ReleaseWaits
<1>3. CASE AcquireAtOnce(r)
  <2>1. waiters = <<>> /\ locked' /\ pc' = [pc EXCEPT ![r] = "inside"]
        /\ UNCHANGED <<threaded, waiters, joined>>
    BY <1>3 DEF AcquireAtOnce, Step, GroupInv, BoundInv
  <2> QED
    BY <2>1 DEF WaitInv, Holds
<1>4. CASE Queue(r)
  <2>1. /\ pc[r] \in {"idle", "closing"} /\ (locked \/ waiters # <<>>)
        /\ waiters' = Append(waiters, r) /\ pc' = [pc EXCEPT ![r] = "waiting"]
        /\ UNCHANGED <<threaded, locked, joined>>
    BY <1>4 DEF Queue, Step
  <2>2. /\ Len(waiters') = Len(waiters) + 1 /\ Len(waiters) \in Nat
        /\ \A i \in 1 .. Len(waiters) : waiters'[i] = waiters[i] /\ waiters[i] \in Requests
        /\ waiters'[Len(waiters) + 1] = r
    BY <2>1
  <2>3. waiters # <<>> => Head(waiters') = Head(waiters) /\ Head(waiters) \in Requests
    BY <2>1
  <2>4. \A i \in 1 .. Len(waiters) : waiters[i] # r
    BY <2>1 DEF WaitInv
  <2>5. \A s \in Requests : s # r => pc'[s] = pc[s]
    BY <2>1
  <2>6. pc'[r] = "waiting"
    BY <2>1
  <2>7. locked' => \E s \in Requests : Holds(s)'
    BY <2>1, <2>5 DEF WaitInv, Holds
  <2>8. ~locked' /\ waiters' # <<>> => pc'[Head(waiters')] = "woken"
    BY <2>1, <2>3, <2>5 DEF WaitInv
  <2>9. \A i \in 1 .. Len(waiters') :
          (i \in 1 .. Len(waiters) /\ waiters'[i] = waiters[i])
            \/ (i = Len(waiters) + 1 /\ waiters'[i] = r)
    BY <2>2
  <2>10. \A i \in 1 .. Len(waiters') : pc'[waiters'[i]] \in {"waiting", "woken"}
    BY <2>2, <2>4, <2>5, <2>6, <2>9 DEF WaitInv
  <2>11. \A i, j \in 1 .. Len(waiters') : waiters'[i] = waiters'[j] => i = j
    BY <2>4, <2>9 DEF WaitInv
  <2>12. ASSUME NEW s \in Requests, pc'[s] = "waiting"
         PROVE  \E i \in 1 .. Len(waiters') : waiters'[i] = s
    <3>1. CASE s = r
      <4>1. Len(waiters) + 1 \in 1 .. Len(waiters')
        BY <2>2
      <4> QED
        BY <2>2, <3>1, <4>1
    <3>2. CASE s # r
      <4>1. PICK i \in 1 .. Len(waiters) : waiters[i] = s
        BY <2>5, <2>12, <3>2 DEF WaitInv
      <4>2. i \in 1 .. Len(waiters') /\ waiters'[i] = s
        BY <2>2, <4>1
      <4> QED
        BY <4>2
    <3> QED
      BY <3>1, <3>2
  <2>13. \A s \in Requests : pc'[s] = "following" => joined'[s] # None
    BY <2>1, <2>5, <2>6 DEF WaitInv
  <2> QED
    BY <2>1, <2>7, <2>8, <2>10, <2>11, <2>12, <2>13 DEF WaitInv
<1>5. CASE Resume(r)
  <2>1. /\ waiters # <<>> /\ Head(waiters) = r /\ waiters' = Tail(waiters)
        /\ locked' /\ pc' = [pc EXCEPT ![r] = "inside"]
        /\ UNCHANGED <<threaded, joined>>
    BY <1>5 DEF Resume, Step, HeadInv
  <2>2. /\ Len(waiters') = Len(waiters) - 1 /\ Len(waiters) \in Nat /\ waiters[1] = r
        /\ \A i \in 1 .. Len(waiters') : waiters'[i] = waiters[i + 1]
    BY <2>1
  <2>3. \A i \in 1 .. Len(waiters') :
          i + 1 \in 1 .. Len(waiters) /\ waiters[i + 1] \in Requests \ {r}
    <3> TAKE i \in 1 .. Len(waiters')
    <3>1. i + 1 \in 1 .. Len(waiters) /\ 1 \in 1 .. Len(waiters) /\ i + 1 # 1
      BY <2>2
    <3>2. waiters[i + 1] # waiters[1]
      BY <3>1 DEF WaitInv
    <3> QED
      BY <2>2, <3>1, <3>2
  <2>4. \A s \in Requests : s # r => pc'[s] = pc[s]
    BY <2>1
  <2>5. pc'[r] = "inside"
    BY <2>1
  <2>6. \A i \in 1 .. Len(waiters') : pc'[waiters'[i]] \in {"waiting", "woken"}
    BY <2>2, <2>3, <2>4 DEF WaitInv
  <2>7. ASSUME NEW i \in 1 .. Len(waiters'), NEW j \in 1 .. Len(waiters'),
               waiters'[i] = waiters'[j]
        PROVE  i = j
    <3>1. waiters[i + 1] = waiters[j + 1]
      BY <2>2, <2>7
    <3>2. i + 1 = j + 1
      BY <2>3, <3>1 DEF WaitInv
    <3> QED
      BY <3>2
  <2>8. ASSUME NEW s \in Requests, pc'[s] = "waiting"
        PROVE  \E i \in 1 .. Len(waiters') : waiters'[i] = s
    <3>1. s # r /\ pc[s] = "waiting"
      BY <2>4, <2>5, <2>8
    <3>2. PICK k \in 1 .. Len(waiters) : waiters[k] = s
      BY <3>1 DEF WaitInv
    <3>3. k - 1 \in 1 .. Len(waiters') /\ waiters'[k - 1] = s
      BY <2>2, <3>1, <3>2
    <3> QED
      BY <3>3
  <2>9. \A s \in Requests : pc'[s] = "following" => joined'[s] # None
    BY <2>1, <2>4, <2>5 DEF WaitInv
  <2>10. \E s \in Requests : Holds(s)'
    BY <2>5 DEF Holds
  <2> QED
    BY <2>1, <2>6, <2>7, <2>8, <2>9, <2>10 DEF WaitInv
<1>6. CASE Look(r)
  <2>1. /\ UNCHANGED <<threaded, locked, waiters>> /\ pc[r] = "inside"
        /\ \/ pc' = [pc EXCEPT ![r] = "registering"] /\ UNCHANGED joined
           \/ /\ pc' = [pc EXCEPT ![r] = "following"]
              /\ joined' = [joined EXCEPT ![r] = calls[Key[r]]] /\ calls[Key[r]] # None
    BY <1>6 DEF Look, MayLead, Step
  <2>2. \A i \in 1 .. Len(waiters) : waiters[i] \in Requests \ {r}
    BY <2>1 DEF WaitInv
  <2>3. Head(waiters) # r \/ waiters = <<>>
    BY <2>2
  <2>4. Holds(r)' /\ pc'[r] # "waiting" /\ \A s \in Requests : s # r => pc'[s] = pc[s]
    BY <2>1 DEF Holds
  <2>5. \A s \in Requests : pc'[s] = "following" => joined'[s] # None
    BY <2>1, <2>4 DEF WaitInv
  <2>6. ~locked' => waiters' = <<>>
    BY <1>1, <2>1 DEF Exclusive, Holds
  <2> QED
    BY <2>1, <2>2, <2>4, <2>5, <2>6 DEF WaitInv
<1>7. CASE Run(r)
  <2>1. /\ UNCHANGED <<threaded, locked, waiters, joined>>
        /\ pc[r] = "running" /\ pc' = [pc EXCEPT ![r] = "closing"]
    BY <1>7 DEF Run, Step
  <2>2. \A i \in 1 .. Len(waiters) : waiters[i] \in Requests \ {r}
    BY <2>1 DEF WaitInv
  <2>3. waiters # <<>> => Head(waiters) \in Requests
    OBVIOUS
  <2>4. \A s \in Requests : Holds(s) => Holds(s)'
    BY <2>1 DEF Holds
  <2>5. pc'[r] = "closing" /\ \A s \in Requests : s # r => pc'[s] = pc[s]
    BY <2>1
  <2>6. ~locked' /\ waiters' # <<>> => pc'[Head(waiters')] = "woken"
    BY <2>1, <2>3, <2>5 DEF WaitInv
  <2> QED
    BY <2>1, <2>2, <2>4, <2>5, <2>6 DEF WaitInv
<1>8. ~Grab(r)
  BY <1>1 DEF Grab, Exclusive
<1> QED
  BY <1>2, <1>3, <1>4, <1>5, <1>6, <1>7, <1>8 DEF Step, Releases

\* The guards of the steps of a request on one loop, spelled out.
Moves(r) ==
  \/ pc[r] \in {"idle", "closing", "woken", "inside", "registering", "running"}
  \/ pc[r] = "following" /\ future[joined[r]] \in {"ok", "err"}

\* A follower awaits its call with the lock in hand, and the call wants the lock
\* back before it is over: even so somebody can always go on.
NoDeadlockOnOneLoop == ~threaded => AllOver \/ \E r \in Requests : Moves(r)

\* Requests on one event loop never deadlock: a call has its result before it asks
\* for the lock again, so that no follower waits for one that waits for the lock.
THEOREM OneLoopNeverDeadlocks == Spec => []NoDeadlockOnOneLoop
<1>1. Init => WaitInv
  BY DEF Init, WaitInv, Holds
<1>2. TypeInv /\ GroupInv /\ WaitInv /\ [Next]_vars => WaitInv'
  <2> SUFFICES ASSUME TypeInv, GroupInv, WaitInv, [Next]_vars PROVE WaitInv'
    OBVIOUS
  <2>1. ASSUME NEW r \in Requests, Step(r) PROVE WaitInv'
    BY <2>1, StepWaits
  <2>2. CASE UNCHANGED vars
    BY <2>2 DEF vars, WaitInv, Holds
  <2> QED
    BY <2>1, <2>2 DEF Next, Done
<1>3. ASSUME TypeInv, GroupInv, JoinInv, WaitInv PROVE NoDeadlockOnOneLoop
  <2> SUFFICES ASSUME ~threaded, NEW r \in Requests, pc[r] # "over"
               PROVE  \E s \in Requests : Moves(s)
    BY DEF NoDeadlockOnOneLoop, AllOver
  <2> USE <1>3 DEF TypeInv, TypeOK
  <2>1. Exclusive /\ CallsInv /\ \A s \in Requests : Joined(s)
    BY DEF GroupInv, BoundInv, JoinInv
  <2>2. ASSUME NEW s \in Requests, pc[s] \notin {"over", "waiting"}
        PROVE  \E q \in Requests : Moves(q)
    <3>1. CASE pc[s] = "following"
      <4>1. joined[s] \in Requests /\ Leads(joined[s])
        BY <2>1, <3>1 DEF WaitInv, Joined
      <4>2. CASE future[joined[s]] = "pending"
        BY <2>1, <4>1, <4>2 DEF CallsInv, Moves
      <4>3. CASE future[joined[s]] # "pending"
        BY <3>1, <4>1, <4>3 DEF Leads, Moves
      <4> QED
        BY <4>2, <4>3
    <3>2. CASE pc[s] # "following"
      BY <2>1, <2>2, <3>2 DEF Exclusive, Joined, Places, Moves
    <3> QED
      BY <3>1, <3>2
  <2>3. CASE pc[r] = "waiting"
    <3>1. waiters # <<>> /\ Head(waiters) \in Requests
      BY <2>3 DEF WaitInv
    <3>2. CASE locked
      BY <2>2, <3>2 DEF WaitInv, Holds
    <3>3. CASE ~locked
      BY <2>2, <3>1, <3>3 DEF WaitInv
    <3> QED
      BY <3>2, <3>3
  <2> QED
    BY <2>2, <2>3
<1> QED
  BY <1>1, <1>2, <1>3, JoinInvariant, TypeInvariant, GroupInvariant, PTL DEF Spec
=============================================================================
