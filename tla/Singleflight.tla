---------------------------- MODULE Singleflight ----------------------------
(***************************************************************************)
(* SingleflightGroup.do: concurrent requests for one URL are to share one  *)
(* execution.  A group holds one asyncio.Lock and a future per key.        *)
(*                                                                         *)
(* Without threads all requests are tasks of one event loop, as in the     *)
(* unit tests; with threads each has a thread and a loop of its own, as    *)
(* predict_by_url has under app.run.  asyncio then behaves                 *)
(* otherwise in three places: awaiting a pending future of another loop    *)
(* raises, so does waiting for a lock that is bound to another loop, and a *)
(* waiter woken from another thread may never notice.  Threads may also be *)
(* switched inside Lock.acquire, between its test of a lock that has had   *)
(* waiters and the assignment, and between the look at _calls and the      *)
(* registration.                                                           *)
(*                                                                         *)
(* A definition named D_X is D with a bug X put in: see TaskArray.tla.     *)
(***************************************************************************)
EXTENDS Sequences, FiniteSets

CONSTANTS
  Requests,
  Keys,
  Key,       \* the key of each request
  None

ASSUME SingleflightAssumption ==
  /\ Key \in [Requests -> Keys]
  /\ None \notin Requests

VARIABLES
  threaded, \* every request has a thread and an event loop of its own
  pc,       \* where each request is
  locked,   \* _lock._locked
  waiters,  \* _lock._waiters
  bound,    \* the request whose loop the lock is bound to
  calls,    \* _calls: the request that leads each key
  future,   \* the state of the future of each leader
  joined,   \* the leader whose future a follower awaits
  answer    \* what the request got; "loop" is a RuntimeError of asyncio

vars == <<threaded, pc, locked, waiters, bound, calls, future, joined, answer>>

Places == {"idle", "waiting", "woken", "deaf", "grabbing", "inside", "registering",
           "following", "raising", "running", "closing", "over"}

TypeOK ==
  /\ threaded \in BOOLEAN
  /\ pc \in [Requests -> Places]
  /\ locked \in BOOLEAN
  /\ waiters \in Seq(Requests)
  /\ bound \in Requests \cup {None}
  /\ calls \in [Keys -> Requests \cup {None}]
  /\ future \in [Requests -> {"none", "pending", "ok", "err"}]
  /\ joined \in [Requests -> Requests \cup {None}]
  /\ answer \in [Requests -> {"none", "ok", "err", "loop"}]

Init ==
  /\ threaded \in BOOLEAN
  /\ pc = [r \in Requests |-> "idle"]
  /\ locked = FALSE /\ waiters = <<>> /\ bound = None
  /\ calls = [k \in Keys |-> None]
  /\ future = [r \in Requests |-> "none"]
  /\ joined = [r \in Requests |-> None]
  /\ answer = [r \in Requests |-> "none"]

Leads(r) == future[r] # "none"

-----------------------------------------------------------------------------
(* asyncio.Lock, external                                                  *)

\* The lock is free and nobody is in line.
AcquireAtOnce(r) ==
  /\ pc[r] \in {"idle", "closing"}
  /\ ~locked /\ waiters = <<>>
  /\ \/ /\ locked' = TRUE
        /\ pc' = [pc EXCEPT ![r] = "inside"]
     \/ /\ bound # None
        /\ pc' = [pc EXCEPT ![r] = "grabbing"]
        /\ UNCHANGED locked
  /\ UNCHANGED <<waiters, bound, calls, future, joined, answer>>

\* The assignment comes late: another thread may have the lock by now.
Grab(r) ==
  /\ pc[r] = "grabbing"
  /\ locked' = TRUE
  /\ pc' = [pc EXCEPT ![r] = "inside"]
  /\ UNCHANGED <<waiters, bound, calls, future, joined, answer>>

\* Get in line; the first to do so binds the lock to its loop.
Queue(r) ==
  /\ pc[r] \in {"idle", "closing"}
  /\ locked \/ waiters # <<>>
  /\ \/ /\ ~threaded \/ bound \in {None, r}
        /\ bound' = IF threaded THEN r ELSE bound
        /\ waiters' = Append(waiters, r)
        /\ pc' = [pc EXCEPT ![r] = "waiting"]
        /\ UNCHANGED answer
     \/ /\ threaded /\ bound \notin {None, r}
        /\ pc' = [pc EXCEPT ![r] = "over"]
        /\ answer' = [answer EXCEPT ![r] = "loop"]
        /\ UNCHANGED <<bound, waiters>>
  /\ UNCHANGED <<locked, calls, future, joined>>

\* The first in line resumes; it takes the lock without looking again.
Resume(r) ==
  /\ pc[r] = "woken"
  /\ waiters' = Tail(waiters)
  /\ locked' = TRUE
  /\ pc' = [pc EXCEPT ![r] = "inside"]
  /\ UNCHANGED <<bound, calls, future, joined, answer>>

\* Request r releases the lock, has the answer it got and goes to place p.  That
\* wakes the first in line; another thread's loop may sleep on.  A lock that is
\* not locked raises.
Release(r, got, p) ==
  \/ /\ locked
     /\ locked' = FALSE
     /\ answer' = [answer EXCEPT ![r] = got]
     /\ LET moved == [pc EXCEPT ![r] = p]
            first == Head(waiters)
        IN  IF waiters # <<>> /\ pc[first] = "waiting"
            THEN \E q \in IF threaded THEN {"woken", "deaf"} ELSE {"woken"} :
                   pc' = [moved EXCEPT ![first] = q]
            ELSE pc' = moved
  \/ /\ ~locked
     /\ answer' = [answer EXCEPT ![r] = "loop"]
     /\ pc' = [pc EXCEPT ![r] = "over"]
     /\ UNCHANGED locked

-----------------------------------------------------------------------------
(* SingleflightGroup.do                                                    *)

MayLead_NotPending(r) ==
  \A s \in Requests : calls[Key[r]] = s => future[s] # "pending"

\* No call is registered for the key.
MayLead(r) == calls[Key[r]] = None

\* Look at the registered calls: be the first one, or await another's future
\* with the lock held.
Look(r) ==
  /\ pc[r] = "inside" /\ ~Leads(r)
  /\ \/ /\ MayLead(r)
        /\ pc' = [pc EXCEPT ![r] = "registering"]
        /\ UNCHANGED joined
     \/ /\ ~MayLead(r)
        /\ joined' = [joined EXCEPT ![r] = calls[Key[r]]]
        /\ pc' = [pc EXCEPT ![r] =
             IF threaded /\ future[calls[Key[r]]] = "pending" THEN "raising" ELSE "following"]
  /\ UNCHANGED <<locked, waiters, bound, calls, future, answer>>

\* The first request registers its future and runs fn.
Lead(r) ==
  /\ pc[r] = "registering"
  /\ calls' = [calls EXCEPT ![Key[r]] = r]
  /\ future' = [future EXCEPT ![r] = "pending"]
  /\ Release(r, "none", "running")
  /\ UNCHANGED <<waiters, bound, joined>>

Follow_NotAwaited(r) ==
  /\ pc[r] = "following"
  /\ Release(r, future[joined[r]], "over")
  /\ UNCHANGED <<waiters, bound, calls, future, joined>>

\* The follower wakes with the result of the call it joined.
Follow(r) ==
  /\ pc[r] = "following" /\ future[joined[r]] \in {"ok", "err"}
  /\ Release(r, future[joined[r]], "over")
  /\ UNCHANGED <<waiters, bound, calls, future, joined>>

\* The loop throws its error into the task that awaits a foreign future.
Raise(r) ==
  /\ pc[r] = "raising"
  /\ Release(r, "loop", "over")
  /\ UNCHANGED <<waiters, bound, calls, future, joined>>

Run_ErrorUnset(r) ==
  /\ pc[r] = "running"
  /\ \E s \in {"ok", "pending"} : future' = [future EXCEPT ![r] = s]
  /\ pc' = [pc EXCEPT ![r] = "closing"]
  /\ UNCHANGED <<locked, waiters, bound, calls, joined, answer>>

\* fn returns or raises: the future is resolved, the lock wanted again.  A leader
\* that is cancelled would leave it pending, as only Exception is caught; but
\* predict_by_url runs each request to its end and cancels none.
Run(r) ==
  /\ pc[r] = "running"
  /\ \E s \in {"ok", "err"} : future' = [future EXCEPT ![r] = s]
  /\ pc' = [pc EXCEPT ![r] = "closing"]
  /\ UNCHANGED <<locked, waiters, bound, calls, joined, answer>>

Pop_Forgotten(r) ==
  /\ pc[r] = "inside" /\ Leads(r)
  /\ Release(r, future[r], "over")
  /\ UNCHANGED <<waiters, bound, calls, future, joined>>

\* finally: the key is free for a new call.
Pop(r) ==
  /\ pc[r] = "inside" /\ Leads(r)
  /\ calls' = [calls EXCEPT ![Key[r]] = None]
  /\ Release(r, future[r], "over")
  /\ UNCHANGED <<waiters, bound, future, joined>>

Step(r) ==
  /\ \/ AcquireAtOnce(r) \/ Grab(r) \/ Queue(r) \/ Resume(r)
     \/ Look(r) \/ Lead(r) \/ Follow(r) \/ Raise(r) \/ Run(r) \/ Pop(r)
  /\ UNCHANGED threaded

AllOver == \A r \in Requests : pc[r] = "over"

Done == AllOver /\ UNCHANGED vars

Next == (\E r \in Requests : Step(r)) \/ Done

Spec == Init /\ [][Next]_vars

\* Every loop runs its tasks, and fn comes to an end.
Fairness == \A r \in Requests : WF_vars(Step(r))

FairSpec == Spec /\ Fairness

-----------------------------------------------------------------------------
\* On one event loop a request that finds a call shares the result of one that
\* had not been answered when the request came: keys are freed in time.
SharesAFreshResult ==
  [][\A r \in Requests :
       ~threaded /\ pc[r] = "idle" /\ pc'[r] # "idle" /\ calls[Key[r]] # None
         => pc[calls[Key[r]]] # "over"]_vars

\* No two executions for one key overlap, from their start until their result
\* is there; with threads only as long as the lock has not been waited for.
OneRunPerKey ==
  ~threaded \/ bound = None =>
    \A r, s \in Requests :
      pc[r] = "running" /\ pc[s] = "running" /\ Key[r] = Key[s] => r = s

\* _calls holds exactly the leaders that are under way, one for each key at most:
\* no result, error or wait for the lock leaves a key behind or drops a call that
\* somebody may still join; with threads again only before any wait.
CallsAreExact ==
  ~threaded \/ bound = None =>
    \A k \in Keys :
      {r \in Requests : Key[r] = k /\ Leads(r) /\ pc[r] # "over"} = {calls[k]} \ {None}

\* A request that found a call for its URL shares the result of that call.
FollowersShareTheResult ==
  \A r \in Requests :
    pc[r] = "over" /\ joined[r] # None => answer[r] = future[joined[r]]

\* On one event loop a request that found a call shares its result.
SharedOnOneLoop == ~threaded => FollowersShareTheResult

\* On one event loop every request is answered.
AnsweredOnOneLoop == ~threaded => <>AllOver
=============================================================================
