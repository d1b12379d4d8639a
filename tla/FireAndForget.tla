---------------------------- MODULE FireAndForget ----------------------------
(***************************************************************************)
(* The pool of local workers of one crawler process: a crawl hands the     *)
(* pages it finds to a shared thread pool and goes on; main() of a crawl   *)
(* that nobody handed on (a root) waits until the pool is idle, or its     *)
(* patience is over, or stop.flag appears (package/api/api.py).            *)
(*                                                                         *)
(* Several roots run at once when main.py serves requests.  They share the *)
(* executor and the registry of unfinished futures.                        *)
(***************************************************************************)
EXTENDS Integers, FiniteSets

CONSTANTS
  Roots,     \* crawls started by main.py or by a request
  Tasks,     \* crawls handed to the pool
  Parent,    \* the crawl that hands a task on
  RootOf,    \* the root whose keys a task shares
  PoolSize,  \* _get_local_worker_concurrency()
  IdlePolls  \* empty polls in a row that end a wait (3 in the code)

ASSUME FireAndForgetAssumption ==
  /\ Roots \cap Tasks = {}
  /\ Parent \in [Tasks -> Roots \cup Tasks]
  /\ RootOf \in [Tasks -> Roots]
  /\ \A t \in Tasks :
       RootOf[t] = IF Parent[t] \in Roots THEN Parent[t] ELSE RootOf[Parent[t]]
  /\ PoolSize \in Nat \ {0} /\ IdlePolls \in Nat \ {0}

VARIABLES
  phase,     \* where each root's main() is
  idle,      \* consecutive_idle of each root's wait
  st,        \* what became of each task
  exe,       \* the executor a task's caller holds or has submitted it to
  executor,  \* _local_worker_executor, 0 for None
  made,      \* executors made so far: 1 .. made
  shut,      \* executors that were shut down
  tracked,   \* _active_fire_and_forget_futures
  toTrack,   \* submitted, and not yet put into that registry
  stop,      \* stop.flag exists
  hurry      \* history: "stop" was ever set, a wait's "timeout" was ever over

vars == <<phase, idle, st, exe, executor, made, shut, tracked, toTrack, stop, hurry>>
pool == <<st, exe, executor, made, shut, tracked, toTrack>>

Ended == {"ended", "raised"}
Waits == {"waiting", "leaving", "expired", "shutting", "closing", "dropping", "checking"}
Accepted == {"queued", "running"}
Refused == {"refused", "stopped"}

\* The registry holds nothing that is done (a done callback removes it), and a
\* wait goes on only while its idle polls are too few.
TypeOK ==
  /\ phase \in [Roots -> {"crawling"} \cup Waits \cup Ended]
  /\ idle \in [Roots -> 0 .. IdlePolls]
  /\ \A r \in Roots : phase[r] \in {"crawling", "waiting"} => idle[r] < IdlePolls
  /\ st \in [Tasks -> {"none", "got", "over", "cancelled", "skipped"} \cup Accepted \cup Refused]
  /\ made \in Nat
  /\ exe \in [Tasks -> 0 .. made]
  /\ executor \in 0 .. made
  /\ shut \subseteq 1 .. made
  /\ tracked \subseteq {t \in Tasks : st[t] \in Accepted}
  /\ toTrack \subseteq Tasks
  /\ stop \in BOOLEAN
  /\ hurry \subseteq {"stop", "timeout"}

Init ==
  /\ phase = [r \in Roots |-> "crawling"]
  /\ idle = [r \in Roots |-> 0]
  /\ st = [t \in Tasks |-> "none"]
  /\ exe = [t \in Tasks |-> 0]
  /\ executor = 0 /\ made = 0 /\ shut = {}
  /\ tracked = {} /\ toTrack = {}
  /\ stop = FALSE /\ hurry = {}

-----------------------------------------------------------------------------
(* Handing on a crawl: _handle_local_execution                             *)

Crawls(p) == IF p \in Roots THEN phase[p] = "crawling" ELSE st[p] = "running"

\* The calls from the stop check to the registry are made without an await.
Busy(p) == \E t \in Tasks : Parent[t] = p /\ (st[t] = "got" \/ t \in toTrack)

HasExecutor_Never == FALSE

HasExecutor == executor # 0

\* _get_local_worker_executor: the current one, or a new one, under its lock.
Dispatch(t) ==
  /\ st[t] = "none" /\ Crawls(Parent[t]) /\ ~Busy(Parent[t])
  /\ \/ /\ stop
        /\ st' = [st EXCEPT ![t] = "stopped"]
        /\ UNCHANGED <<exe, executor, made>>
     \/ /\ ~stop
        /\ made' = IF HasExecutor THEN made ELSE made + 1
        /\ executor' = IF HasExecutor THEN executor ELSE made'
        /\ exe' = [exe EXCEPT ![t] = executor']
        /\ st' = [st EXCEPT ![t] = "got"]
  /\ UNCHANGED <<phase, idle, shut, tracked, toTrack, stop, hurry>>

\* executor.submit: a shut executor raises RuntimeError, answered with 503.
Submit(t) ==
  /\ st[t] = "got"
  /\ \/ /\ exe[t] \in shut
        /\ st' = [st EXCEPT ![t] = "refused"]
        /\ UNCHANGED toTrack
     \/ /\ exe[t] \notin shut
        /\ st' = [st EXCEPT ![t] = "queued"]
        /\ toTrack' = toTrack \cup {t}
  /\ UNCHANGED <<phase, idle, exe, executor, made, shut, tracked, stop, hurry>>

\* A future that is done already has its callback called at once.
Registered(t) == IF st[t] \in Accepted THEN tracked \cup {t} ELSE tracked

\* _track_fire_and_forget_future.
Track(t) ==
  /\ t \in toTrack
  /\ toTrack' = toTrack \ {t}
  /\ tracked' = Registered(t)
  /\ UNCHANGED <<phase, idle, st, exe, executor, made, shut, stop, hurry>>

-----------------------------------------------------------------------------
(* The workers: run_in_new_loop                                            *)

RunningIn(e) == {t \in Tasks : st[t] = "running" /\ exe[t] = e}

\* A free worker takes a task, in any order, and looks for stop.flag first.
Start(t) ==
  /\ st[t] = "queued" /\ Cardinality(RunningIn(exe[t])) < PoolSize
  /\ st' = [st EXCEPT ![t] = IF stop THEN "skipped" ELSE "running"]
  /\ tracked' = IF stop THEN tracked \ {t} ELSE tracked
  /\ UNCHANGED <<phase, idle, exe, executor, made, shut, toTrack, stop, hurry>>

\* The crawl returns or raises, which is only noted; what it handed on runs on.
Finish(t) ==
  /\ st[t] = "running" /\ ~Busy(t)
  /\ st' = [st EXCEPT ![t] = "over"]
  /\ tracked' = tracked \ {t}
  /\ UNCHANGED <<phase, idle, exe, executor, made, shut, toTrack, stop, hurry>>

-----------------------------------------------------------------------------
(* The wait: _wait_for_active_fire_and_forget_threads                      *)

MoveTo(r, p) == phase' = [phase EXCEPT ![r] = p]

\* The crawl of a root is over, in order or by an exception: finally.
EndCrawl(r) ==
  /\ phase[r] = "crawling" /\ ~Busy(r)
  /\ MoveTo(r, "waiting")
  /\ UNCHANGED <<idle, pool, stop, hurry>>

Alive_Started == {t \in tracked : st[t] = "running"}

Alive == tracked

\* One turn of the loop: IdlePolls empty polls in a row end it.
Poll(r) ==
  /\ phase[r] = "waiting" /\ ~stop
  /\ \/ /\ Alive # {}
        /\ idle' = [idle EXCEPT ![r] = 0]
        /\ UNCHANGED phase
     \/ /\ Alive = {}
        /\ idle' = [idle EXCEPT ![r] = @ + 1]
        /\ IF idle'[r] = IdlePolls THEN MoveTo(r, "leaving") ELSE UNCHANGED phase
  /\ UNCHANGED <<pool, stop, hurry>>

LeaveOnStop(r) ==
  /\ phase[r] = "waiting" /\ stop
  /\ MoveTo(r, "leaving")
  /\ UNCHANGED <<idle, pool, stop, hurry>>

\* The time is up, in the loop or when it is looked at again after it.
Expire(r) ==
  /\ phase[r] \in {"waiting", "leaving"}
  /\ MoveTo(r, "expired")
  /\ hurry' = hurry \cup {"timeout"}
  /\ UNCHANGED <<idle, pool, stop>>

MustCancel_Always(r) == phase[r] \in {"leaving", "expired"}

MustCancel(r) == phase[r] = "expired" \/ (phase[r] = "leaving" /\ stop)

\* Neither a stop nor a timeout: nothing is cancelled.
NothingToCancel(r) ==
  /\ phase[r] = "leaving" /\ ~MustCancel(r)
  /\ MoveTo(r, "checking")
  /\ UNCHANGED <<idle, pool, stop, hurry>>

\* Every registered future that no worker has taken, whichever root's it is.
CancelUnstarted(r) ==
  /\ MustCancel(r)
  /\ MoveTo(r, "shutting")
  /\ LET gone == {t \in tracked : st[t] = "queued"}
     IN  /\ st' = [t \in Tasks |-> IF t \in gone THEN "cancelled" ELSE st[t]]
         /\ tracked' = tracked \ gone
  /\ UNCHANGED <<idle, exe, executor, made, shut, toTrack, stop, hurry>>

\* _shutdown_local_worker_executor_nonblocking reads the global, without its
\* lock, for the test, for the shutdown, and at last clears it.
LookForExecutor(r) ==
  /\ phase[r] = "shutting"
  /\ MoveTo(r, IF executor = 0 THEN "checking" ELSE "closing")
  /\ UNCHANGED <<idle, pool, stop, hurry>>

MayClose_Joined(r) == phase[r] = "closing" /\ RunningIn(executor) = {}

MayClose(r) == phase[r] = "closing"

\* shutdown(wait=False, cancel_futures=True): the queue of the executor is
\* emptied, whether or not a future is registered.  None has no shutdown: that
\* exception is swallowed.
Close(r) ==
  /\ MayClose(r)
  /\ MoveTo(r, "dropping")
  /\ LET gone == {t \in Tasks : st[t] = "queued" /\ exe[t] = executor}
     IN  /\ st' = [t \in Tasks |-> IF t \in gone THEN "cancelled" ELSE st[t]]
         /\ tracked' = tracked \ gone
  /\ shut' = IF executor = 0 THEN shut ELSE shut \cup {executor}
  /\ UNCHANGED <<idle, exe, executor, made, toTrack, stop, hurry>>

Drop(r) ==
  /\ phase[r] = "dropping"
  /\ MoveTo(r, "checking")
  /\ executor' = 0
  /\ UNCHANGED <<idle, st, exe, made, shut, tracked, toTrack, stop, hurry>>

\* _check_wait_results: unfinished work without a stop is a TimeoutError.
Check(r) ==
  /\ phase[r] = "checking"
  /\ MoveTo(r, IF Alive # {} /\ ~stop THEN "raised" ELSE "ended")
  /\ UNCHANGED <<idle, pool, stop, hurry>>

-----------------------------------------------------------------------------
\* stop.flag: written by a signal handler or by hand, removed when another
\* process of main.py starts.
SetStop ==
  /\ ~stop /\ stop' = TRUE
  /\ hurry' = hurry \cup {"stop"}
  /\ UNCHANGED <<phase, idle, pool>>

ClearStop ==
  /\ stop /\ stop' = FALSE
  /\ UNCHANGED <<phase, idle, pool, hurry>>

Leave(r) ==
  \/ Poll(r) \/ LeaveOnStop(r) \/ NothingToCancel(r) \/ CancelUnstarted(r)
  \/ LookForExecutor(r) \/ Close(r) \/ Drop(r) \/ Check(r)

AllEnded == \A r \in Roots : phase[r] \in Ended

Done == AllEnded /\ UNCHANGED vars

Next ==
  \/ \E t \in Tasks : Dispatch(t) \/ Submit(t) \/ Track(t) \/ Start(t) \/ Finish(t)
  \/ \E r \in Roots : EndCrawl(r) \/ Expire(r) \/ Leave(r)
  \/ SetStop \/ ClearStop
  \/ Done

Spec == Init /\ [][Next]_vars

\* The waiting thread is scheduled and time passes.  Nothing is assumed of the
\* workers: a crawl may hang for ever.
FairSpec ==
  Spec /\ \A r \in Roots : WF_vars(Leave(r)) /\ WF_vars(Expire(r))

-----------------------------------------------------------------------------
Under(r) == {t \in Tasks : RootOf[t] = r}

\* A main() that ends in order leaves nothing behind: of all that was handed on
\* under it, by whichever crawl, nothing is queued, runs or is being submitted.
\* Only a stop may let it go earlier; a timeout makes it raise.
EndedMeansSettled ==
  \A r \in Roots : phase[r] = "ended" /\ "stop" \notin hurry =>
    \A t \in Under(r) : st[t] \notin Accepted \cup {"got"}

\* An answer of 202 is kept: as long as no stop is set and no wait of any root
\* has run out of time, no task is refused, cancelled or skipped.
AcceptedWorkIsKept ==
  hurry = {} => \A t \in Tasks : st[t] \notin Refused \cup {"cancelled", "skipped"}

\* Until then no more crawls run at once than the pool has workers, however
\* many roots hand on work.
PoolIsBounded ==
  hurry = {} => Cardinality({t \in Tasks : st[t] = "running"}) <= PoolSize

\* A wait ends, even when every worker hangs.
WaitEnds == \A r \in Roots : phase[r] = "waiting" ~> phase[r] \in Ended
=============================================================================
