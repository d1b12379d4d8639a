--------------------------- MODULE DetailDispatch ---------------------------
(***************************************************************************)
(* The list crawls of one crawler process (ParseMiddlePageAsyncBase): each *)
(* walks through its pages and puts the detail URLs it finds in a bounded  *)
(* queue, from which its workers dispatch them.  The crawls run on threads *)
(* of their own and share the set of (API, URL) keys that are taken, so    *)
(* that a detail listed twice is dispatched once.  A crawl whose page      *)
(* cannot be had cancels its workers; after a timeout main runs it again.  *)
(*                                                                         *)
(* The fetch of one detail, with its semaphore, session and middlewares,   *)
(* is a claim and, later, an answer.                                       *)
(*                                                                         *)
(* A definition named D_X is D with a bug X put in: see TaskArray.tla.     *)
(***************************************************************************)
EXTENDS Integers, Sequences, FiniteSets

CONSTANTS
  Runs,       \* the list crawls
  Workers,    \* the worker tasks of each: max(1, _getPararellLimit())
  Urls,       \* detail URLs; all have the same detail API
  Pages,      \* what each run finds on its pages, after the differential filter
  QueueSize,  \* DEFAULT_DISPATCH_QUEUE_SIZE
  Free        \* a worker without an item

ASSUME DispatchAssumption ==
  /\ Pages \in [Runs -> Seq(Seq(Urls)) \ {<<>>}]
  /\ QueueSize \in Nat \ {0}
  /\ IsFiniteSet(Workers) /\ Workers # {}
  /\ Free \notin Urls

VARIABLES
  keys,     \* the claimed keys, shared by all runs
  phase,    \* where each run is
  attempt,  \* 1, or 2 after main's second _run
  page,     \* how many pages have been fetched in this attempt
  toPut,    \* what of the current page is not in the queue yet
  queue,    \* _detail_queue
  undone,   \* unfinished tasks of the queue, for join
  work,     \* the item of each worker
  answered, \* URLs with an entry in all_results
  failed,   \* history: those of them whose key was released again
  listed,   \* history: URLs found in this attempt
  settled   \* history: URLs with an answer for good, in any run

vars == <<keys, phase, attempt, page, toPut, queue, undone, work, answered, failed,
          listed, settled>>

\* A run in "retrying" or "failing" waits for its cancelled workers.
Phases == {"page", "putting", "joining", "retrying", "failing", "done", "failed"}
Cancelling == {"retrying", "failing"}

TypeOK ==
  /\ keys \subseteq Urls /\ settled \subseteq Urls
  /\ phase \in [Runs -> Phases]
  /\ attempt \in [Runs -> {1, 2}]
  /\ page \in [Runs -> Nat]
  /\ toPut \in [Runs -> Seq(Urls)]
  /\ queue \in [Runs -> Seq(Urls)]
  /\ undone \in [Runs -> Int]
  /\ work \in [Runs -> [Workers -> Urls \cup {Free}]]
  /\ answered \in [Runs -> SUBSET Urls]
  /\ failed \in [Runs -> SUBSET Urls]
  /\ listed \in [Runs -> SUBSET Urls]

Init ==
  /\ keys = {} /\ settled = {}
  /\ phase = [r \in Runs |-> "page"]
  /\ attempt = [r \in Runs |-> 1]
  /\ page = [r \in Runs |-> 0]
  /\ toPut = [r \in Runs |-> <<>>]
  /\ queue = [r \in Runs |-> <<>>]
  /\ undone = [r \in Runs |-> 0]
  /\ work = [r \in Runs |-> [w \in Workers |-> Free]]
  /\ answered = [r \in Runs |-> {}]
  /\ failed = [r \in Runs |-> {}]
  /\ listed = [r \in Runs |-> {}]

InSeq(s) == {s[i] : i \in 1 .. Len(s)}

MoveTo(r, p) == phase' = [phase EXCEPT ![r] = p]

-----------------------------------------------------------------------------
(* The pages: _crawl_pages, _process_middle_page_stream, _callApi          *)

\* The next page is there: its items are to be put.
FetchPage(r) ==
  /\ phase[r] = "page" /\ page[r] < Len(Pages[r])
  /\ page' = [page EXCEPT ![r] = @ + 1]
  /\ toPut' = [toPut EXCEPT ![r] = Pages[r][page[r] + 1]]
  /\ listed' = [listed EXCEPT ![r] = @ \cup InSeq(Pages[r][page[r] + 1])]
  /\ MoveTo(r, "putting")
  /\ UNCHANGED <<keys, attempt, queue, undone, work, answered, failed, settled>>

\* After the first page, and with a result in hand, a page that cannot be had
\* ends the pagination and not the run.
MayStop(r) == page[r] > 0 /\ answered[r] # {}

\* The page times out or cannot be loaded, and the run stops if it may, or it
\* raises otherwise.  An error of the run cancels the workers, and main runs it
\* again if it was the first timeout.
PageFails(r) ==
  /\ phase[r] = "page"
  /\ \/ MayStop(r) /\ MoveTo(r, "joining")
     \/ ~MayStop(r) /\ attempt[r] = 1 /\ MoveTo(r, "retrying")
     \/ MoveTo(r, "failing")
  /\ UNCHANGED <<keys, attempt, page, toPut, queue, undone, work, answered, failed,
                 listed, settled>>

\* Parsing or filtering the page raises, a timeout or another error, between two
\* chunks of it.
PageBreaks(r) ==
  /\ phase[r] = "putting"
  /\ \/ attempt[r] = 1 /\ MoveTo(r, "retrying")
     \/ MoveTo(r, "failing")
  /\ UNCHANGED <<keys, attempt, page, toPut, queue, undone, work, answered, failed,
                 listed, settled>>

\* queue.put, which waits while the queue is full.
Put(r) ==
  /\ phase[r] = "putting" /\ toPut[r] # <<>>
  /\ Len(queue[r]) < QueueSize
  /\ queue' = [queue EXCEPT ![r] = Append(@, Head(toPut[r]))]
  /\ undone' = [undone EXCEPT ![r] = @ + 1]
  /\ toPut' = [toPut EXCEPT ![r] = Tail(@)]
  /\ UNCHANGED <<keys, phase, attempt, page, work, answered, failed, listed, settled>>

\* All items are put: on to the next page, unless there is none or the link to
\* it cannot be read.
PageEnds(r) ==
  /\ phase[r] = "putting" /\ toPut[r] = <<>>
  /\ \/ page[r] < Len(Pages[r]) /\ MoveTo(r, "page")
     \/ MoveTo(r, "joining")
  /\ UNCHANGED <<keys, attempt, page, toPut, queue, undone, work, answered, failed,
                 listed, settled>>

Join_NotAwaited(r) ==
  /\ phase[r] = "joining" /\ queue[r] = <<>>
  /\ MoveTo(r, "done")
  /\ UNCHANGED <<keys, attempt, page, toPut, queue, undone, work, answered, failed,
                 listed, settled>>

\* queue.join() returns; then each worker takes its None and ends.
Join(r) ==
  /\ phase[r] = "joining" /\ undone[r] = 0
  /\ MoveTo(r, "done")
  /\ UNCHANGED <<keys, attempt, page, toPut, queue, undone, work, answered, failed,
                 listed, settled>>

-----------------------------------------------------------------------------
(* A worker: _detail_worker, _fetchDetailOnce                              *)

Working(r) == phase[r] \notin Cancelling \cup {"done", "failed"}

Take_Unasked(r, w) ==
  /\ Working(r) /\ work[r][w] = Free /\ queue[r] # <<>>
  /\ keys' = keys \cup {Head(queue[r])}
  /\ work' = [work EXCEPT ![r][w] = Head(queue[r])]
  /\ queue' = [queue EXCEPT ![r] = Tail(@)]
  /\ UNCHANGED <<phase, attempt, page, toPut, undone, answered, failed, listed, settled>>

\* Take the next item; dispatch it if its key can be claimed, else be done with it.
Take(r, w) ==
  /\ Working(r) /\ work[r][w] = Free /\ queue[r] # <<>>
  /\ LET u == Head(queue[r])
     IN  \/ /\ u \in keys
            /\ undone' = [undone EXCEPT ![r] = @ - 1]
            /\ UNCHANGED <<keys, work>>
         \/ /\ u \notin keys
            /\ keys' = keys \cup {u}
            /\ work' = [work EXCEPT ![r][w] = u]
            /\ UNCHANGED undone
  /\ queue' = [queue EXCEPT ![r] = Tail(@)]
  /\ UNCHANGED <<phase, attempt, page, toPut, answered, failed, listed, settled>>

\* The worker is done with its item, which has a result now.
Record(r, w) ==
  /\ answered' = [answered EXCEPT ![r] = @ \cup {work[r][w]}]
  /\ undone' = [undone EXCEPT ![r] = @ - 1]
  /\ work' = [work EXCEPT ![r][w] = Free]

Settle_Released(r, w) ==
  /\ Working(r) /\ work[r][w] # Free
  /\ keys' = keys \ {work[r][w]}
  /\ settled' = settled \cup {work[r][w]}
  /\ Record(r, w)
  /\ UNCHANGED <<phase, attempt, page, toPut, queue, failed, listed>>

\* An answer that is not to be retried keeps its key.
Settle(r, w) ==
  /\ Working(r) /\ work[r][w] # Free
  /\ settled' = settled \cup {work[r][w]}
  /\ Record(r, w)
  /\ UNCHANGED <<keys, phase, attempt, page, toPut, queue, failed, listed>>

\* A retryable status, or an exception that becomes a result of the worker,
\* releases the key for a later listing of the same URL.
Fail(r, w) ==
  /\ Working(r) /\ work[r][w] # Free
  /\ keys' = keys \ {work[r][w]}
  /\ failed' = [failed EXCEPT ![r] = @ \cup {work[r][w]}]
  /\ Record(r, w)
  /\ UNCHANGED <<phase, attempt, page, toPut, queue, listed, settled>>

Cancelled_Claimed(r, w) ==
  /\ phase[r] \in Cancelling /\ work[r][w] # Free
  /\ work' = [work EXCEPT ![r][w] = Free]
  /\ UNCHANGED <<keys, phase, attempt, page, toPut, queue, undone, answered, failed,
                 listed, settled>>

\* The cancelled worker releases the key of the item it was at, and reports it
\* done twice (the second report raises if nothing is left to be done).
Cancelled(r, w) ==
  /\ phase[r] \in Cancelling /\ work[r][w] # Free
  /\ keys' = keys \ {work[r][w]}
  /\ work' = [work EXCEPT ![r][w] = Free]
  /\ undone' = [undone EXCEPT ![r] = IF @ < 2 THEN 0 ELSE @ - 2]
  /\ UNCHANGED <<phase, attempt, page, toPut, queue, answered, failed, listed, settled>>

-----------------------------------------------------------------------------
(* The end of a failed attempt, when all its workers have been cancelled   *)

AllFree(r) == \A w \in Workers : work[r][w] = Free

RunAgain_SameQueue(r) ==
  /\ phase[r] = "retrying" /\ AllFree(r)
  /\ MoveTo(r, "page")
  /\ attempt' = [attempt EXCEPT ![r] = 2]
  /\ page' = [page EXCEPT ![r] = 0]
  /\ toPut' = [toPut EXCEPT ![r] = <<>>]
  /\ answered' = [answered EXCEPT ![r] = {}]
  /\ failed' = [failed EXCEPT ![r] = {}]
  /\ listed' = [listed EXCEPT ![r] = {}]
  /\ UNCHANGED <<keys, queue, undone, work, settled>>

RunAgain_Again(r) ==
  /\ phase[r] = "retrying" /\ AllFree(r)
  /\ MoveTo(r, "page")
  /\ page' = [page EXCEPT ![r] = 0]
  /\ toPut' = [toPut EXCEPT ![r] = <<>>]
  /\ queue' = [queue EXCEPT ![r] = <<>>]
  /\ undone' = [undone EXCEPT ![r] = 0]
  /\ answered' = [answered EXCEPT ![r] = {}]
  /\ failed' = [failed EXCEPT ![r] = {}]
  /\ listed' = [listed EXCEPT ![r] = {}]
  /\ UNCHANGED <<keys, attempt, work, settled>>

\* main: the same keys, everything else anew.
RunAgain(r) ==
  /\ phase[r] = "retrying" /\ AllFree(r)
  /\ MoveTo(r, "page")
  /\ attempt' = [attempt EXCEPT ![r] = 2]
  /\ page' = [page EXCEPT ![r] = 0]
  /\ toPut' = [toPut EXCEPT ![r] = <<>>]
  /\ queue' = [queue EXCEPT ![r] = <<>>]
  /\ undone' = [undone EXCEPT ![r] = 0]
  /\ answered' = [answered EXCEPT ![r] = {}]
  /\ failed' = [failed EXCEPT ![r] = {}]
  /\ listed' = [listed EXCEPT ![r] = {}]
  /\ UNCHANGED <<keys, work, settled>>

GiveUp(r) ==
  /\ phase[r] = "failing" /\ AllFree(r)
  /\ MoveTo(r, "failed")
  /\ UNCHANGED <<keys, attempt, page, toPut, queue, undone, work, answered, failed,
                 listed, settled>>

-----------------------------------------------------------------------------
Crawl(r) ==
  \/ FetchPage(r) \/ PageFails(r) \/ PageBreaks(r) \/ Put(r) \/ PageEnds(r)
  \/ Join(r) \/ RunAgain(r) \/ GiveUp(r)

Worker(r, w) == Take(r, w) \/ Settle(r, w) \/ Fail(r, w) \/ Cancelled(r, w)

AllOver == \A r \in Runs : phase[r] \in {"done", "failed"}

Done == AllOver /\ UNCHANGED vars

Next ==
  \/ \E r \in Runs : Crawl(r) \/ \E w \in Workers : Worker(r, w)
  \/ Done

Spec == Init /\ [][Next]_vars

\* Every loop runs its tasks, and every fetch, of a page or a detail, ends by
\* its answer or its timeout.
Fairness ==
  \A r \in Runs : WF_vars(Crawl(r)) /\ \A w \in Workers : WF_vars(Worker(r, w))

FairSpec == Spec /\ Fairness

-----------------------------------------------------------------------------
InFlight == {work[r][w] : r \in Runs, w \in Workers} \ {Free}

\* The shared keys are those of the details that are settled or being fetched,
\* and each of these by one worker only: no answer, exception, cancellation or
\* second attempt leaves a key behind or drops one that is in use.
ClaimsAreExact ==
  /\ keys = settled \cup InFlight
  /\ settled \cap InFlight = {}
  /\ \A r, s \in Runs, v, w \in Workers :
       work[r][v] = work[s][w] /\ work[r][v] # Free => r = s /\ v = w

\* A detail with an answer for good is never dispatched again, not even when
\* its list is crawled a second time.
NoRefetch == [][(InFlight' \ InFlight) \cap settled = {}]_vars

\* The walk through the pages waits for its details and for nothing else: its join
\* returns when, and only when, no detail is left in the queue or with a worker.
\* That the count of a cancelled attempt is wrong is nothing to the next one.
EndsWhenDone ==
  \A r \in Runs :
    /\ phase[r] = "joining" => (undone[r] = 0 <=> queue[r] = <<>> /\ AllFree(r))
    /\ phase[r] = "done" => queue[r] = <<>> /\ AllFree(r)

\* The workers of all crawls hold the details as KeyLease promises, though all
\* that they have in common is the set of keys.
Items == [h \in Runs \X Workers |-> work[h[1]][h[2]]]

Lease == INSTANCE KeyLease WITH Holders <- Runs \X Workers, item <- Items

ImplementsKeyLease == Lease!Spec

\* As long as no crawl of the process was cancelled or tried again, one that ends
\* in order leaves no detail out: its own workers are through, and each detail that
\* it has listed is claimed, or some crawl has recorded its failure.  With a
\* cancelled crawl this fails for what was skipped for its sake; nothing is said
\* of the rest then.
ListedIsAccountedFor ==
  (\A r \in Runs : attempt[r] = 1 /\ phase[r] \notin Cancelling \cup {"failed"}) =>
    \A r \in Runs : phase[r] = "done" =>
      AllFree(r) /\ listed[r] \subseteq keys \cup UNION {failed[s] : s \in Runs}

\* Every crawl comes to an end: pages, workers and the full queue never wait
\* for one another.
EveryRunEnds == <>AllOver
=============================================================================
