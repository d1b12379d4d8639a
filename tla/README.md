# Verification of the crawl orchestration

TLA+ models of the parts of this repository that run concurrently or fail
halfway: the task array that crawls the sites every day, deals its jobs out and
elects one task to report, the shared ProxySQL instance and who may stop it, the
job loop of one task with its watchdog and its state file, the dispatch of
details and the pool of workers inside one crawler process, the life of a
listing in the database, and the singleflight group of the valuation API. TLC
checks small instances; TLAPS proves the safety properties of the passing
runs for every value of the constants, some under an assumption that their theorem
states.

Paths below are relative to `src/`; `crawler/` stands for `src/crawler/`.

    tlc -workers 2 -config MCTaskArray_array.cfg MCTaskArray.tla
    tlapm TaskArrayProofs.tla

## The system

### Components, state and operations

| Component | Code | State it keeps | Operations |
|---|---|---|---|
| Task array | `crawler/scripts/ops/run_all_crawlers.py`, `run_pipeline.py`, model `crawler_task_execution.py` | one row per task (status, results), process state, time of start | start, save outcome, election (`is_last_completing_task`), report, fast exit without jobs, abort, reconciliation by the parent |
| Shared-proxy teardown | `run_pipeline.py` | ProxySQL instance, place of the coordinator on its way out | start, health wait, guard, stop, atexit and SIGTERM |
| ML barrier | `run_ml_pipeline.py` | what the barrier answered | verify completion, own report |
| ProxySQL sharing | `run_pipeline.py`, `run_ml_pipeline.py`, `package/utils/gcp_resources.py`, `scripts/ensure_resources_stopped.py` | active executions, instance, what each stopper has asked and been told | start, health, guard, stop, Safety-Net with cancels |
| Job scheduler | `run_all_crawlers.py` main loop, `package/utils/crawler_scheduler.py`, the state file of `package/api/adaptive_concurrency.py` | queue, active processes, results, count and last overload in the state file | reap, kill, select, spawn, read and write the file, note an overload, cleanup, SIGKILL |
| Watchdog | `package/utils/crawler_watchdog.py` | progress file, last activity, last sample | touch, sample, judge, kill |
| Detail dispatch | `package/api/api.py` (`ParseMiddlePageAsyncBase`) | keys, bounded queue, workers, results | page walk, put, claim, settle, release, join, cancel, second attempt |
| Singleflight | `package/utils/singleflight.py`, `routes/evaluation_routes.py` | lock, calls, futures | `do` |
| Fire-and-forget pool | `package/api/api.py` | futures, registry, executor, `stop.flag` | hand on, submit, track, run, poll, wait, cancel, shut down |
| Dynamic semaphore, throttle window | `DynamicSemaphore` in `api.py`, `package/api/adaptive_concurrency.py` | permits | resize, acquire, release, choose a concurrency |
| Rate limits and lockout | `api.py`, `package/utils/rate_limiter.py`, `package/api/middleware.py` | slots per site, timestamps, strikes, bans | wait for a slot, allow, strike |
| Distribution of jobs | `package/utils/task_distribution.py` | none | `distribute_jobs` |
| Differential filter, life of a listing | `package/api/differential.py`, `api.py`, `package/utils/data_validator.py`, `scripts/maintenance/validate_data.py` | record, price history, evaluation with `is_published` | filter, confirm, fetch, save, revise, evaluate, delist, validate |
| Dispatcher | `scripts/ops/run_dispatcher.py`, `package/utils/cloud_tasks_dispatcher.py`, `main.py` | PENDING rows, tasks of the queue | enqueue, execute |
| The rest | parsers, ML, web routes, RAG, notifications, migrations, terraform | - | not modelled, see the end |

### How they interact

The workflow `terraform/workflows/daily_pipeline.yaml` starts a Cloud Run job of
several tasks. In each container `run_pipeline.py` is the parent: task 0
(the coordinator) scales ProxySQL up, all wait until it is healthy, and each
runs `run_all_crawlers.py` as a child. That one gets its share of jobs from
`distribute_jobs`, keeps a row in the table `CrawlerTaskExecution` (through the
proxy) and runs one crawler process per job. The processes tell the job loop
through files that they make progress; the loop tells them through the state
file how many of them there are. Inside a crawler, list crawls on worker threads
dispatch details, sharing the set of keys taken, hand pages on to a thread pool,
and save the listings, each with its record, price revision and evaluation; the
validation step of the pipelines goes over the evaluations too. At the end each
task asks the rows whether it is the last; the last one reports for all. On its
way out the coordinator asks the rows and the Cloud Run API whether it may stop
the proxy.
The ML job asks the rows whether the crawl is complete enough. The Safety-Net
stops a proxy that nobody stopped.

### What is hard, and what makes each component correct

* **Election.** The rows are read without a lock, written by processes that die,
  by parents on their behalf, and through accesses that raise after they took
  effect. Correct: one aggregator, it is the last to crawl, its report misses
  nothing, and somebody reports.
* **Teardown.** Decisions are taken on rows and lists read earlier. Correct:
  nobody stops the proxy under a task that crawls; in the end it is stopped.
* **Barrier.** Asked at any time. Correct: a pass means that the results are
  there; a complete success passes.
* **Job loop.** Crawlers end, fall silent and are killed in any order, starts
  fail, signals come between two statements. Correct: limits hold for the
  processes that really run, no job is lost or counted twice, the loop ends.
* **Watchdog.** Sampling against a threshold. Correct: recent progress saves, a
  silent crawler is noticed in time, the first listing has its grace.
* **Dispatch.** Claims are shared between threads, given back on failure and
  cancellation, and kept through a second attempt. Correct: keys are exact,
  nothing settled is fetched again, nothing listed is left out, nobody waits for
  ever.
* **Pool.** Roots share executor and registry; a wait ends by idleness, by time or
  by a stop, while callers submit. Correct: an orderly end leaves nothing behind,
  accepted work is kept, threads are bounded, a wait ends.
* **Listing.** Decisions are taken on records read earlier, several rows are saved
  one after the other, some errors are swallowed. Correct: what is skipped is
  unchanged, a change of price leaves a trace, what has ended is not published.
* **Singleflight.** One asyncio lock, used from several event loops. Correct: one
  execution per key, its result shared, everybody answered.

The list of hazards with their lines is in `PROJECT.json`.

## The modules

Every module is short on data and complete in control: rows hold a status and
whether results are stored, a job is a number, a URL, a request or a price a model
value.
Definitions called `D_X` are the definition `D` with a plausible bug `X` put in;
they are not part of any specification and show that each property notices
such a bug.

### `Aggregation`

What the election promises, without rows, locks or retries: tasks work, one of
them becomes leader when nobody works, only it publishes.

### `TaskArray` (proofs: `TaskArrayProofs`)

The tasks of one execution. `row` and `results` are the table, `pc` is where each
task is, `holds` is `task_exec_record is not None`, `began` and `asked` are the
times that `is_last_completing_task` compares. Actions are the operations in the
order of the code: `RecordTaskStart`, `SaveOutcome`, `CheckOthers` (the unlocked
read), `ClaimAggregation` (the transaction with `select_for_update`, with the
look for another `AGGREGATING` row inside), `Aggregate`, `FastExit` (a task
without jobs), and the failures `StartupFails`, `Die`, `Abort`, `Reconcile`.

An access to the database takes a parameter `ok`. With `ok = FALSE` it raises,
and a write is applied or not; `Retry` is the loop over three attempts around
it. That is how a commit that raised after it was applied meets its own
`AGGREGATING` row on the next attempt. The retries of the fast exit (four) and
of the parent are one access each: a failed one stands for all.

### `CrawlTeardown` (proofs: `TaskArrayProofs`)

Extends `TaskArray` with the proxy: an access succeeds exactly when it runs. The
coordinator's parent is `exit` and `asks`: the guard is asked in `finally` and by
`atexit`, and once more on SIGTERM. The guard's answer and the stop are two
steps, so that tasks move in between. The guard's question about other
executions has its own module, `SharedProxySql`, and is answered with no here.

### `MlBarrier`, `MlSuccess`

`MlBarrier` extends `TaskArray` with what `verify_barrier_completion` makes of the
rows, `Judge`. The question is a read without effect on the tasks, so that it
is an operator on the state and a property of `Judge` in every state is one of a
call at any moment. `MlSuccess` adds the history of failed rows, for the one
question of `success`.

### `Distribution`, `JobCoverage` (values: `MCTaskArray`, proofs: `TaskArrayProofs`)

`Share(jobs, task, count)` is `distribute_jobs`, for every count of tasks: the
company of its own for each of three or four tasks with the rest dealt out in
turn, the fixed table of eight, the modulo. A share is the set of its jobs'
positions; the order inside it is left out. `JobCoverage` composes it with the
task array and the barrier: the tasks without jobs are those whose share is
empty. `MCTaskArray` deals three jobs so that the third task has none.

### `SharedProxySql` (proofs: `SharedProxySqlProofs`)

Several executions of several jobs and the Safety-Net share one instance. An execution
is one container. `WorkflowStarts`, `Launch`, `ScaleUp`, `AwaitHealth`, `BeginBare`
and `Work` are its way: a workflow or the execution itself starts the instance, and
only those in `Managing` stop it. Its guard asks for the executions of one job after
the other (`GuardAsks`, as `_check_run_v2_executions` does) and may break off or begin
again at any time (`GuardSaysNo`); its answer and the stop (`GuardStops`) are two more
steps. `listed` is what a stopper has asked for, `late` a history of who was launched
at a job that it had asked for by then. Every guard asks for all jobs.

The Safety-Net asks job by job too (`NetAsks`), but only for `Monitored`: the default
prefixes (`ensure_resources_stopped.py:848`) leave out the recrawl and the dispatcher.
What is overdue, or of an age it could not read, it takes for hung (`hung`).
`NetDecides` and `NetStops` are separate steps, with the cancels in between: a cancel
is a request, so that the execution may end at any later time or never (`Killed`), and
the stop goes on whatever became of it. That a failure or busy traffic makes a run
leave the instance alone is `NetSetBack`. The check that a crawl runs after its own
stop is one more run of the Safety-Net.

### `CrawlScheduler` (values: `MCCrawlScheduler`, proofs: `CrawlSchedulerProofs`)

The main loop of `run_all_crawlers.main`, divided at the points where a process
or a signal can come between: `Reap`, `KillHungAndLate`, `Spawn`, `Register`
(after `Popen`, before the process is known), `SpawnFails`, `NothingToStart`.
`proc` is the operating system's view, `active` and `shown` the loop's: the
properties relate the two. `Signal` and `DatabaseLost` run the cleanup. `LoopKilled` is
the SIGKILL of `run_pipeline.py:274` and `:346`, possibly in the middle of a cleanup:
what the loop knew is gone, and the crawlers, which have sessions of their own
(`run_all_crawlers.py:1005`), live on.

The state file is written by the loop and by the crawlers, each write under a lock,
but not the read that comes before it.
`set_active_jobs_count` reads the whole of it (`ReadFile`, in `Reap` and
`Register`; a file that cannot be read counts as empty) and writes the merge back
(`WriteCount`, which may fail unnoticed); between the two a crawler may note an
overload (`Overload`). The file starts empty and is replaced as a whole. An
overload noted in between may be set back to the one that was read, and a failed
write leaves the number too low until the next (`lost`). Each writer reads the file
once more, and one that cannot read it replaces it by its own entries (`Rewritten`,
`unread`): the loop then forgets an overload that its copy does not have, and a crawler
loses the number, which reads back as 1.

### `Watchdog` (proofs: `WatchdogProofs`)

One crawler and the parent with explicit time: the file's time, the parent's
last sample, its `now` (read at the top of a turn, used later in it), and the
kill after the snapshot. `TurnTime` is the longest from the top of a turn to the look at
this crawler, `RestTime` the longest from there to the next turn: both hold the kills
of other crawlers with their snapshots and messages, and the second the starts with
their two seconds each and the sleep. No value of them is assumed.

### `KeyLease`

What the crawls of one process promise each other about details, without pages,
queues, keys or attempts: a detail is lent to one holder at a time, who gives it back
settled, and then it is never lent again, or as it was.

### `DetailDispatch` (values: `MCDetailDispatch`, proofs: `DetailDispatchProofs`)

The list crawls of one process. `page`, `toPut`, `queue`, `undone` and `work` are
the page walk, the `asyncio.Queue` with its count of unfinished tasks, and what
each worker holds; `keys` is the shared set. A detail's fetch, with semaphore,
session, middlewares and local dispatch, is a claim and, later, an answer: for
good (`Settle`), retryable or an exception (`Fail`), or cancelled. An answer for
good includes 202, with which a detail is handed to the fire-and-forget pool.
`PageFails` and `PageBreaks` leave the page walk; the run cancels its workers
(`Cancelled`, which releases the key and reports the item done twice, as the
code's `except` and `finally` do), and `RunAgain` is the second `_run` in `main`.
As an implementation of `KeyLease` the holders are the workers of all crawls, and what
a worker has in its hands is what it holds; the keys are how they agree.

### `FireAndForget` (values: `MCFireAndForget`, proofs: `FireAndForgetProofs`)

The thread pool of one process and the wait of `main()`. A root is a crawl that
nobody handed on, a task one that was handed to the pool, by a root or by another
task. `Dispatch`, `Submit` and `Track` are the three calls between the look for
`stop.flag` and the registry, so that a worker may take a task, and finish it,
before its future is registered. `Poll` is one turn of the wait, which ends after
`IdlePolls` empty ones; `Expire` and `LeaveOnStop` are its other ends, after which
`CancelUnstarted` cancels whatever no worker has taken, of any root, and
`LookForExecutor`, `Close` and `Drop` are the three reads and writes, without its
lock, of the global executor. After `Check` the root has ended or has raised
`TimeoutError`. The order of the executor's queue is abstracted to a set; the list
of failures, which is only logged, and the synchronous mode are left out.

### `ListingLife` (symmetry: `MCListingLife`, proofs: `ListingLifeProofs`)

One listing: its record (price, day of registration, day it was last confirmed),
its evaluation, and the revisions appended since the price last changed. A crawl
goes through the steps of the code, each access to the database one step:
`List`, `Query` (the filter's decision), `Touch` (`_batch_update_cached`) or
`FetchPage`, `LookUp`, `Revise`, `Save` with `Merge` for a duplicate entry, `Tag`;
`FindEval` with `Delist` or `FlagParser` when there is no page; `GivesUp` anywhere.
The validation reads, judges and saves in three steps. What it judges with the URL
check does not follow the site (`Verdicts`): `verify_url_active` has phrases of its own
and accepts pages that a parser takes for ended. The site is free to change
the price, to take the listing down and to put it up again. `trouble` is a history
of what an answer swallowed by the code or an overlap of two has done since the
listing was last left alone; a crawl is at a listing for less than a day.

### `Singleflight` (values: `MCSingleflight`, proofs: `SingleflightProofs`)

`SingleflightGroup.do` over `asyncio.Lock` and futures, which are modelled as
external, from how the group uses them. `threaded` is chosen initially: all
requests on one loop, as in the unit tests, or each on a thread and a loop of its
own, as in `predict_by_url`. A leader that is cancelled, which would leave its future
pending (`singleflight.py:43` catches `Exception` only), is left out, because
`predict_by_url` cancels none.

## The runs

| Run | Module | Question | Result |
|---|---|---|---|
| `array` | `MCTaskArray` | Does the election give at most one report, by the last task, with every stored result and every job once, whatever raises, aborts or dies and with a task without jobs? Does it implement `Aggregation`? Does a pass of the barrier mean that the results are stored? | holds |
| `guard` | `CrawlTeardown` | Is the proxy ever stopped under a task that crawls? Is a run in which nothing fails and all have jobs reported? | never; yes |
| `success` | `MlSuccess` | Does a complete success pass the barrier? | violated, see below |
| `sharing` | `MCSharedProxySql` | Whom can a stop hit, and is the proxy stopped in the end? | who was launched after its job was listed, and for the Safety-Net those that it does not ask for or takes for hung; yes |
| `jobs` | `MCCrawlScheduler` | Limits, no job lost, no orphan of a handled exit but one being started, the shown count, overloads kept while the file can be read, termination | hold |
| `window` | `Watchdog` | What the watchdog's window promises | holds |
| `lists` | `MCDetailDispatch` | Keys exact, no second fetch, nothing left out, a join neither early nor late, every crawl ends? Does it implement `KeyLease`? | hold |
| `pool` | `MCFireAndForget` | Orderly end leaves nothing, accepted work kept, threads bounded, waits end | hold |
| `listing` | `MCListingLife` | Registration date kept, no silent change of price, confirmed prices shown, ended listings published only after a look | hold |
| `delisted` | `ListingLife` | Does an ended listing stay unpublished when the validation skips the URL check? | violated, see below |
| `group` | `MCSingleflight` | What singleflight promises on one loop (and, of it, what is left with threads) | holds |
| `threads` | `MCSingleflight` | Do followers share the result with a loop per thread? | violated, see below |

What each property says is written above it in its module. Type invariants are
proved for all constants and are not run again.

### Bounds and why they are enough

* `array`: three tasks, two that compete for the aggregation and one without jobs
  whose row comes at any time; three accesses that raise, so that a task may use
  up its three attempts and a claim that was applied may raise; one abort and one
  death; clock 0..3 with a stale age of 2 above the container's limit of 1. A
  ratio of 60 %, so that two of three are enough for the barrier; three jobs, two
  of which go to one task. The proofs have no bounds.
* `guard`: three tasks with jobs, a death and an abort; the number of raising
  accesses is high enough never to bind, because a stopped proxy makes every
  access raise. `success` has production's four tasks and 85 %.
* `sharing`: a crawl whose age may be unreadable, an ML run that may become overdue and
  a recrawl, which may too and which the Safety-Net does not monitor: each kind once, on
  a job of its own, so that every pair of them can overlap and a guard asks three times.
  One run of the Safety-Net may fail: the next shows that nothing is kept of it.
* `jobs`: two browser jobs and two others, two at a time, one browser at a time, a
  company limit of one, and one crawler that never ends by itself: each limit
  binds in some state, and a kill, a start that fails and a signal meet it. One
  overload, noted before or after the loop has read the file. A second one adds
  that the first may come back in its place, which the property allows.
* `window`: threshold 4, grace 6, sample 2, up to 1 before a look and up to 2 after
  it: their order in production (300, 1800, 15, a turn), and a clock that runs past
  grace and threshold.
* `lists`: two crawls with two workers, one detail in both lists and one listed
  twice by the first, a queue of one place (by default 5000), so that put, take
  and join all wait for one another.
* `pool`: two roots, one with a task that hands on another, one worker and three
  idle polls as in the code: a wait that has nearly given up meets a late task, the
  second root's wait meets the first one's shutdown, and a chain outlives its root.
* `listing`: two crawls and two prices over three days, with an age limit of one
  day, and at most two, crawls or a validation, at the listing at once: a stale
  decision, a duplicate insert and an overlap with the validation all occur. Crawls
  and prices are interchangeable, and no property is about liveness, so symmetry
  is sound. `delisted` needs one crawl and one price.
* `group`: three requests for one key and one for another: a leader, two
  followers and a stranger who competes for the lock only.

Deadlock is checked wherever the system may not stop; a normal end is an explicit
stuttering step (`Done`, `Over`). `group` and `threads` switch it off, because
with threads a request may really sleep for ever.

### Fairness, and why the code justifies it

* `jobs`: weak fairness of the loop as a whole (the parent is scheduled; each of
  its steps is always possible until it ends), of the end of a crawler that is not
  stuck, and of the silence of one that is. None of signals or of kills for lateness.
* `sharing`: weak fairness of the passing of the grace period and of the Safety-Net, which
  is scheduled every hour and whose steps have timeouts. None of the executions, which
  may sleep for ever, and none of the cancels.
* `lists`: weak fairness of each crawl and each worker: every await ends by an
  answer or by a timeout (page fetches and local dispatches have one), and threads
  and loops are scheduled.
* `group`: weak fairness of each request: its loop runs its tasks and `fn` ends.
* `pool`: weak fairness of the steps of a root that waits, and of its time running
  out: the waiting thread is scheduled and a clock goes on. Nothing is assumed of
  the workers, which may hang, nor of stops.
* `array`, `guard`, `window`, `listing` and `delisted` have no liveness property and
  no fairness: containers may be killed at any time.

## What is proved

All for arbitrary constants under the assumptions named in the modules, by
tlapm with Z3, Zenon and LS4.

**`TaskArrayProofs`.** Types; `OneAggregator`; `RowsOnlyAdvance`;
`LastOneAggregates`; `NoResultLeftOut`; `ImplementsElection`. `ClaimInv` is the
invariant behind the first two: a task that is still to crawl has a row `ABSENT`
or `RUNNING`, and a row is `AGGREGATING` for whoever has claimed and for one task
only. `OneAggregator` alone is not inductive: what excludes a second claim is the
first one's row. The last three also need time: `TimeInv` bounds the age of a live
task by its container's limit, so that under `ContainerTimeout < StaleAfter`
(`TimelyContainers`) the row of a task that crawls is not stale, and `LeaderInv`
says that nobody crawls once a task is past its look at the others. This
assumption is part of the theorems' statements: without it they are false (see below). In production both
are 14400 s, and `run_pipeline.py` ends a task 300 s before its container would.

The same module has the theorems of what extends the task array:

* *The report is sent.* `SettledRunIsReported` by `HandOver`: in an undisturbed run an
  `AGGREGATING` row is being reported or has been, and once all rows are settled
  somebody is on the way from its election to the report. The property is not
  inductive: the last to settle its row finds nobody pending, and a task that may
  not claim has seen the claim of another, which must therefore be known to lead to
  a report. The theorem assumes that every task has jobs (`Jobless = {}`): with a
  jobless one it is false (see below). It carries over to the composition with the
  proxy, on which the run checks it.
* *Jobs.* `EachJobToOneTask`: for every list of jobs and every number of tasks,
  `distribute_jobs` deals each job to exactly one of them; the cases are its tables
  and moduli. `PassMeansCrawled` by `EvidenceInv`: a `COMPLETED` row is the row of a
  task whose results are stored or that has no jobs. `EachJobReportedOnce` from the
  first, with `NoResultLeftOut`'s assumption: the report of an undisturbed crawl
  covers every task, and a job is dealt to one.
* *Teardown.* The composition implements `TaskArray` (`TeardownSpec => Spec`), so that
  its theorems carry over; its types; and `NoStopUnderCrawl` by `GuardInv`: once the
  guard has said yes no worker crawls, because settled rows stay settled (`ClaimInv`)
  and crawling is never taken up again.

**`SharedProxySqlProofs`.** Types, and `StopSparesWhatWasListed`. It is not inductive, as
it speaks of stoppers that have their last answer only: the invariant says of every
stopper, and of each job that it has asked for so far, that the active executions of it
came later (for the Safety-Net: came later, or were found). A guard counts the
executions that have not started yet as well, so that at its answer nobody is there at
that job. And what the Safety-Net takes for hung is overdue or of unknown age.

**`CrawlSchedulerProofs`.** Types; `EachJobInOnePlace` (with: nothing is starting
outside of `register`); `WithinLimits` by `LimitInv`: the running processes are
among those starting or active, and these keep the limits, since `HasRoom` leaves
room for one more, also after the loop was killed, when nobody starts any;
`EndsWithNothingLeft`; `HandledExitLeavesOnlyAStartingOne`; `ShownCoversTheRunning` by
`ShownInv`, kept by kills, which only lower the number; `ReadableOverloadIsKept`. `SleepsForAProcess`, stated in the module: with a browser limit
above 0 the loop never sleeps over a queue while nothing is active whose end it will find; by `HeldInv` (what
holds room has a process that was not killed) and because without active jobs every
limit has room.

**`WatchdogProofs`.** Types with the order of the times; `RecentProgressSaves` by
`SampleInv` (a file time that is not newer than the last sample is known);
`GraceIsGiven`. `HungIsNoticed` by `NoticeInv`: a turn that has let the crawler live
knew of activity within the threshold, and the next comes within a turn's time. The
theorem assumes `OftenSampled`, `SampleEvery <= Threshold + 1` (15 and 300 s in
production): a file that is sampled less often than that hides activity that the turn
should have gone by.

**`DetailDispatchProofs`.** Types; `ClaimsAreExact`, which is inductive with the
types; `NoRefetch` from it, as a claim is taken only for a key that is not there.
`ImplementsKeyLease`, also from it: each step of a worker lends one detail, gives one
back or changes no hands, and the lease's condition, that nobody holds the detail and
that it is not settled, is what the missing key says. `EndsWhenDone` by `CountInv`: the
count behind `queue.join()` is the length of the queue plus the number of busy workers,
in every attempt, but not of a crawl that is cancelled: there a worker reports one
item done twice, and only the new queue of the second attempt, which starts when all
workers are free, makes the count exact again. `NobodyWaitsForEver`, stated in the
module, says without `ENABLED` that the crawls do not deadlock: the walk that waits for
room in the queue, the workers that wait for details and the join that waits for the
workers never all wait. It follows from `CountInv` and `PageInv` (a next page is asked
for only when there is one) and needs a worker, which `max(1, ...)` gives every crawl
(`api.py:1702`). `ListedIsAccountedFor` from `CountInv` and
`DispatchInv`: while no crawl is disturbed, what is listed is still to put, queued,
claimed or failed.

**`FireAndForgetProofs`.** Types. `EndedMeansSettled` by `RegistryInv` (what is accepted
is registered, or about to be by a caller that still crawls): when the registry is
empty and the root no longer crawls, the outermost unsettled task under it would
have no caller. That there is an outermost one is the theorem's assumption, that
handing on is well-founded: a crawl was not handed on by itself, at whatever
depth. `AcceptedWorkIsKept` and `PoolIsBounded` by `QuietInv`: without a stop and a
timeout nothing shuts an executor down, so that there is only one.

**`ListingLifeProofs`.** Types. `RegistrationDateIsKept` by `Kept`: the date a crawl has
read is the record's, whatever is saved in between. `NoSilentPriceChange` and
`DelistedNeedsALook` by `Alone` (without an overlap, one crawl or validation is at
the listing) with `RevisedFirst` (a crawl about to save has appended the revision
of the change) and `AcceptedFirst` (whoever is about to publish has read the page or
had it accepted; only without `SkipUrlCheck`, which the theorem assumes). `StoredPriceIsConfirmed`, with any
overlap, by `Confirmed`: what a crawl has read was shown on the day it began, and
that is at most a day ago.

**`SingleflightProofs`.** Types, with whoever is woken at the head of the line.
`OneRunPerKey` and `CallsAreExact` by `GroupInv`: as long as nobody has waited for the
lock on a loop of its own it excludes (`Exclusive`: who holds it holds it alone, and
who is woken finds it free), and every leader under way has its key in the table and
nothing else is there (`CallsInv`). `OneRunPerKey` by itself is not inductive: a second
leader is excluded by the first one's key, from before it runs until after.
`SharesAFreshResult` from the table, `SharedOnOneLoop` by `JoinInv` (a call that is
joined stays one that leads, and an answer is its result). `NoDeadlockOnOneLoop`,
stated in the module, by `WaitInv`: a follower awaits its call with the lock in hand,
and the call wants the lock back, but has its result before it asks.

**Only model-checked.** Of the passing runs, liveness: `Termination`,
`StoppedInTheEnd`, `EveryRunEnds`, `WaitEnds` and `AnsweredOnOneLoop`. Liveness under
fairness, `ENABLED`, induction over data and recursive operators are out of the
provers' reach. What the three violated properties say is false and has no theorem.

## Where code and documents disagree

Shown by a run:

1. `success`: the claim overwrites the last task's `COMPLETED` with `AGGREGATING`
   for good, and the barrier counts `COMPLETED` only (`run_ml_pipeline.py:138`):
   with four tasks that all succeed it sees three of four, below 0.85.
2. `threads`: `predict_by_url` runs `do` on a loop of the request's own thread;
   awaiting a pending future of another loop raises, and the follower gets an
   error instead of the shared result.
3. `delisted`: with `--skip-url-check`, which the pipelines pass by default, the
   validation sets `is_published` whatever it was (`validate_data.py:170`) and
   publishes a listing again that a crawl has just found to have ended, although
   `docs/requirements/slack_validation_delisted_requirements.md:24` wants it
   unpublished.

Met while modelling, without a run of their own:

* A task without jobs writes `COMPLETED` and leaves without the election
  (`run_pipeline.py:781`). If it is the last to write, the others have seen no
  row of it, took it for pending and left: no report, although
  `docs/external_design/task_array_fast_exit_external_design.md:32` has the last
  one send it. `array` with the invariant `SettledRunIsReported` added shows it.
* A listing that every crawl finds unchanged is never fetched again for its age:
  `_batch_update_cached` resets the `updateDateTime` from which the age counts,
  although `docs/1_architecture/requirements_master.md:440` has a listing fetched again
  when `DIFFERENTIAL_TTL_DAYS` have gone by since it was registered (the design,
  `basic_design_master.md:136`, counts from its last collection).
* An abort of the last task, or of one that others wait for, leaves rows settled
  and no report (`run_all_crawlers.py:414`); `SettledRunIsReported` is therefore
  stated for undisturbed runs.
* The limit of one job, `CRAWL_TIMEOUT_SEC`, is also the age at which another
  task's row counts as dead (`run_all_crawlers.py:313`): when it is not above the
  life of a container `LastOneAggregates`, `NoResultLeftOut`, `EachJobReportedOnce` and
  `ImplementsElection` may fail.
* The guard takes a `COMPLETED` row for the end of the task, which may still elect
  and aggregate over the proxy (`run_pipeline.py:251`); `NoStopUnderCrawl` is
  about crawling only.
* An execution launched while a guard lists the executions of other jobs, or between
  its answer and the stop, is cut off (`gcp_resources.py:856`, `run_pipeline.py:449`).
  The Safety-Net also cuts off those of jobs that it does not ask for, unless there
  is traffic, and those whose cancel failed or is not through yet.
  `StopSparesWhatWasListed` names these cases and excludes others.
* The ML job sends an aggregated report of its own (`run_ml_pipeline.py:311`).
* A browser limit of 0, which `resource_limiter.py:109` accepts, keeps browser
  jobs queued and the loop running for ever.
* A signal between `Popen` and the registration of the process leaves it running
  (`run_all_crawlers.py:1003`). After a SIGKILL of the loop (`run_pipeline.py:274`,
  `:346`) every crawler lives on until its container ends, and may crawl while the
  teardown stops the proxy. `HandledExitLeavesOnlyAStartingOne` is about the first; of
  the second only `WithinLimits` says something, and `NoStopUnderCrawl` is about
  tasks that are alive, not about the crawlers that one has left behind.
* Kills do not rewrite the count in the state file (`run_all_crawlers.py:901`):
  it may be too high until the next start or end. It is too low after a write that
  failed, and after an overload that was noted over an unreadable file
  (`adaptive_concurrency.py:177`), until the next write; in the same way the loop's
  write may forget an overload.
* A crawler that made progress after the last sample may be killed as silent
  (`crawler_watchdog.py:158`); `RecentProgressSaves` has the sample period in it.
* A detail that is skipped because another crawl has its key is lost when that
  crawl is cancelled (`api.py:1625`); `ListedIsAccountedFor` excludes that case.
* A wait whose time is over cancels the queued work of other roots too
  (`api.py:261`), and what it cancels is not counted as unfinished. After it, or
  after a stop, a new executor runs next to the old one's workers and the bound is
  exceeded; `AcceptedWorkIsKept` and `PoolIsBounded` end there.
* After the `TimeoutError` of a wait, `_exit_crawl_run` and `_close_loop` are
  skipped (`api.py:1392`).
* A listing that is put up again at its old price is skipped by the filter and
  stays unpublished; so does a live one that a passing error made the validation
  unpublish. `DelistedNeedsALook` is about the other direction only.
* The URL check and the parsers do not agree on what an ended listing looks like: a
  catalog page (`tokyuParser.py:54`) or the words of `hasekoParser.py:20` end a listing
  for the crawl, and `verify_url_active` (`slack.py:173`) accepts such a page, so
  that the validation may publish again what the crawl took down. `DelistedNeedsALook`
  says that a look has happened, not that it was right.
* Lists without prices (those of `reguide`, `daikyo` and `mizuho`) never lead to a new fetch
  for a change of price; `StoredPriceIsConfirmed` is about lists with prices.
* A crash between the save of a record and its evaluation leaves a record without
  one; a crash between a revision and the save may append the revision twice.
* Two that overlap at one listing may lose a revision, or publish what the other
  has just found to have ended (the comment at `api.py:2536` means the sequential
  case); the two properties exclude an overlap, the other two do not.

## What is not modelled

Cloud Run, Compute Engine, MySQL, asyncio, thread pools and the operating system
are modelled only from how the code uses them. Reports and messages are events
without text.

* **Dispatcher and its worker** (`run_dispatcher.py`, `main.py`): a second way to
  start a crawl, one Cloud Task per job. It is deployed, but no workflow or
  schedule in the repository starts it, and it is never mixed with a task array.
* **Rate limits and lockout**: what they promise is about real time and about the
  sites, which the code cannot observe. The slots of a site are one expression
  under a lock.
* **Dynamic semaphore and throttle window**: the semaphore changes only the speed
  of a crawl, and is built on the private fields of `asyncio.Semaphore`; the throttle
  compares times when a crawler asks for its concurrency.
* **In modelled components**: crawls whose items are gathered instead of queued (they
  share the keys in the same way), the synchronous mode of the pool, the matching
  of several URLs to one listing (a listing has one URL in `ListingLife`), saves in
  batches, the seven days of the validation (it may judge any evaluation at any
  time), the choice of the latest execution by the barrier.
* **Parsers, valuation models and training, RAG, the other web routes,
  deduplication, migrations, terraform**: data, numbers and declarations without
  control of their own. They are most of the repository's lines.

## Plan

Done, in this order: `Aggregation` and `TaskArray` with refinement and proofs;
`CrawlTeardown` and `MlBarrier` as compositions over the rows; `SharedProxySql`;
`CrawlScheduler`, `Watchdog` and `DetailDispatch` with proofs; `Singleflight`;
`FireAndForget` with proofs; `ListingLife` with proofs; `Distribution` and
`JobCoverage` with proofs; the state file in `CrawlScheduler`; the proofs for
`SharedProxySql` and `Singleflight`, of `HungIsNoticed` and `SettledRunIsReported`;
`KeyLease`, the abstract lease of the details, with its refinement.

Left, if the code they stand for becomes part of the daily run or is changed:
`Permits` (the semaphore with its count of permits) and `Dispatcher` (rows, tasks of
the queue and their retries). With `Permits` the theorem worth proving is
that no permit is lost when the limit is lowered while crawlers hold some.
