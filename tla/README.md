# Flyte SDK: a TLA+ verification of the remote controller and what runs around it

The Flyte SDK (`src/src/flyte`) runs tasks. A task that runs on the platform (the *parent
action*) calls other tasks and traced functions; each call becomes a *sub-action* that the
SDK submits to a queue service, watches through a state service, and returns to the caller.
The code that does this, the remote controller, is concurrent, retries, recovers from
crashes and is hard to test: it is the core of this project. Around it the project models the
life of the container that holds it, and the other pieces of hand-written concurrency of the
SDK: the refresh of shared credentials, the cache of code bundles, the bridge from sync code to
event loops, deployment, `flyte.map`, watching a run and its logs, and the parallel download of
files from an object store.

Paths below are relative to `src/src/flyte` unless they start with `src/`.

## 1. Inventory

| Component | State | Operations | Hard behaviour | What makes it correct |
|---|---|---|---|---|
| **Controller core** `_internal/controllers/remote/_core.py` | shared queue (bounded), `_running`, thread and loop, failure event, retries of each action | submit, get, cancel, finalize, stop, watch_for_errors; worker: take, launch, back off, requeue, fire | 20 workers, watches and submits share one queue and one loop; lost answers; retries; a worker that raises | launched at most once; every submit ends; the outcome returned is the one on record |
| **Informer, action cache** `remote/_informer.py` | name to action, completion events, ready event, watch task; informers by parent | submit, observe_state, get, remove, wait, fire; watch, start, stop; get_or_create | recovery (the watch is first), reconnects, a sync that times out, a lock held during start | one object per name; no update is lost; nobody waits on an event nobody sets |
| **Action** `remote/_action.py` | phase, started, task spec, errors, retries | from_task / from_trace / from_state, merge, mark_cancelled, set_client_error | shared by all of the above without locks | terminal and started mean what the workers take them for |
| **Remote task and trace controller** `remote/_controller.py` | call counters and semaphore of each parent | submit, submit_task_ref, get_action_outputs, record_trace, finalize | attempts of the parent interleave differently; failed uploads; cancellation | names differ in an attempt; attempts find the records of earlier ones and do not multiply them; a record tells what there is to load |
| **Traced functions** `_trace.py` | none | lookup, run, record, record the error | error paths inside error paths | a recorded function is not run again |
| **Sub-action names** `_internal/runtime/convert.py`, `models.py` | none | hash of spec or name, inputs, group, call number | two rules for what "the same function" is | as for the controller |
| **Parallel reader** `storage/_parallel_reader.py` | two queues, a buffer per file, the event `done` | list, fetch, write, move, report, consume | shared countdown without lock, one sentinel for all workers, failures | files are moved whole; the download is complete; it ends |
| **Runtime entrypoint** `_bin/runtime.py`, `_internal/runtime/*`, `_utils/coro_management.py` | the task's coroutine, the watch for errors, the controller's thread, the documents written | load, run, finalize, upload; race both, cancel the other, report, stop | two loops; a thread that dies; calls left behind in the background | the process ends, and how it ends is true of what it wrote |
| **Authentication** `remote/_client/auth/` | credentials and their id, lock, keyring, cached login | refresh, intercept, poll for a device code, log in | many calls refresh at once; cancellation inside a refresh; a keyring shared by authenticators | one refresh per expiry, a retry with the new token, every call ends |
| **Async LRU cache** `_utils/async_cache.py` | entries, a lock per key, the lock of all | get, set, invalidate, clear, expire, evict | state read before an await; two loops on two threads | one computation per key; the least recently used is evicted |
| **Sync bridge, local controller** `syncify/`, `_run.py`, `_internal/controllers/_local_controller.py` | a background thread, a runner for each caller's thread | call async code from sync code, run a task in a task | threads that wait for each other | no thread waits for its own loop; calls end |
| **Map** `_map.py` | tasks, cursor | validate, next, collect, cancel the rest | cancellation with a cursor that is one ahead | every mapped task is awaited or cancelled |
| **Deployment, images** `_deploy.py`, `app/_deploy.py`, `_internal/imagebuild/` | plans, cached calls, the context of each plan | discover, plan, build once, bundle, register | cycles, one image in several plans, one step of many failing | each image once and before what needs it; what is returned is registered |
| **Remote objects** `remote/_action.py`, `remote/_logs.py` | cached details, position in a stream | wait, watch, show and tail logs, retry | a stream opened again after an error; stale details | a wait ends at what it waits for; no line of a log is lost |
| Local task cache, initialisation, connectors | a SQLite table; one global state; an external job | get and set; init; create, poll, delete | little: single statements, one lock, a short loop | the cache answers what was stored |
| Declarations, types, IO, CLI, apps, reports | values | construct, convert, print | sequential | validation |

How they interact: user code calls `RemoteController.submit` or a traced function on the
loop of the task. That generates the call number and the name, waits for the semaphore of
the parent, and sends a coroutine to the controller's own thread
(`run_coroutine_threadsafe`). There, `submit_action` obtains the informer of the parent
(started by the first caller), puts the action in its cache and in the shared queue and
waits for a completion event. Workers take actions off the queue: one that has not started
is sent to the queue service, one that is terminal has its event set. The watch of each
informer merges what the state service reports and queues the action again.

All of this happens in one container, whose life is `Runtime`: its main loop runs the task's
coroutine and `watch_for_errors` and ends with the first of them. The controller's thread hands
a failure to `watch_for_errors` through a threading event. To start a run, a client deploys or
bundles code (`Deploy`, whose bundles are kept by `AsyncLRUCache`), sends requests with shared
credentials (`AuthRefresh`), waits for the action and tails its logs (`RunWatch`), and does so
from sync code through the bridge (`SyncBridge`), on whose background loop a `flyte.map` runs too.

`PROJECT.json` lists the hazards, line by line, with the property that covers each or the
reason why none does.

## 2. Modules

| Module | Models | Lines |
|---|---|---|
| `Controller` | core, informer, action | `_core.py`, `_informer.py`, `_action.py` |
| `SubActions` | what a parent is promised about its sub-actions (abstract) | the public methods of `_core.py` |
| `ParentReplay` | call numbers, names, trace lookup and record, semaphore, attempts | `_controller.py`, `_trace.py`, `convert.py:456-486` |
| `ParallelReader` | `download_files` | `_parallel_reader.py` |
| `Runtime` | one container: main loop, controller thread, informer, watch for errors | `_bin/runtime.py`, `entrypoints.py`, `taskrunner.py`, `coro_management.py`, `_core.py`, `_informer.py` |
| `AuthRefresh` | calls of a channel and their credentials | `auth_interceptor.py`, `_authenticators/*`, `_token_client.py`, `_keyring.py` |
| `AsyncLRUCache` | the cache of code bundles on two loops | `_utils/async_cache.py` |
| `SyncBridge` | which thread runs, blocks or waits for which call | `syncify/_api.py`, `_run.py`, `_local_controller.py`, `_task.py` |
| `Deploy` | one call of `flyte.deploy` | `_deploy.py`, `app/_deploy.py`, `imagebuild/image_builder.py` |
| `MapTasks` | one `flyte.map` and its consumer | `_map.py` |
| `RunWatch` | a user who waits and tails | `remote/_action.py`, `remote/_logs.py` |
| `MC*` | instances for TLC, one for each of these but SubActions | |
| `ControllerProofs` | types; one launcher, nothing sent after a cancel, recovered actions adopted, outcomes final, no lost wakeup, the contract of SubActions | |
| `ReplayProofs` | types; records are truthful, names differ, attempts do not multiply actions, recorded traces are used | |
| `ReaderProofs` | types; files moved whole, buffers kept, a download that ends is complete | |
| `RuntimeProofs` | types; the exit is truthful, calls that wait are served | |
| `AuthProofs` | types; one refresh per expiry, a retry has a new token | |
| `DeployProofs` | Deploy: images built once and first, what is returned is registered; AsyncLRUCache, which keeps the bundles: single flight, recency, locks released | |
| `CallsProofs` | SyncBridge: a body blocks for another thread; MapTasks: the rest is cancelled | |
| `RunWatchProofs` | waits and tails are complete | |

### Controller

Grain: everything runs on one event loop, so a step is what a coroutine does between two
awaits that can suspend it. `asyncio.Queue.get` on a queue with elements, `put` into a queue
with room and an uncontended `asyncio.Lock` do not suspend, so that `ActionCache.submit` and
the `put` behind it are one step (`Submit`) unless the queue is full, in which case `SubmitPut`
comes later. The same is true of `Update` and `WatchPut`, and of `Requeue`.

| Code | Model |
|---|---|
| `Action` objects | `obj[ref]`; an object is `own` (made by the submit), `seen` (made by the watch before the submit) or `late` (made by the watch after the submit returned and removed the name) |
| `ActionCache._cache`, `_completion_events` | `cache`, `event` |
| `_shared_queue` | `queue`, at most `QueueSize` long |
| `_bg_run` of each worker | `wpc`, `wref`: `idle` at `get`, `limiter` at the rate limiter, `enqueuing` in the RPC, `backoff` in `sleep`, `requeuing` in `put`, `firing` at the lock of the informer cache |
| `_running`, the loop | `alive` |
| `_bg_submit_action`, `_bg_cancel_action` | `sub`, `ret`, `cancel` |
| `get_or_create` + `start` + sentinel | `sync`; until `synced` or `timedout` its caller holds the lock that `Fire` and `Submit` need (`Ready`) |
| queue and state service | `srv`, `net` (requests on their way), `stream` (updates on their way) |

A failed `EnqueueAction` (any code that is not a permanent one, a timeout included) leaves it
open whether the request has arrived, still will, or never does. The rate limiter is an await
with no bound on what happens meanwhile. PHASE_SUCCEEDED, FAILED and TIMED_OUT are one value:
no code on this path tells them apart. The backoff's length, the workers' number and the
watch's own backoff are left out.

`Terminal`, `merge_state`, `from_state`, `mark_cancelled` and `Todo` are the methods of
`Action` and the test of `_bg_process`, in the code's order: started first, then terminal.
That order matters (a trace is terminal when it is submitted), and so does the object a cancel
looks at (`OwnRef`).

### SubActions, the contract

Each sub-action is called once; it is launched at most once and only if called; a call
returns the recorded outcome, or an error if the service refused it; a cancelled call returns
nothing. `Controller!ImplementsContract` maps `call`, `outcome` and `remote` onto `sub`, the
returned object and `srv`. In particular a returned outcome never changes afterwards, and an
action never runs twice however many lost answers and retries there were.

### ParentReplay

One step above: `submit_action` is used by its contract, which Controller checks, and the
module adds what is around it: numbers, names, the semaphore, and the attempts of a parent
that loses all memory in a crash. `Program` gives the calls of each branch; `Hash` says which
functions are one as far as names go (equal specs, equal `__name__`), and `Result` what running one
with an input gives. The inner state of a
call is `at`: `lookup` (`get_action_outputs`), `body`, `record` (`record_trace` before its
semaphore), `permit`, `sending`, `waiting`. `Crash` may come between any two steps; what is at
the service and in the object store stays. An informer that
did not synchronize in time knows nothing at first and learns later (`Learn`).

Within `MaxFaults`, the outputs of a trace cannot be written (`UploadFails`; `lost` is the history of
it), a call fails before there is an action, because its inputs cannot be uploaded or a record not
loaded (`CallFails`), or its coroutine is cancelled, wherever it is (`Cancel`). A task that is
cancelled while it is sent or waited for is aborted at the service, or is not, if it was not there
yet or the abort fails (`LeftAtService`); a trace is not. Each way gives back the permit. The abort
takes effect in the step of the cancel or never: one that arrives later is Controller's matter.

What happens to two calls after they have got one name is not modelled: the module stops being
faithful there, and an instance with equal hashes is good for `NamesDiffer` and `NamesUnique` only.

### ParallelReader

`_fill`, the workers and the caller, on Python 3.11 or later. `pending` counts the bytes a
buffer waits for; `Write` is `_FileBuffer.write` and the test of `complete`; `Loop` is the
head of the worker's loop, where `done` is read. `GroupEnds` is about the task group,
`DownloadReturns` about the caller. The listing, the fetch, the write and the move may fail
within `MaxFaults`; a failure cancels the group. The workers swallow the cancellation.

### Runtime

| Code | Model |
|---|---|
| `_run_and_stop`, `run_coros` | `main`: `racing` until the first of two coroutines ends, `reporting` the system error, `stop`, and what `asyncio.run` does when it leaves (`leaving`) |
| `watch_for_errors` | `watcher` |
| `load_and_run_task` to `upload_*` | `task`, `outcome`, `uploaded` |
| `ControllerThread`, `_running`, `_failure_event` | `thread`, `running`, `event` |
| `submit_action` and the future the task waits for | `call`, the informer it uses `via` |
| `InformerCache` and its lock, `_watch_task`, its done callback | `cached`, `lock`, `watch`, `failures`, `attached` |

Two loops run side by side; within one, a step is what happens between two awaits. What a worker
does is in Controller; here a sub-action is queued, launched, fired. `PoolEnds` and `Crash` end
the controller's thread at any time. The calls of `Background` are made with `create_task` and
may still wait when the body has returned, when `finalize` removes the informer under them, and
when the loop that waits for them is closed. `Command` is what the command line may ask for: a
bundle to download and a resolver, or not, which decide how loading can fail.

The module shows what the code does with two kinds of failure. A watch that gives up ends the
container (`ContainerExits`), because the callback of its task sets the event that
`watch_for_errors` waits for; but not if the call that started the informer was cancelled before
it attached the callback (`Abandoned`), and not if the thread itself dies, which sets nothing.

### AuthRefresh

A request goes `new`, `sent`, `locking`, the steps of a refresh while it holds the lock of its
authenticator (`Holding`), `retry`, `resent`, `ended`. Tokens are numbered as they are issued and
the id of credentials is a hash of the token, so both are one number. `renewed` is a history: how
many tokens were issued because a given one was refused. `create_auth_interceptors` makes an
interceptor for each kind of call, and each interceptor an authenticator of its own: `User` says
which one a request goes through, and authenticators share nothing but the keyring. A refresh is
what the kind of authenticator does: a new token from a secret or a command; the refresh token
first, then a device code that is polled `MaxPolls` times; a login in the browser, whose
credentials are kept for 60 seconds (`recent`). The provider may refuse a token at any time,
accept a refresh token once, and refuse anything it is asked. The browser sends the callback, or a
request on another path first (`PkceStray`): that ends the wait without a code in the queue, whose
blocking `get` then stops the thread of the loop, so that no request takes a step any more (`Frozen`).
Every refresh gives a new token. A command that printed the refused one again
(`external_command.py`) would leave the id, a hash of the token, as it was; the module does not have it.

### AsyncLRUCache

`cache` is the `OrderedDict` of entries as the sequence of its keys, `locks` the dictionary of
locks per key, each lock named by the coroutine that made it (`get` makes one at most), `mine` the lock a
coroutine took out of it before it awaits it: the lock may have been taken out of the dictionary by
then and another made. `LockFor` is `self._locks.get(key)` or a new lock. A coroutine runs
until it awaits something that is not ready (`running`), the thread of the other loop may do
anything meanwhile, also between a test and the read behind it (`KeyError`). Any key may be asked
for from any loop, as that of a task is that is called directly and through `flyte.map`. `access` is
`_access_lock`, `holder` has the owner of each key's lock. These are one kind of thing: an
`asyncio.Lock` is `bound` to the loop that first waits for it and raises in another that has to wait,
and a release sets the future of a waiter from the thread that releases (`waker`), which wakes nobody
on another loop. `acquire` and `release` are one step each: what two threads do to the waiters of one
lock in the middle of them is left out. `contains`, which nothing calls, is not modelled. `used` and
`lapsed` are histories that
`Recency` and `SingleFlight` are about; `Recency` compares the order of keys in the cache with that
in `used`, position by position.

### SyncBridge

The program is chosen in the initial state: who calls whom, whether a call is a function made
sync by syncify, an async or a sync task, and whether it is awaited. `thread[n]` is the thread a
call runs on, found by `ThreadFor` when it is made, as the code does: functions on the one background loop, sync tasks on the
runner that belongs to the thread of their caller, async tasks with their caller. A body that
makes a blocking call occupies its thread (`occupant`). The check of `__call__` compares the
caller's thread with the background thread; what it cannot see is `Trap`.

### Deploy

The cached coroutines are `engine[i]` for each image and `bundle`: a call joins the one that runs,
a result is kept, an error is not. All plans are applied at once; `context[p]` is the
`SerializationContext` that the entities of plan p share, which the deployment of an app with
included files assigns to (`OwnBundle`). `at[p][e]` is how far each task or app of a plan is.
`_recursive_discover` is `Discovered`, with the cycles and clashes of names that make `plan_deploy`
fail. `skip` are the images that `image_exists` does not check, because of their tag, because they
have no layers or because the builder has no checkers: they are taken to exist (`assumed`), as are
those for which all checkers fail. `CheckRaises` is an image without a name or an unknown builder.
Any build, check, upload or request may fail within `MaxFaults`.

### MapTasks

`current` is `_current_index`, which `__next__` advances before the result is awaited; `Rest` is
what the handler of an exception cancels, from `_current_index + 1` although the index has moved on
already. `partial` is the partial
function given to `flyte.map`, as counts of positional arguments and the parameters bound by
keyword, for `validate_partial`. The consumer may leave between results or be cancelled in one.

### RunWatch

The service moves an action through its attempts and adds lines to the log of the running one.
The user waits for the end, for the start, or shows logs of the latest or of the first attempt.
`details` is the cached `_details`, which is filled once and then stale; `known` is the state the
object was made with. `Reopen` is the retry of `Logs.tail`: from the first line, with its counter; when the retries are
used up it raises NOT_FOUND, and tries any other error again at once.
`cut` says that the service ended the watch (CANCELLED), or that the caller cancelled the wait or the
tail or interrupted it: both end quietly (`WatchCut`, `TailCut`), unless the tail sleeps. A wait for
an action that is known to be done may have to get the details to report an error (`Report`), which
can fail. The service sends the log from its first line whenever the stream is opened.

## 3. Runs

| Run | Instance | Shows |
|---|---|---|
| `CtlBackpressure` | a task and a trace, both recoverable, 2 workers, queue of 1, 1 reconnect | `TypeOK`, `NoLostWakeup`, `ReturnedFinal` |
| `CtlRetries` | 1 recoverable task, 2 workers, queue of 3, 3 faults, 1 retry, 2 reconnects | `OneLauncher`, `NoSendAfterCancel`, `AdoptedNotResent`, `ImplementsContract`, `SubmitEnds` |
| `ReplayAttempts` | 2 branches of 2 calls, a task and a traced function, 2 inputs, 2 attempts, 1 failure or cancelled call, 1 permit | `TypeOK`, `RecordedHasOutputs`, `NamesDiffer`, `NoExtraActions`, `RerunOnlyUnknown`, `Completes` |
| `ReaderDownload` | files of 5, 1 and 0 chunks in 4 listings, 2 workers, queue of 4, 1 failure | `TypeOK`, `MovedWhole`, `BufferKept`, `EndedIsComplete`, `GroupEnds` |
| `RtLifecycle` | 2 sub-actions, 1 of them in the background, a watch with 2 retries and 2 faults, a thread that may die | `TypeOK`, `ExitIsTruthful`, `WaitersAreServed`, `ContainerExits` |
| `AuthCalls` | 2 HTTP calls with one authenticator, a stream with another, 3 tokens, 1 poll, 1 call that may be cancelled, every kind of login | `OneRefreshPerExpiry`, `RetryIsFresh`, `CallsEnd` |
| `CacheGets` | 3 gets of one key on 2 loops, 3 keys, room for 2, expiry, 2 other calls | `SingleFlight`, `Recency`, `GetsEnd` |
| `SyncCalls` | every program of 4 calls, whoever calls whom | `BlockedElsewhere`, `CallsEnd` |
| `DeployPlans` | 9 calls of deploy over 2 task environments and an app, 2 images, one of them unchecked in one call, 1 failure | `BuiltOnce`, `ImagesFirst`, `ReturnsDeployed`, `DeployEnds` |
| `MapRuns` | up to 4 tasks, functions of up to 3 parameters | `RestCancelled`, `MapEnds` |
| `WatchAndTail` | 2 attempts, logs of 2 lines, 2 retries, 2 failures or interruptions, 2 calls | `WaitReached`, `TailComplete`, `CallsReturn` |
| `DeployIncludes` | the instance of `DeployPlans` | violates `OwnBundle` |

**Bounds.** Every bound is a constant named in the module. Two workers are enough for the races
of workers, whose code is the same and who hold one object each; two actions are enough for
one to be blocked by the other, since no code relates more than two names. `QueueSize = 1` in
the backpressure runs makes every put wait, and lets one object be in the queue, with a worker
and in the watch's hands at once. Three faults with one retry reach the exhaustion of retries
with a request still on its way; two reconnects let the stream repeat a phase twice. In
ParentReplay, a second attempt finds everything the first may leave, and a third adds no new
kind of memory; the branches call the traced function with different inputs, of which only one
gives something that is true in Python, so that the order of their calls shows in the names. The one
fault there is each of a failed upload, a failed call and a cancelled one. In ParallelReader five chunks are more than the queue has room for, so that
the listing waits, and the last chunk is shorter than the others. In Runtime, one call that is
awaited and one that is not are the two ways a call can be left behind, and two faults with two
retries are the first number that makes the watch give up. In AuthRefresh two calls of one
authenticator are what a race for its lock takes, and a third call with another one is what shares
the keyring; three tokens allow the new token to be refused as well. In AsyncLRUCache two
coroutines of one loop and one of the other, all asking for one key, have a lock waited for and
released within a loop and across; with two other keys that are set there is one more than room for. In SyncBridge four calls make a chain from the user's thread through the
background loop and a runner of it and back, which is what it takes for threads to wait for each
other in a circle. In Deploy the
programs are chosen to have shared dependencies, a chain, a cycle, a clash of names, a shared
image, an unknown image, a given version and no bundle. In MapTasks an error in the first or second
of four tasks leaves some before, at and after the cursor. In RunWatch the second attempt makes the
first one's details stale, and two lines let a stream break between them.

**Statements the code breaks.** `OwnBundle` (`DeployIncludes`): an app that includes files puts its
own bundle into the context of its plan, and a task registered after it in that plan gets it. The
following are not among the runs but are stated in their modules; TLC refutes each within a minute on
the instance named, under `FairSpec` where it is a liveness property.

| Statement | Instance | What happens |
|---|---|---|
| `Controller!DroppedNotLaunched` | 1 task, 1 worker | `started` means that the watch has reported the action, so a cancel while EnqueueAction is on its way aborts nothing, and the request launches the action |
| `Controller!CancelReachesServer` | 1 recoverable task, 1 worker | the cancel of a recovered action looks at an object that is in no cache, and leaves the action running |
| `Controller!ExhaustedIsReported` | 1 task, 1 worker, 1 retry, 2 faults | the exhausted action's exception ends the worker pool and the loop, the submit never returns, and the error the next handler would report is reported to nobody |
| `ParentReplay!ResumesFromTrace` | `OneBranch` | `if info.output:` runs a recorded function again when its output is false |
| `ParentReplay!OneActionPerCall` | `ReplayAttempts` | a call's number counts the calls of its function with any input, so calls that come in another order in the next attempt get other names and are launched, or run, again |
| `ParentReplay!NamesUnique` | `Overridden`, `SameSpec` | calls are counted by object and named by spec, so two `override()`s share a name |
| `ParentReplay!RecordedCanBeLoaded` | `ReplayAttempts` | an error, a void function or a failed upload is recorded as a success without outputs, which every later call of the name finds and fails to load |
| `AuthRefresh!OthersEnd` | `AuthCalls` | a request on another path than the redirect's ends the wait for the login's callback, and the blocking `queue.get()` stops the loop and the calls of other authenticators |
| `RunWatch!WaitMeansDone` | `WatchAndTail` | `wait` swallows its cancellation, and the service's CANCELLED, and returns while the action goes on |
| `ParallelReader!DownloadReturns` | `OneFile` | the caller takes the last report before any worker has seen the sentinel, and waits for one more |
| `Runtime!ThreadDeathNoticed` | `RtLifecycle` | the controller's thread dies, nobody sets the event, and the parent waits for ever |

Other properties name, as an exception, what the code leaves open, and the comment above each says
what it is: the informer whose starter was cancelled (`Abandoned`), a stream's second attempt with
both tokens and a login handed out again (`RetryIsFresh`), a login that waits in the browser
or has stopped the loop (`AuthRefresh!CallsEnd`), keys dropped or expired under waiting coroutines
(`SingleFlight`, `Recency`), a coroutine that waits for a lock another thread holds or has released,
and those of its loop behind it (`GetsEnd`), the deadlock nothing detects (`Trap`),
the next task in line when a map fails (`RestCancelled`), a wait or tail that was cut
(`WaitReached`, `TailComplete`), a worker pool that has ended (`SubmitEnds`), function objects that hash
to the same (`NamesDiffer`). What is excepted is what the code does wrong there, and the property does
not catch it; the hazards in `PROJECT.json` say so too. `NoExtraActions` and
`RerunOnlyUnknown` speak of names: a call that gets another number than in the last attempt is outside
them (`OneActionPerCall`). `findings` in `PROJECT.json` quotes the code, the comment
or the test behind each.

**Fairness.** The event loop runs what is ready, which is weak fairness of the steps of each
coroutine (`CallStep`, `WorkerStep`, `Update`, `WatchPut`, ...), as a whole for each coroutine,
so that it is never owed one outcome of several. The services are assumed to answer, and what
they run to end (`Accept`, `End`, `Finish`). Nothing is assumed of cancellations, crashes,
reconnects or failures, which are bounded or never have to happen. `Acquire` has strong
fairness: `asyncio.Semaphore` is first come, first served among the branches, which run on one loop, so
one that waits is not passed over for ever. The contract's at-most-once rests on the queue service, which
accepts a name once (`Accept`). In `ParentReplay`, the platform ends one of the tasks that run, and `Start` is fair because the platform restarts a
parent that was lost.

In `Runtime` the two loops run what is ready, the service answers, and a body returns once what it
awaits has ended; nothing is assumed of `Crash`, `PoolEnds`, cancellations or failures of the watch. In
`AuthRefresh` each request goes on (`RequestStep`) unless its loop is stopped, the provider answers, and
the browser may never come back. In `AsyncLRUCache` coroutines go on, and one that waits is woken by
the thread of its own loop; nothing is assumed of one whose future
another thread has set (`AtMercy`): `asyncio` does not wake a loop for that. In `SyncBridge` a thread that is
not blocked runs. In `Deploy`, `MapTasks` and `RunWatch` requests are answered, mapped tasks end, the
consumer goes on or leaves, and the service gets on with the action.

**Deadlock** is checked in `CtlBackpressure`, `ReplayAttempts`, `AuthCalls` and `CacheGets`.
`CtlRetries` switches it off, since all coroutines may be waiting for the services there, and the
liveness property says whether that is for ever; `ReaderDownload` and `RtLifecycle` do, because the caller
or the process may wait for ever (`DownloadReturns`, `ThreadDeathNoticed`); `SyncCalls` does because of
`Trap`; the others because what they model ends.

**Mutants.** For every property of a passing run, `PROJECT.json` names a definition and a
plausible wrong form of it, kept beside it in the module (`NotifyPhaseChange`,
`TodoTerminalFirst`, `SubmittedWins`, `UploadTruthy`, ...), under which TLC finds the property
violated.

## 4. Proofs

TLAPS proves the following for every value of the constants that satisfies the named
assumptions (`ConstantsAssumption`; `ProgramAssumption` in ParentReplay, `ReaderAssumption` in
ParallelReader, `CacheConstants` in AsyncLRUCache, `MapConstants` in MapTasks), which say what the constants are: a parent has finitely many coroutines, a bound is a
number, a queue has room for something. `RerunOnlyUnknownAlways` assumes `Injective` as well.

* `ControllerProofs!TypesCorrect`: `Spec => []TypeOK`. `TypeOK` is inductive, because it
  says which worker holds an object and which names are in the cache: without that `Finish`
  and `Return` could not be typed. One lemma for each group of actions, one step for each action.
* `ControllerProofs!OneLauncherAlways`: `Spec => []OneLauncher`. `OneLauncher` is not inductive:
  whether a second worker launches depends on what is in the queue. `LaunchInv` says that only
  the object the parent made can be unstarted (`OnlyOwnUnstarted`), and that as long as it is,
  there is one token for it in the whole system: it is at most once in the queue
  (`QueuedOnce`), with at most one worker (`HeldOnce`), not in both (`QueuedOrHeld`), and in
  neither while the submit still waits to put it (`PuttingAlone`). What breaks one token into
  several, a watch update, starts the object in the same step. Most actions are shown to be
  *tame* (objects stay started, no token is made) and covered by one lemma, `TameKeeps`;
  `TamePut` is for those that put something into the queue.
* `ControllerProofs!NoSendAfterCancelAlways`: `Spec => NoSendAfterCancel`. `TombstoneInv`: once
  a cancel has marked the parent's object, its task spec is gone for good. With `LaunchInv`
  (launching workers hold the parent's object) the test of `Send` catches the worker that was
  waiting at the rate limiter. Both this and the next property are about the worker's step
  (`SentNow`), so that a second request counts although a first one is still on its way.
* `ControllerProofs!AdoptedNotResentAlways`: `Spec => AdoptedNotResent`. `RefInv` says which object
  a name stands for: one that the watch has reported is the one in the cache until its call returns
  (`ReportedCached`), what a worker holds or the queue has of the parent's own is in the cache or
  returned (`OwnCached`), and an object made late is that of a call that has returned
  (`LateReturned`). So the parent's own object, the only one a worker may launch, has no rival made by
  the watch while its call goes on. An own object that is reported while its worker waits at the
  limiter is another matter: `Send` looks only for the spec, and sends it; the service knows the name.
* `ControllerProofs!ReturnedFinalAlways`: `Spec => []ReturnedFinal`. The news of an action travels
  with delay and may be repeated by a reconnect, so the invariant first says what is on the way:
  no live state after a final one, and the last report is the service's state (`StreamInv`). Then
  what an object shows agrees with the service or the stream still has the news (`ReportedTrue`), an
  error means that the service refused (`ErrRefused`), and an event is set only for an object that
  has ended (`FiringEnded`, `SetEnded`).
* `ControllerProofs!NoLostWakeupAlways`: `Spec => []NoLostWakeup`. The property names the debt; that
  it is paid needs two more parts: a final object whose caller waits has a reference that leads to its
  event (`EndedToken`), and once nothing is on its way to the watch, the object shows what the service
  has (`ObservedKnown`).
* `ControllerProofs!ImplementsContractAlways`: `Spec => ImplementsContract`, the refinement. With the
  invariants above, what a returned call shows is a function of the service's state, which is final
  (`OutcomeValues`, `OutcomeKept`). Steps of the queue, the workers and the watch leave the contract's
  variables alone (`HiddenStutters`); submits, returns and
  cancellations are its steps, and so is what the service does with an action (`ContractSteps`).
* `ReplayProofs!RecordedHasOutputsAlways`: `Spec => []RecordedHasOutputs`. A record with an outputs file
  has that file, one without is of a function that raised or returns nothing, or an upload failed.
  Between writing and recording, the output is in the branch's hands: `Uploaded` says that a branch
  which is about to record outputs has written them, `Unmade` that it holds nothing before it has run,
  `Told` where an error it is about to record comes from. A cancel may let a request arrive or not
  (`CancelKeeps`). That a record without a file cannot be loaded is another statement
  (`RecordedCanBeLoaded`), which is false.
* `ReplayProofs!NamesDifferAlways`: `Spec => []NamesDiffer`, whatever functions hash to.
  `Numbered` says that the number of a call in progress is at most the counter of its function,
  so that the next call, one above the counter, has a name that no call of the same function object
  in progress has. Calls of objects that hash to the same may share one (`NamesUnique`).
* `ReplayProofs!TypesCorrect`: `Spec => []TypeOK`, which bounds every counter and every number in a
  name by the number of calls in the program, and the calls between submitting and returning by the
  permits. A counter is the cardinality of the set of calls of its function that the attempt has
  started (`Counted`), which grows by the one call it did not have yet, and is a set of calls.
* `ReplayProofs!NoExtraActionsAlways`: `Spec => []NoExtraActions`, over all attempts. Whatever is
  recorded has a name some call may get (`Recalled`), whose number is at most the number of calls of
  that function; names of one function and one input differ in the number only, so they inject into
  an interval.
* `ReplayProofs!RerunOnlyUnknownAlways`: if `Hash` is injective, `Spec => RerunOnlyUnknown`. What a
  synchronized informer does not know was recorded by this attempt, under numbers its counters have
  passed (`Passed`); so a name just generated is recorded only if it is known (`Seen`), and between
  its lookup and its body nobody records it, since with `Injective` no other call in progress has it
  (`Needed`, with `NamesDiffer`).
* `ReaderProofs!TypesCorrect`, `MovedWholeAlways`, `BufferKeptAlways`, `EndedIsCompleteAlways`: for
  files of every size, every listing, chunk size and number of workers. A worker decides that a file
  is whole from a number that all workers count down without a lock. `FileInv` gives that number a
  closed form, its size less the chunks written, all of which but the last are full (`Left`), and
  `LeftZero` says that it is zero only if all are written: no sum over a set is needed. The queue and
  what the listing holds back are one *line* that the sentinel ends (`LineInv`); each chunk is in one
  place (`OnePlace`), in some place unless a worker has failed (`KeptInv`), and `done` means that no
  chunk is left in the line (`DoneInv`), which with `MovedInv` is completeness.
* `RuntimeProofs!TypesCorrect`, `ExitIsTruthfulAlways`: as long as the race is on, a document is there
  only if the task is done (`RaceInv`); outputs are written for a body that returned only, an error
  for one that did not or for a system error (`DocumentInv`).
* `RuntimeProofs!WaitersAreServedAlways`: an informer is put into the cache by one call, once, and is
  stopped or removed only when the body or the race is over (`CallsMove`, which says what any step
  may do to a call and its informer); a watch that has started has its callback attached unless its
  starter is still in `start` or was cancelled there (`InformerInv`).
* `AuthProofs!AuthTypesCorrect`: `TypeOK` of AuthRefresh, which also says that exactly the requests
  inside a refresh hold the lock of their authenticator, one at most, and that the id always is that
  of the credentials.
* `AuthProofs!OneRefreshPerExpiryAlways`: for any number of requests and authenticators.
  `RefreshInv` adds to the property what makes a second refresh for one token impossible: a token
  for which another was issued is no longer in use and never comes back (`Replaced`, tokens are
  `Issued` once), who holds the lock and goes on refreshes the token in use (`HoldersCurrent`: the
  second look at the id after the lock is taken), and credentials are there once an authenticator is
  (`MadeWhenUsed`; `KindsApart` keeps the kinds of login from each other's steps).
* `AuthProofs!RetryIsFreshAlways`: at `retry` the token in use is another one than the refused
  (`FreshInv`), and it is only ever replaced by one just issued (`SeenBefore`), so it cannot come back
  while the request is on its way.
* `DeployProofs!BuiltOnceAlways`: `Counted` says that the builds of an image are as many as failed
  while none runs, one more while one does or has succeeded: the cached call is what keeps a second
  plan from starting one.
* `DeployProofs!ImagesFirstAlways`: `ImageInv` follows an image from the cached call (`ReadyKnown`,
  `BuiltKnown`) to the calls of each environment (`CallsImages`) and to a plan that is past building
  (`PastImages`), before anything of it is sent (`SentLast`, `PlansLater`).
* `DeployProofs!ReturnsDeployedAlways`: `RecordInv` says that what is done is on record
  (`DoneRecorded`), that what an earlier process registered is only there under a version that was
  given (`OldAtZero`), and that a returned deploy has every entity of every plan done
  (`ReturnedDone`, `AllReturned`).
* `DeployProofs!SingleFlightAlways`: for any coroutines, loops, keys and `maxsize`, also with a key that
  is asked for from several loops: whether a lock belongs to another loop decides if a waiter raises or
  hangs, not who holds it. Who is at work
  under the lock of a key is its holder (`HoldsLock`), so two compute one key only if they hold two
  locks. `OneLock` rules that out: as long as a key was neither stored nor dropped, its lock was never
  taken out of `_locks`, and everybody who took one for it took that one. A key that has been stored
  and not lapsed is found by the second look at the cache (`HoldsOn`, `ComputesAlone`). What the other
  steps have to show is that no key goes back to never having been stored (`NoNewMiss`).
* `DeployProofs!RecencyAlways`: `InOrder`, that keys which have not lapsed stand in the cache in the
  order of their last use, next to `EntriesTyped` (no key twice, at most `maxsize`, all of them used).
  The lemmas say what taking a key out of a sequence, putting it at the end and dropping the
  first one do to `Before`, for sequences of any length and without induction: `RemoveAt` gives each
  position in closed form.
* `DeployProofs!LocksReleasedAlways`: the converse of `HoldsLock` (`HolderInside`), and the same of
  `_access_lock` (`AccessInside`), through every way a get can end. No run checks it as a property;
  `GetsEnd` rests on it.
* `CallsProofs!BlockedElsewhereAlways`: for any number of calls and callers. That a thread is blocked
  by one body (`Occupied`) needs that only a body whose thread is free takes a step, and that it gets
  its thread back from the one call it waits for: the caller of a blocking call is blocked
  (`CallerWaits`), for one call at a time (`OneAtATime`), on another thread (`Elsewhere`). A function
  is on another thread by the check of `__call__`, a sync task because its runner is one step further
  from the owner (`Runner`), and an async task is never blocked for (`Legal`). `OnThread` bounds that
  distance by the number of calls.
* `CallsProofs!RestCancelledAlways`: tasks behind the cursor have ended (`PassedEnded`), and in a
  local run only the one at the cursor runs (`LocalInTurn`).
* `RunWatchProofs!WaitReachedAlways`, `TailCompleteAlways`: for waits and tails that were not cut. What
  is known as done is done, and the details that were got meanwhile say so (`KnownDone`), also on the
  ways on which a wait returns without a watch (`Report`); the lines since the stream was opened are the last ones shown, in order (`InStep`),
  and a stream ends at the end of a log that no longer grows (`AtTheEnd`).

Each strengthened invariant was checked with TLC before it was proved.

Every invariant and every safety property of a step that a passing run checks is so proved.

**Only model-checked, out of the prover's reach**: liveness under fairness (`SubmitEnds`, `Completes`,
`GroupEnds`, `ContainerExits`, `CallsEnd`, `GetsEnd`, `DeployEnds`, `MapEnds`, `CallsReturn`), since no
installed backend proves `ENABLED`; and what the code breaks (`OwnBundle` and the table of section 3),
of which TLC gives the counterexample. Induction over data is out of reach too, and the models avoid it:
sequences are described by their positions, counters by sets, the bytes left of a file in closed form,
and the thread of a call is a variable rather than a recursion over its callers. Only `Above`, which the
liveness property of SyncBridge uses, is a recursive function, and no module has a RECURSIVE operator.

## 5. Not modelled

* The Python 3.10 branch of the reader, and its memory buffer, which nothing uses.
* `submit_task_ref`: the same protocol as `submit`, without the phases ABORTED and TIMED_OUT.
* Several parents' informers on one queue, as a reusable container would have; an informer that is
  evicted while a worker holds one of its actions.
* Several updates that arrive so fast that the queue is full of the watch's own: the watch is
  blocked by its own `put` (`watch`), but `QueueSize` is small and the updates are few.
* Retries with a full queue: with every worker in `put`, nothing empties the queue. `CtlRetries`
  has a queue with room for them, as has the code with 10000.
* Groups, cache keys, serialization, contents of inputs, outputs and errors.
* In Runtime: the debugger's branch. In AuthRefresh: the proxy authenticator, client configuration
  and TLS. In Deploy: dry runs, triggers, and what the image builders do (subprocesses and RPCs).
* In SyncBridge: generators, whose steps cross the bridge one by one, and what
  `LocalController.submit` does besides choosing a thread (conversions, cache, output paths).
* The components marked `not_modelled` in `PROJECT.json`, with the reason there. They hold most of
  the repository's lines: declarations, type conversions, dataframes and files, images as values,
  reports, the CLI, applications and plugins are sequential code about data, without steps that
  another actor could come between. The local task cache does single SQL statements on one table; the
  initialisation is one assignment under a lock; the connectors' loop follows protocols that live in
  plugins.

## 6. Plan

1. *Done*: the modules above and their runs, in the order Controller with SubActions, ParentReplay,
   ParallelReader, Runtime, AuthRefresh, AsyncLRUCache, SyncBridge, Deploy, MapTasks, RunWatch, and
   the proofs of section 4.
2. Model: several informers on one queue, and a retry with the queue full; `submit_task_ref` as
   another kind of call of ParentReplay; the local controller with its cache; the 3.10 branch of
   the reader.
3. An abstract specification of single-flight computation, which the cache, the refresh and the
   image build each implement in a way of their own.
