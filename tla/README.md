# TLA+ models of the Sentry SDK for Python

The Sentry SDK runs inside somebody else's process. Its API is called from any
thread, from finalizers and signal handlers, in processes that fork, while the
interpreter is going down. What it captures travels through queues, buffers and
background threads before it leaves the process. The modules here model that
part: the concurrent path of an event from the call that captures it to the
request that sends it, with the locks, the unlocked reads and the races of the
code as it is, and the way of a trace through services that each have this SDK.
Paths below are relative to `src/sentry_sdk/`.

## 1. The system

| Component | State | Operations | Modelled by |
|---|---|---|---|
| Task queue, `_queue.py` | deque, `unfinished_tasks`, one RLock with three conditions | `put`, `get`, `task_done`, `join`, the `_nowait` forms | `TaskQueue` (abstract), `SentryQueue`, `SentryQueueProofs` |
| Background worker, `worker.py` | a queue, `_lock`, `_thread`, `_thread_for_pid` | `submit`, `start`, `kill`, `flush`, `_target` (the thread) | `BackgroundWorker`, `BackgroundWorkerProofs` |
| Asynchronous worker and transport, `worker.py`, `transport.py` | `asyncio.Queue`, consumer task, active tasks | the same, on an event loop | `AsyncWorker`; proofs in `BackgroundWorkerProofs` |
| Log and metrics batchers, `_batcher.py` | `_buffer`, `_running`, `_lock`, `_active`, `_flush_event`, `_flusher`, `_flusher_pid` | `add`, `flush`, `kill`, the flusher thread, the after-fork reset | `Batcher`, `BatcherProofs` |
| Span batcher, `_span_batcher.py` | buckets per trace, their sizes, `_pending_flush` | the same, bucket by bucket | `SpanBatcher`, `SpanBatcherProofs` |
| HTTP transport, `transport.py` | `_disabled_until`, `_discarded_events`, the worker | `capture_envelope`, `record_lost_event`, `flush`, sending, rate limits, client reports | `HttpTransport` (synchronous), `HttpTransportProofs` |
| Session flusher, `sessions.py` | pending sessions and aggregates, its thread | `add_session`, `flush`, `kill`, the thread | `SessionFlusher`, `SessionFlusherProofs` |
| Scopes and sessions, `scope.py`, `session.py` | isolation scopes, the sessions they share | fork, `start_session`, `end_session`, updates by events | `Scopes`; proofs in `SessionFlusherProofs` |
| Monitor, `monitor.py` | health, downsample factor, its thread | `run`, `downsample_factor`, `kill` | `Monitor`; proofs in `EventPipelineProofs` |
| Client, tracing, processors: `client.py`, `scope.py`, `tracing.py`, `integrations/dedupe.py` | items on their way, spans of transactions | `capture_*`, `finish`, callbacks, `close` | `EventPipeline`, `EventPipelineProofs` |
| Trace propagation: `tracing_utils.py`, `scope.py`, `tracing.py`, `traces.py` | propagation context, baggage, the sampling decision of a transaction or segment | `continue_trace`, `start_transaction`, `start_span`, the headers of outgoing requests | `TracePropagation`; proofs in `HttpTransportProofs` |
| Continuous profiler, `profiler/continuous_profiler.py` | flags, new and active profiles, buffer, thread | `auto_start`, `stop`, `manual_start`, `manual_stop`, the profiler thread | `ContinuousProfiler`, `ContinuousProfilerProofs` |
| Transaction profiler, feature flags, `_lru_cache.py`, child spans of `traces.py` | | | not modelled, section 6 |
| Serializer, scrubber, envelopes, spotlight, crons, AI, integrations, API | data, mostly | | not modelled, section 6 |

How they interact: an application thread's `capture_*` gives an envelope to
`HttpTransport.capture_envelope`, which submits a closure to the
`BackgroundWorker`; its thread takes closures from the `Queue` and runs them,
and a closure may submit another one (client reports). Logs and metrics go
through a `Batcher` first, whose flusher thread captures one envelope for many items.
`client.flush` calls the batchers' `flush`, then the transport's, which
waits on the queue's `unfinished_tasks`; `client.close` kills them all. Ended
sessions wait in the `SessionFlusher`, profile chunks in the profiler's buffer;
both become envelopes as well. The `Monitor` asks the transport for its health
and sampling asks the monitor for its factor.
Three things make this hard: calls from finalizers re-enter code that holds a
lock; `fork()` copies locks, queues and flags but no threads; and several
fields (`_thread`, `_flusher`, `_flusher_pid`, `_running`, the list of pending
sessions, the flags of the profiler) are read, or written, without a lock.

Processes interact, too: a request to another service carries the headers
`sentry-trace` and `baggage`, from which that service continues the trace. Nothing
guarantees that both arrive, or that all services are configured alike.

What makes each modelled component correct:

* queue: it is a bounded FIFO; nobody sleeps with something to do; `join`
  waits for everything that was put and for nothing else;
* worker: one thread, started on demand, in each process; what is accepted is
  run; `flush` drains or times out; no call blocks for ever;
* transport: an item is sent or counted as lost, once; nothing is sent past a
  rate limit; a loss that is counted reaches a report;
* batcher: every item has one fate; no add deadlocks on its own lock; one
  flusher; a buffer that is full is flushed; a child does not send its parent's items;
* span batcher: the same for spans, in envelopes of one trace and of bounded size;
  a bucket that reaches a limit wakes the flusher;
* session flusher: a session is sent once; what is pending does not stay pending;
* scopes: a session is ended once for each scope that has had it, with the
  errors and the crash it saw; a block leaves no session behind;
* monitor: one thread; the factor says how many checks in a row were bad, and
  goes back when the transport is well;
* asynchronous worker: a flush waits for what was captured before it; nothing
  that was taken is forgotten, killed or not;
* profiler: one sampler; a profile in progress is sampled; what was sampled is
  sent; what is stopped stops;
* pipeline: an item that is not sent is reported once, with its spans; it counts in
  its session if it got that far; duplicates are dropped only of what was let
  through;
* propagation: a trace is sampled as a whole, or not at all; one `sample_rand`
  decides; the headers say what was decided; a trace does not leave its organisation.

## 2. The modules

### TaskQueue and SentryQueue

`TaskQueue` is what the queue promises: a bounded sequence, the task each
consumer has in hand, the callers of `join`. `SentryQueue` is the code. Its
`items` and `unfinished` are `queue` and `unfinished_tasks`; `pc` says where a
thread is in `put`, `get`, `task_done` or `join`; a thread asleep in a
condition has a pc ending in `_wait`, so the three conditions' wait sets are
read off `pc`, and `Notified` moves any one sleeper on. `mutex` is set only
while a critical section spans steps. Most are one step, since nothing of the
queue's state is visible until the lock is released. Three call something
between a read and the write that depends on it, and there the RLock, which
the code uses so that a garbage collection may log inside the queue, lets a
nested `put_nowait` in: `Reenter`, at the points in `ReentrantAt`.
Timeouts are `Expire` (the deadline passes, at any time) and `WakeExpired`.

`Task` and `Joining` map `SentryQueue` to `TaskQueue`, and
`ImplementsTaskQueue` is the property checked by TLC and proved.

### BackgroundWorker

Uses the abstract queue's operations as single steps. `pc` of a caller walks
through `submit()` in the steps between which another thread can act: the two
reads of `_thread` in `is_alive` (`Submit`, `AliveCall`), `start()` under the
lock, and `put_nowait`. `kill()` is one step, under `_lock`. `flush()` takes
`_lock` and keeps it through two waits, each of which ends because the count
is 0 (`FlushDone`) or because time is up (`FlushTimeout`). The worker thread's
loop is `WorkerGet`, `WorkerRun`, `WorkerReport`; with `JobsSubmit` the job may
call `submit()` itself. `Fork` follows the child: other threads vanish, memory
stays, and the child's pid differs. It comes while `_lock` is free, or, with
`ForkAnywhere`, also while a flush holds it. `ShutDown` makes
`Thread.start` raise from then on.

`accepted`, `owned`, `awaited`, `stray`, `kills` and `flushes` are history
variables for the properties and bounds; no guard of the code's own conditions
reads them, except that each job is submitted once.

### Batcher

One step for each access of the unlocked fields, for each acquisition of
`_lock` and for each part of `add`, `_flush`, `_flush_loop` and `kill` between
them. `active` is the thread-local flag, and `Add` is an action of every thread at
every point of the batcher's code: if the thread's own flag is set, as it is in a
finalizer or a log record in the middle of `add`, `flush` or the flusher's loop,
the item is dropped without a report, which is the code's intention
(`_batcher.py:113-119`). `SpanBatcher` has the same. The buffer is a set, because the
order of logs inside an envelope is not at issue. `Poison` are the items on
which `_to_transport_format` raises (an attribute whose `str()` raises, for
instance); `CaptureMayFail` and `StartMayFail` let the transport's function and
`Thread.start` raise. `outcomes` records what became of each item, in order:
captured, reported lost, dropped silently, and so on. `Fork` is
`_reset_thread_state` in the child; `inherited` are the parent's items.
The wait of the flusher may end at any moment, by the event or by its timeout.

### HttpTransport

The synchronous transport above a worker that nobody kills. Application
threads `Capture` envelopes (into the queue, or dropped and counted),
`Discard` what was sampled out, and `Flush`. The worker's job goes through
`Prepare` (rate limits), `Attach` and `Build` (a pending client report for the
envelope at hand), `Serialize`, then `Respond` or `RequestFails`, and ends in
`FetchReport`, `Build`, `SubmitReport` (a report in an envelope of its own).

The counters in `_discarded_events` are modelled as sets of losses, so that a
lost or a doubled increment can be seen. `counts` is the dictionary in use and
`swapped` the one a report is being made of. `counter += n` is
`CountLoad`, `CountRead`, `CountWrite`, with `reg` for what the thread has
loaded and read, or the single step `Increment`; `AtomicCount` says which of
the two an instance admits, and each behaviour chooses one. CPython with the
GIL switches threads only at certain bytecodes, from 3.10 on none of which is
inside this statement; CPython before 3.10 and builds without the GIL can.

`disabled` holds the keys of `_disabled_until` whose time has not come;
`Expire` ends any limit at any moment, so durations, and a shorter limit that
replaces a longer one, are abstracted. So are the 30 and 60 second intervals
of the reports: a fetch that is not forced may or may not happen. Losses of
client reports themselves (category `internal`) are left out; `spilled` keeps
what was in them, for the properties.

### SpanBatcher

`Batcher`'s thread logic is inherited by the code and is one step here; what the
span batcher adds is modelled in full. `bucket` and `size` are the dictionary of
buckets and their byte estimates; `older` is the order of its keys, as the set of
the keys that come before each, because a flush that fails at a bucket has deleted
those before it; `pending` is `_pending_flush`; `event` the flush event. `Enough` is
the test that marks a bucket (a segment has ended, too many spans, too many bytes),
`Slices` the cut into envelopes, `FlushTo` the part of `_flush` under the lock with
the exception that a span which cannot be serialized raises in the middle of it:
buckets before it are gone, the envelopes built from them too ("vanished"), and the
marks of all have been cleared (`left`). `Tick` makes the periodic full flush due.

### SessionFlusher

The list `pending_sessions` has no lock. `append(session.to_json())` loads the
list before it calls `to_json`, and `flush` reads the list before it replaces
it, so each is two steps; `into` is what an append has loaded: the current list
or the one some flush has taken. Aggregated sessions are counted under
`_aggregate_lock`, in one step. `overlapped` are the sessions of the
appends that a flush came between, the only ones that may be lost or sent
twice. `inherited` are the parent's; `late` were appended when the thread had
been told to end; `failed` were in an envelope whose capture raised.

### Scopes

A fork of an isolation scope copies the reference to the session, so scopes of
different threads share one unlocked object. `holders` counts the scopes that
have ever held a session. Ending a session is `Take` (the scope lets go of it),
`Check` and `Exit` (`close`, which reads the status before it writes it) and
`Report`. An event's update is `Capture` (reads `errors`), `UpdateErrors`
(writes it) and `UpdateStatus`. `Enter`, `Spawn` and `After` are the tracked
block, the thread with a copied scope, and the rest of a call. `raced` are the
sessions in which two such sequences overlapped. Not modelled: the current
scope, `set_user` on a session, a session that is discarded because no release
is known.

### Monitor

`Read`, `Lock`, `Start` and `Assign` are `_ensure_running`, used by readers and
by the thread itself (`set_downsample_factor` reads the factor through the
property). A round is `Wake`, `CheckWorker`, one `CheckLimit` for each entry of
`_disabled_until`, `Set` and `Bump`. The transport below is reduced to what the
check reads: the queue being full, and the keys and times of the limits, which
change while the check iterates; an entry added meanwhile raises RuntimeError.

### AsyncWorker

`ready` is the event loop's list of callbacks, run one at a time in order; a
callback runs up to its next `await` in one step. Other threads, the network
and timers append to `ready`. A `start()` after a `kill()` makes a new queue
while consumer and tasks of the old one are still to find out that they were
cancelled: each start is a generation, with `queue[g]`, `unfinished[g]` and
`consumer[g]`, and `origin` is the queue an item was taken from. `Stop` is the
end of the loop. Of an envelope only its way is modelled: posted, queued, its
task created, sending, answered, finished, or dropped. What the model shows of
`kill()`: items left in the old queue are neither sent nor reported
(`Orphaned`); a cancelled task's item is not reported either; and an envelope
posted to the loop before `kill()` restarts the worker after it.

### ContinuousProfiler

The thread scheduler; the gevent scheduler has the same structure. Only the creation
of a thread is under the lock. The two flags, the profiles and the buffer are read
and written without it, by steps of `ensure_running` (`ResetSoft`, `Check`, `Lock`,
`Spawn`), of `teardown` (`TearDown`, `Join`) and of the thread (`Loop`, `Sample`,
`Assign`, `Test`, `Shut`, `End`). A buffer is named after the thread it was made
with; `unsent` are the buffers with samples. `teardown` tests `self.thread` and reads
it again to join it; both are steps, and if another teardown has cleared it between
them, the call raises. The ghosts name the windows that are open in the code: `missed`
(a profile that was appended after the sampler had found none, and whose
`ensure_running` still saw `running`: it is not sampled; or one that was started when
the interpreter could start no thread), `dropped`
(the deque was full), `overlap` and `replaced` (a manual start between a stop and
the end of its thread), `died`.

### EventPipeline

An item goes through the stages of its kind, each of which may drop it with a
report of its own, and a stage that runs the user's code may capture another
item, which is then on top of the thread's `stack`. (The code's recursion guard
`_should_capture` works on the scope merged for one capture, so it does not stop a
capture nested in a callback.) The spans of a transaction are counters: open,
finished, over the recorder's maximum, late. The recorder has no lock: the test of
its length, the append, and the two halves of `dropped_spans += 1` are steps of the
thread that starts a span (`adding`: `StartSpan`, then `AppendSpan`, or `ReadDropped`
and `WriteDropped`). `over` is what the counter should be, `dropped` what it is, and
`raced` says whether two threads were counting at once. The reads of the recorder in
`Transaction.finish` (`tracing.py:1055-1073`: the spans, their number, the counter)
are one step, which leaves out other threads' steps between them. Such a step changes
one of the three, and counts as done before if that is read after it, as late
otherwise. `lost` is what `record_lost_event` was told. `transport` is true until
`close`; it is tested and then read again (`Test`, `CaptureEnvelope`). What the model
shows and the properties except: an unsampled transaction is not marked as finished, so a
second `finish()` reports it again; if an event processor drops a transaction,
only its finished spans are reported, not those open or over the maximum; nor
are those over the maximum of a transaction with an ignored status; a dropped
check-in is reported in category `error`; and an event that is captured by a
`__repr__` while another is being serialized is ignored without a report
(`scope.py:1487`), which is an option the model leaves to every error, check-in and
transaction, the latter with all its spans.

### TracePropagation

A request goes through `Services` services, one after the other. `arrived` are the
headers of the request on its way; `context` is the propagation context that
`continue_trace` makes of them, and `span` the transaction, which exists from then
on, or the segment, which does not. A service with headers `Continue`s the trace,
and makes up a `sample_rand` if the baggage has none (`FillSampleRand`), or else
begins a `NewTrace`. Then it starts a transaction (`StartTransaction`, with or
without a decision of the application's) or, if it streams spans, a segment
(`StartSegment`, `IgnoreSegment`), and calls the next service from within the span
(`CallInside`) or from elsewhere (`CallOutside`). `Early` is anything that asks the
propagation context for its baggage before that, such as an error event.
`LoseBaggage` and `LoseRand` are what happens on the way.

A baggage has the four items that the code reads or changes (`sample_rand`,
`sample_rate`, `sampled`, `org_id`) and `mutable`. `draws` makes
`_generate_sample_rand` the function of trace and interval that its seed makes it.
Rates are multiples of 1 / `One` and a `sample_rand` is a multiple of 1 /
(`One` / `Unit`), since it has six digits and a rate may have more. Backpressure
divides a rate by `divisor`, a power of two in the code.

`decided`, `orgs` and `first` record what was decided and who took part; `apart` has
the reasons why services may rightly decide differently (a sampler, a decision of
the application's, `ignore_spans`, backpressure, a service that does not trace, a
call outside the span), and `damage` what happened to the headers: lost on the way,
asked for too `early`, with a `stale` or too `fine` a rate, or with the rate
`untold`. The properties are about traces without the damage that each of them
names.

`PROJECT.json` maps every definition to its lines.

### The modules without state of their own

`Requests`, `ScopesProperties`, `AsyncWorkerProperties` and `MonitorProperties` each
make an instance of a module with parameters and variables under names that clash
with no other component's, assume of the parameters what that module calls its
`Constants`, and name its properties. The MC modules extend them, for TLC to check
these properties, and so do the proof modules of another component, for theorems to
state the same properties: so one proof module can be about two components. The
names that differ (`Readers` for the `Threads` of `Monitor`, `at` for the `pc` of
`Scopes`, and so on) are in the `INSTANCE` of each. The other MC modules extend the
component's module itself.

### Seeded bugs

Definitions commented "seeded bug" are not part of any specification. Each is
a variant of the action next to it with a plausible mistake. Several actions
are instances of a parameterised one (`Start` of `StartUnless`, `Fork` of
`ForkWith`) so that the variant is an instance too: another test, another
value (a missing
notify, a dropped recheck, a lock not released). Putting it in place of the
action makes TLC find a violation. `PROJECT.json` names one for each
property that a run checks; that is how each is known to be able to fail. The
others do the same for the parts of properties that are conjunctions.

## 3. The runs

| Run | Instance | Shows |
|---|---|---|
| `queue` | 3 threads that all produce, consume and join, 2 items, maxsize 2, no reentrancy | exact count, bound, no lost wake-ups, refinement of `TaskQueue` (which includes `join`'s contract) |
| `queue_reentrant` | 3 threads, 1 item, maxsize 2, finalizers at all three points | the count errs only downwards, the bound by one at most |
| `worker` | 2 clients, 4 worker threads, 2 jobs that submit jobs, queue of 2, 1 kill, 1 flush, 1 fork, shutdown, fair threads | exact count, a consumer for everything owned, at most one thread per kill, flush drains, owned jobs run, calls return, also in a child |
| `batcher` | 2 threads, 3 flushers, 2 items of which one cannot be serialized, thresholds of 1, 1 fork, failing capture and failing start, fair threads | one fate per item, no self-deadlock, one flusher, a full buffer wakes it, no delivery of the parent's items, calls return, the buffer drains |
| `requests` | `HttpTransport`: 2 application threads and the worker, an envelope with a transaction and an attachment, a discarded span, queue of 1, 1 flush, increments in one step or in three, failing serialization, every kind of answer. `TracePropagation`: 3 services, 8 configurations, 2 organisations | one fate per item, no loss reported twice or forgotten, limits respected, a flush that drains leaves nothing to report; one `sample_rand` and one decision for a trace, headers that agree with it, organisations apart |
| `span_batcher` | 1 thread and the flusher, 2 traces, 4 spans, 2 segments, one span that cannot be serialized, 2 spans to a bucket, 1 to an envelope, 1 fork, failing capture | spans conserved, envelopes and sizes exact, a full bucket is flushed, everything leaves the buffer |
| `session_flusher` | 2 threads, 2 flushers, 2 sessions and 1 "request" session, 1 item to an envelope, 1 fork, failing capture and start | no session is lost or sent twice outside of the race on the list, one thread, the list drains |
| `scopes` | 2 threads, 3 scopes, 2 sessions, 2 events | a session is given up once for each of its scopes, reports are true, errors and sessions are not left behind |
| `monitor` | 2 threads, 3 monitor threads, 2 categories, factor up to 2, 1 fork, failing start | the factor counts unhealthy checks, one thread, readers return, sampling recovers |
| `async_worker` | 4 items (envelopes and requests for reports), 2 generations, queue of 2, 1 flush, 1 kill | counts of every generation, one consumer, tasks referenced, flush drains, items settle |
| `continuous_profiler` | 2 threads, 2 profiler threads, 2 profiles, room for 1 new profile, both lifecycles, 1 fork | one sampler, no profile abandoned, samples sent, the profiler ends, stops return |
| `events` | 2 threads, 2 items of every kind, 2 exceptions, each of which may be captured again, 1 transaction with up to 4 spans and room for 1, callbacks nested once, a close | items reported once, spans accounted for although threads race for the recorder, session counts, duplicates |

Several of the invariants named are conjunctions of parts that the modules state
one by one (`FlusherAttends`, `WorkTracked`, `NothingStalls` and so on).
`requests` runs two modules that share no state: a behaviour is one of either
(`Requests`).

### Bounds

Two threads are what a race in this code takes (two racing calls and the background
thread); the queue, whose `notify` chooses among sleepers, gets a third. The
thresholds are 1 or 2 instead of 100 to 10000: every branch on them is on both of
its sides within two items. `MaxKills`, `MaxFlushes` and `MaxForks` bound calls, not
the depth of what follows them. `Workers` and `Flushers` are as many threads as
those bounds can ever start (see the MC modules), so no start is refused for want of
one. Worker and flusher threads are numbered and taken in order, which loses
nothing: a fresh thread is like any other. The transport's headers limit nothing,
transactions or everything: a limit that hits a part of the envelope and one that
hits reports too. Its queue of 1 makes one flush enough to overflow it. Symmetry is
used in runs without liveness only. No run checks for deadlock: when the application
makes no more calls, and calls are bounded, the system rightly stops; that a call
returns is stated as `CallsReturn` instead.

In the new modules: `SpanBatcher` gets one application thread, because the races of
two were checked with `Batcher` and everything else is under the lock; its four
spans give one bucket of up to three (one more than fits) and one that cannot be
serialized. `Scopes` needs three scopes for two threads that share a session and a
block that shares it too. `Generations` are one more than the kills, `Monitors` as
many threads as one fork and one failing round can start. `Profilers` are two, fewer
than manual starts could ask for; a third start would wait, but two are what an
overlap takes. `MaxFactor` is 2 instead of 10, `MaxSpans` and `MaxItems` 1 instead
of 1000 and 100; `MaxNew` 1 instead of 128 makes the second profile push out the
first. The depth of nested captures is 2: a third level repeats what the second does
to the state. In `EventPipeline` two items meet in a callback, in a context's last seen
exception and around `close`; the theorems are about any number. Four spans are one
for the recorder to hold, or the two that both threads append to it, and two that both
count as dropped.

`TracePropagation`: three services, so that one can be between two that
decide. `One` is 8 and `Unit` 4: there are two values of a `sample_rand`; the rates
0, 4 and 8 lie on their grid, and 2, which is what backpressure leaves of 4, is finer.
The configurations are one or two of each kind that the code distinguishes
(`MCConfigs`), each service having any of them: with a rate, streamed and not, with
and without backpressure; a sampler under backpressure; a sampler that fails; no
tracing, and so no rate; no organisation; another one, strictly.

### Fairness

`BackgroundWorker`: weak fairness for each step of a thread inside the SDK and for
the timeout of a flush; the operating system schedules runnable threads, and
deadlines pass. No fairness for calls, kills, flushes or forks. `Batcher`: strong
fairness for the steps of `add` and `_flush`, because a thread waiting for `_lock`
can find it taken again and again; the lock is held for a moment only, and a thread
that keeps asking gets it. Weak fairness for the flusher's loop: its wait has a
timeout. `SpanBatcher` and `SessionFlusher`: weak fairness for every thread's own
steps and for the passing of time. `Monitor`: strong fairness for `_ensure_running`,
whose lock others may hold, weak for the rounds of the thread. `AsyncWorker`: weak
fairness for the event loop, which runs what is ready as long as it runs, and for
answers, since requests have timeouts; none for captures, flushes, `kill` or the end
of the loop. `ContinuousProfiler`: strong fairness for the steps of a start or stop,
weak for the thread, and strong for a good sample: the sampler may fail on a frame
that changes under it, but not every time. `Scopes`, `HttpTransport`,
`EventPipeline`, `TracePropagation` and `SentryQueue` are checked for safety only.

## 4. Divergences

Where the code does not do what its documentation says or a reader expects, the
properties name the exception, so that the runs show that there is no other.
The exceptions, with a way to see each:

* `task_done()` computes the new count, calls `notify_all()`, then stores the
  count (`_queue.py:138-146`). A `put_nowait` from a finalizer in between, which
  the RLock exists to admit, is forgotten by the count; `join` and `flush` return
  early, and the `task_done()` of that item raises ValueError, which ends the
  worker thread. `MCSentryQueueJoin.cfg` (with `MCSentryQueue`) violates
  `JoinContract`. The same shape exists in `put()` (`OvershootByOne`) and in
  `get()`, where a nested put between the test for an item and the registration
  as a waiter wakes nobody: with `ReentrantAt = {"get_sleep"}`, `GetterWakes` fails.
* `BackgroundWorker._lock` is not reset in a forked child, unlike the locks of
  the batcher and the monitor. `MCBackgroundWorkerForkLocked.cfg` (with
  `MCBackgroundWorker`) forks while a flush holds it: the child's first
  `submit()` never returns (`CallsReturn`).
* `is_alive` reads `_thread` twice (`worker.py:63`); `kill()` in between makes
  `submit()` raise AttributeError. `SubmitNeverRaises` is false in the instance
  of `worker`.
* A log that cannot be serialized makes each flush of the whole buffer fail:
  the flusher survives it, what shares the buffer with it does not. This
  is the last disjunct of `BufferDrains`; `SpansDrain` has the same.
* A thread in the middle of `_discarded_events[...] += 1` while the worker swaps
  the dictionary writes into the old one, where increments are not
  atomic: no report will contain it. `MCHttpTransportRace.cfg` (with
  `MCHttpTransport`) violates `LossesCounted`; `CountsConserved` shows that
  one-step increments suffice.
* A rate limit added for a new category while the monitor iterates over the
  limits (`transport.py:474`) ends the monitor thread for good, and sampling
  keeps the factor it had. `MCMonitorDies.cfg` (with `MCMonitor`) violates
  `ChecksGoOn`.
* A session appended while a flush takes the list may be lost, or sent by two
  flushes (`sessions.py:158-164, 252-254`): `overlapped` in `SessionFlusher`.
* A profile appended while the sampler's soft shutdown is under way is not
  sampled, and a start that comes between a manual stop and the end of the thread
  gives two samplers for a while: `missed` and `overlap` in `ContinuousProfiler`.
* An event without exceptions writes back the number of errors it read, and may
  undo another thread's: `stale` in `Scopes`.
* An `add()` from inside the batcher is dropped without a report while the batcher
  runs. This is by design; what the property says is that nothing else is taken for
  it: `IgnoredOnlyIfNested`, a part of `OutcomesDeserved`.
* "Limits the number of spans recorded in a transaction" (`tracing.py:203`): the test
  of the length and the append are not one step, so that each other thread can add
  one more when the recorder is full: `RecorderLimits` has `< MaxSpans +
  Cardinality(Threads)`, and is violated in `events` with `<= MaxSpans`. Where two
  threads execute `dropped_spans += 1` (`tracing.py:220`) at once, an increment may
  be lost, and that span is neither sent nor reported: `raced` in `SpansCounted`,
  which says that the count is exact otherwise, and that a race never loses all. The
  two are the parts of `SpansAccounted`.
* `_generate_sample_rand` promises a value in `[lower, upper)`
  (`tracing_utils.py:1272-1277`) but rounds the lower bound down to six digits. For
  an unsampled trace with a rate finer than that, the `sample_rand` may be below the
  rate, and says "sampled": `fine` in `TracePropagation`.
* "If we had to adjust the sample rate [...] it needs to be updated in the
  propagation context too" (`scope.py:1421`), but the rate stays what it was if a
  sampler fails, if `ignore_spans` names the segment, or if backpressure lowers the
  rate of a decision that is followed: the headers then carry that decision with
  another's rate, and a later service that has to make up the `sample_rand` takes it
  from the wrong range: `stale`. Nor is a rate added to headers that came without
  one (`scope.py:1426` tests for it) when a segment continues them: should the
  `sample_rand` get lost after that, the next service has nothing to make up one
  from that explains the decision: `untold`.
* If the baggage is asked for before the first segment of a streamed trace
  (`tracing_utils.py:644`), it is fixed without `sample_rand` and `sampled`: each
  service that gets it draws its own: `early`. (A transaction is not
  affected: it makes a baggage of its own.)
* A request made outside of a span, or by a service that does not trace, has no
  `sampled` in its `sentry-trace` (`tracing_utils.py:639`), even if the trace came
  with a decision: the services after it decide anew: `off`, `outside` in `apart`.
  With the same `sample_rand` and rate they decide the same.

To see the last four with `requests`: leave `"fine"` or `"stale"` out of the
condition of `HeadersTrue`, allow `"untold"` in that of `InARow`, `"early"` out of
that of `OneRand`, or let `apart` have `"off"` or `"outside"` in `WholeOrNothing`.

## 5. The proofs

`SentryQueueProofs` proves about `SentryQueue`, for any finite set of threads,
any items and any `maxsize`:

* `TypeCorrect`: `Spec => []TypeOK`, whatever `ReentrantAt` is;
* `CountIsExact`: `Spec => []CountExact`, unless a finalizer puts inside
  `task_done()`;
* `SizeIsBounded`: `Spec => []Bounded`, unless one puts inside `put()`;
* `ImplementsAbstractQueue`: `Spec => ImplementsTaskQueue`, if finalizers put
  nowhere but in `get()`;
* `NoSleeperForgotten`: `Spec => []NoLostWakeup`, unless one puts inside `get()`;
  `PutAndJoinAreWoken`: the parts of it about `put` and `join` hold even then;
* `OffByOne`: `Spec => []OffByOneAtMost`, whatever `ReentrantAt` is.

The conditions are what `JoinContract` (section 4) and `queue_reentrant` show to be
needed, and a nested put in `get()` wakes nobody (section 4, too). None of the
invariants is inductive alone. The strengthening `IInv` adds that a thread inside a
critical section holds the mutex (so two threads are never in one), that a thread in
`put_commit` has seen room that is still there, that a thread in `done_store` has
seen a count of 1 that still is 1, and that whoever puts or works has an item in
hand. `StepIInv` has one case for each action; `NotifiedMoves` and the `Fetched`
lemmas say once what a notify and a move do to the sets that the invariants count.
The refinement maps put's append, get's fetch, and task_done's and join's last steps
to the abstract actions, the rest to stuttering; a `task_done()` that raises is
excluded by `CountIsExact`.

`WakeInv` is about cardinalities: while anybody sleeps in `get()`, the queued items
are at most as many as the threads that are about to look for one, and in `put()`
likewise. It is preserved because each `notify` moves a sleeper whenever an item or
a slot appears, because a sleeper whose deadline passes looks once more, and because
a thread goes to sleep only where the test says that it may. For `join`, `JoinInv`
says that nobody sleeps there once `notify_all` has been called, though the count is
stored after it. `OverInv` says how far a nested call can have driven the count and
the length while some thread is in the middle of its own.

`BackgroundWorkerProofs` proves about `BackgroundWorker`, for any clients,
numbered worker threads, jobs, queue size and bounds:

* `TypeCorrect`: the count never goes below zero, kills, forks and failing
  starts included;
* `CountsWork`: `Spec => []CountOfWork`;
* `StartsOneWorker`: `Spec => []OneWorkerPerKill`;
* `KeepsConsumer`: `Spec => []ConsumerRemains`, in a process that has not forked
  (in a child it fails: a terminator in the inherited queue has no thread);
* `FlushesAll`: `Spec => FlushDrains`, in forked children too.

`IInv` adds to these three things. `JobInv` says where a job is in hand.
`ThreadInv` says that no live thread is `_thread` of another process, and that
the living threads beyond `_thread` were paid for by kills; the mere bound on
them is not inductive, since a start adds a thread without a kill. `DrainInv`
is what makes flushing right where the count is not exact. A fork that leaves
a busy thread behind leaves its count behind too, so that `CountOfWork` fails
in the child; but then the count stays above what is pending for good and no
flush ends by it. Hence: either the count exceeds what is pending, or every
accepted job is finished, queued or being run. The terminators are counted as
positions of the queue, so `Appended` and `Removed` say once what an append and
a `Tail` do to them.

The second part of it proves about an instance `A` of `AsyncWorker`, for any items,
generations, queue size, and numbers of flushes and of calls of `kill()`:

* `WorkIsTracked`: `A!Spec => []WorkTracked`;
* `FlushesDrain`: `A!Spec => A!FlushDrains`, a property of steps and one half of
  `FlushAwaitsAll`.

`ReadyInv` ties the loop's list of callbacks to the states of those who wait for
one: each callback is there once, and exactly if somebody is in a state to be
called. Without it a completion could run twice, and count down twice. `QueueInv`
and `ItemInv` say where an item is: posted, in the queue of one generation, or taken
from one and referenced or cancelled. `GenerationInv` says that the generations
before the current one have been cancelled and those after it have not begun, which
makes the consumer unique. `CountsInv` is the count of each generation. `FlushInv`
is the argument for flushing: when `flush()` posts its callback, every item given
before is settled, in the queue of the generation that it will join, taken from
that, or posted *ahead* of it; the loop being first in, first out, the last kind are
queued by the time the flush runs. From then on no item slips back (`Onward`) or in
between (`Orderly`), and a generation that counts nothing has settled all that it
was given.

`BatcherProofs` proves about `Batcher`, for any threads, flushers, finite set of
items and thresholds, with nested calls (which find the flag set and are dropped),
failures, kills and a fork:

* `TypeCorrect`, with the bound on the buffer;
* `ConservesItems`: `Spec => []Conservation`;
* `NeverSelfDeadlocks`: `Spec => []NoSelfDeadlock`;
* `HasOneFlusher`: `Spec => []OneFlusher`;
* `WakesWhenFull`: `Spec => []FullBufferWakes`;
* `RaisesAfterKill`: `Spec => []RaisesOnlyIfKilled`;
* `NeverDeliversTwice`, `IgnoresOnlyAtStart` and `IgnoresOnlyIfNested`, which are
  about steps: an item that has passed the test of the flag vanishes without a report
  only at the start, and the test itself turns back nested calls only.

Here `IInv` has a part for each mechanism. `LockInv` ties `_lock` to the places
where a thread holds it, and `FlagInv` says that the thread-local flag is set at
all of them, and is not where a thread is outside: that is why a nested `add()`
turns back before the lock, and why no other does.
`FlusherInv` is the double check of `_ensure_thread` with its unlocked first
read: `_flusher_pid` is this process's only if a flusher runs, a thread is
about to create one, or `kill()` was called; never two of the first kind.
`HolderInv` and `FateInv` follow an item from the thread that adds it to the
buffer, to the batch of a flush, to its outcome, and keep the parent's items
apart from the child's.

`SpanBatcherProofs` proves about `SpanBatcher`, for any traces, finite set of spans,
limits and forks:

* `SpansAreConserved`: `Spec => []SpansConserved`;
* `FullBucketsAreSeen`: `Spec => []FullBucketWakes`;
* `WhatIsMeasuredFits`: `Spec => []SizesFit`, with `EnvelopesAreFit` for the part
  about envelopes.

`BucketInv` says that a bucket has spans of its own trace, each once, and that no
span is in two. `FateInv` gives each span exactly one of four states: in a bucket,
in the hands of the thread that adds it, packed in an envelope, or with its outcome.
`OnceInv` keeps the envelopes of all threads apart. The step that carries the proof
is the flush: `SlicesPartition` shows that the slices of a bucket partition it
(every index is in exactly one multiple of the envelope's size, by `Division`,
`OneMultiple` and `SomeMultiple`), so no span is packed twice or left out, also when
a later bucket raises.

That a bucket's size is the sum of its spans' sizes is about a recursive function,
`Bytes`. The invariant `Summed` says that *some* function has the partial sums of
the bucket and ends with its size, so an append extends that function
(`OneMoreSummed`), and no induction is needed to preserve it. `OneSum` shows that
two such functions are the same, since there is no smallest place at which they
differ, and `BytesIs` that what `Bytes` computes is therefore what the invariant's
function ends with.

`EventPipelineProofs` proves about `EventPipeline`, for any threads, items,
exceptions and kinds, number of spans, maximum of the recorder, and depth of nested
captures:

* `EveryItemAccounted`: `Spec => []ItemsAccounted`;
* `EverySpanCounted`: `Spec => []SpansCounted`, with racing increments, and
  `RecorderHasLimit`: `Spec => []RecorderLimits`: together `EverySpanAccounted`;
* `DuplicatesAreSeen`: `Spec => Duplicates`, a property of steps.

`StackInv` says that an item is on one stack at most, at one place, and exactly
while it is under way. Then `IInv` follows each item by its stage (`ItemInv`): which
stages its kind can reach (`KindInv`), what has been reported of it by then
(`LostInv`), whether its session has counted it (`SessionInv`), and what its span
counters add up to (`SpanInv`, where the counter `dropped` and what it should be,
`over`, are kept apart). `RecorderInv` is about the recorder alone: the counter never
exceeds what was over the maximum, since what a thread is about to write is at most
one more than that; it is exact, and one thread at most is writing, as long as no two
were; and the threads that have passed the test of the length count as if they had
appended, which gives the limit. A step moves one item, the top of one stack, or
captures another, so that the proof of a step is about that item, whatever the
nesting. `SeenInv` is for `Duplicates`: what a thread's `lastSeen` holds, some other
item has passed with.

The second part of `EventPipelineProofs` proves about an instance `M` of `Monitor`,
whose factor the sampling decision reads, for any threads, monitor threads, finite
set of categories, maximum and forks:

* `FactorIsRight`: `M!Spec => []FactorRight`.

`LockInv` ties `_thread_lock` to the places where it is held; a monitor thread,
which asks for it too, never holds it, since it finds itself running. `ThreadInv`
says who can be at work: the thread that `_thread` remembers for this process or,
while the thread that has started it has yet to remember it, the newest. `FactorInv`
gives the factor at each point of a round.

`HttpTransportProofs` proves about `HttpTransport`, for any application threads, finite
sets of items and categories, queue size and answers of the server:

* `LossesCountedOnce`: `Spec => []CountedOnce`;
* `EveryItemHasOneFate`: `Spec => []OneRightFate`;
* `FlushReportsAll`: `Spec => FlushReports`, a property of steps.

`LossInv` says of each loss by which thread it is yet to be counted, or where it has
been, and that a thread in the middle of an increment holds one that nobody else
does. What it writes back is what it has read, and others may have written
meanwhile: a loss can so disappear, but not return, which is why `ReportedOnce`
holds for increments of three steps, too. `DictInv` and `RepInv` follow the two
dictionaries and the reports made of them; `LimitInv` that what has passed the check
meets no limit up to its request. `FlushInv` says where what was counted before a
flush can still be, once its job is in the queue; that the queue has drained leaves
the reports and what they told.

The second part of it proves about an instance `T` of `TracePropagation`, for any
number of services, any configurations and organisations, any rates and
`sample_rand`s (any `One` that is a multiple of `Unit`):

* `TracesAreWhole`: `T!Spec => []TraceWhole`;
* `HeadersAreTrue`: `T!Spec => []HeadersTrue`.

The specification that the run checks, `Both`, implies `T!Spec` (`TracesOf`). None
of the parts is inductive alone, since decisions are compared that were taken
services apart: `TraceInv` says for each what of the earlier decision travels with
the headers, the propagation context and the span. `DrawsInv`: what the generator
has returned lies in the interval that was asked for, and is the same when asked
again. `RandInv`: unless damaged, every `sample_rand` on the way is what the whole
interval gave. `OrgInv` and `WholeInv` do the same for the organisation and the
decision. `TrueInv`: the rate and the `sample_rand` in a baggage explain the
decision in the headers. `LastInv` is for `Nested` after a `sample_rand` was lost:
it says what the *last* decision has left for the next service, its rate beside its
decision, from which `FillSampleRand` draws from the one side of the rate that
explains it. This part was false as first stated, and the proof showed where: a
segment which continues headers without a rate does not add its own (`untold`,
section 4). `Remainders`, `Multiples`, `FreshBelow` and `FreshAbove` are the
arithmetic of `Unit`: a draw below a rate is less than it, and one above it is not
unless the rate is finer than a `sample_rand`.

`SessionFlusherProofs` proves about `SessionFlusher`, for any threads, flusher threads,
sessions, size of an envelope and number of forks:

* `SessionsAreSent`: `Spec => []SessionsSent`;
* `OneThreadFlushes`: `Spec => []FlushesFit`.

`SInv` has four parts beside the types. `ThreadInv`: a flusher thread that works is
the one `_thread` remembers for this process, or, while the lock is held, the
newest. `ListInv` is the discipline of the unlocked list: whoever has read
`pending_sessions` and been overtaken by another flush holds a list which exactly
the flushes that read it own, and a session that is about to be appended to such a
list is already `overlapped`. `FateInv` says that any other session of the process
is at one place, once: with the thread that adds it, waiting, taken by a flush, in
its envelope, or captured. Without the exception for `overlapped` it is false: two
flushes that swap the same list send its sessions twice (section 4). `OwnSessions`
says once what one step of a flush may do to a session; `SizeInv` bounds every
envelope.

The second part of it proves about an instance `S` of `Scopes`, where the sessions
come from, for any threads, scopes, sessions and number of events:

* `SessionsAreHeld`: `S!Spec => []SessionsHeld`;
* `ReportsAreTrue`: `S!Spec => []ReportsTrue`;
* `NothingIsForgotten`: `S!Spec => NothingForgotten`, a property of steps.

`ApartInv` says that the scopes a thread runs in or will restore are no other
thread's: they share sessions, but not scopes, so that what `TakenInv` says, that
the session has been taken off the scope while it is being ended, is not undone by
somebody else. `CountInv` adds what is being ended to the two places of
`SessionsHeld`. `SoloInv` and `WhatInv` are about sessions without races: the one
thread that works on such a session has seen all errors of it, so that its write
counts them all. `TrueInv` is what is left with races: an update writes no more
errors than happened, because what it read was no more. It needs no assumption about
which update wins.

`ContinuousProfilerProofs` proves about `ContinuousProfiler`, for any threads,
profiler threads, profiles and forks:

* `ProfilesAreSampled`: `Spec => []OneSamples`;
* `SamplesAreSent`: `Spec => []SamplesSent`.

`LockInv` says that the lock is held between the creation of a thread and its start;
`ProfileInv` where a profile is between its start and its stop; `ManualInv` and
`TraceInv` which thread works, by the lifecycle: in trace mode exactly as long as
"running" is set in this process, with manual calls one, up to the end of the one
before, unless a start has overlapped. `ShutInv` says that a thread which is about
to end by itself has found no profiles, and that those which came since are
`missed`; `SentInv` that a buffer with samples is the current one, or `replaced`, or
that its thread died. `NoneAbandoned` is inductive with these.

The assumptions of all of them are the named `ASSUME`s of the modules:
positive sizes and thresholds, special values (`None`, the terminator) that
are not items or threads, finite sets of items, categories and numbered threads.

Some of the theorems put others together, as the runs' properties do:
`HasEnoughWorkers`, `AddIsHarmless`, `FlusherIsThere`, `OutcomesAreDeserved`.

Every invariant that a run checks is stated by a theorem. Model-checked only is
liveness: `OwnedRuns`, `CallsReturn`, `NothingStalls`, `SpansDrain`, `Drains`,
`StandsAside`, `StopsWork`, and `Settles` in `FlushAwaitsAll`. Leads-to under
fairness needs `ENABLED`, which the provers cannot reason about.

## 6. Plan and what is not modelled

Next, in this order:

1. `ClientLifecycle`: the order in which `flush` and `close` treat batchers,
   session flusher, monitor, transport and worker. Each component's `kill` is
   modelled where it belongs; that they compose is not shown.
2. The transaction profiler, which shares the scheduler's structure, and the
   child spans of `traces.py`.

Not modelled, and why. Event data (serialization, scrubbing, formatting, data
collection), envelopes and attachments are functions without state of their own;
what they do on failure is in the models (`Poison`, `SendMayFail`). The integrations
patch libraries and behave as those do. Spotlight posts each envelope in the calling
thread and keeps one failure counter. Cron check-ins pass through `EventPipeline`;
the decorator that makes them has no state. The LRU cache and the feature flags are
a dictionary under a lock. How headers are parsed and formatted,
`trace_propagation_targets`, propagation by OpenTelemetry and the deprecated
`continue_from_headers` are left out of `TracePropagation`. The HTTP library, and
timing other than "may have passed", are external.
