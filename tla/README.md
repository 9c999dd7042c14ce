# QueueCraft in TLA+

This directory models the runtime core of QueueCraft: the execution leases in
DynamoDB, the SQS poller with its heartbeats and its shutdown, the Lambda
processor, the semaphore that gives jobs their slots, the buffer of the metrics
writer, the wrappers and spans that trace a job, and the dashboard's replay of
dead letters. Paths such as `src/src/poller.ts` name the source the
definitions are translated from; `PROJECT.json` gives the lines of every
definition.

## 1. The system

QueueCraft is a TypeScript library for background jobs on AWS. A publisher
sends a message with an idempotency key to an SQS queue. Worker processes poll
the queue; for each message a worker acquires a lease on the key in a DynamoDB
table, runs the application's handler while a heartbeat renews the lease and
the message's visibility, records the job as completed, and deletes the
message. SQS delivers at least once, workers crash, and handlers outlive their
leases; the promise is that a job that was recorded as completed is not run
again while its record is retained (`recordTtlSeconds`), and that two workers do
not run one job at a time while leases hold.

### Components

| Component | State | Operations | Correct when |
| --- | --- | --- | --- |
| `IdempotencyStore` (`idempotency.ts`) | the DynamoDB table: state, `ownerId`, `leaseUntil`, `expiresAt` per key; each caller's clock | `acquireLock`, `renewLease`, `markComplete`, `markFailed`, `releaseLock` | one entitled owner per job; an entitled owner can settle; terminal records stay until their retention is over; `acquireLock` answers |
| Poller jobs (`poller.ts`, `process` and below) | the life of each `process()` call, its handler, its heartbeat, `activeExecutions` | acquire, run, heartbeat, settle, acknowledge; abort by shutdown | nothing is acknowledged that is not recorded; nothing is recorded that was not done; nothing is settled in doubt; slots and messages are not lost |
| Poll loop (`poller.ts`, `start`, `stop`, drain) | `running`, `activeReceive`, `shutdownPromise`, `inflight` | `start`, receive, dispatch, `stop`, `performBoundedDrain` | no message is received without a slot; a stopped poller is quiet; shutdown ends |
| `Semaphore` (`semaphore.ts`) | `active`, `waiters` | `acquire`, `release`, `run` | exact count, order of arrival, nobody waits beside a free permit |
| `QueueCraftLambdaProcessor` (`lambda-processor.ts`) | the records of one batch | `process` | a record is reported as done only if it was recorded as completed |
| `QueueCraftCloudWatchMetrics` | buffer, timer, flush under way, dropped count | `onEvent`, `flush`, `close` | bounded, in order, every point sent, pending or counted as dropped |
| `DashboardReplayCoordinator` (`dashboard.ts`) | cache of listed messages, replays under way | `prune`, `remember`, `replay` | nothing is deleted unsent; nothing is sent twice without a reason; the queue can be emptied |
| Tracing (`tracing.ts`) | the observer's map from keys to open spans; a handler's span | `onEvent`, `close`; `QueueCraftActiveTracing.run` | a span ends once, with its own attempt's event, and is not left open; the handler's span agrees with the event |
| Instrumentation and trace-context wrappers (`instrumentation.ts`, `trace-context.ts`) | `operationCalls`, the promises of operation and wrapper | `runInstrumentedJob`, `runWithQueueCraftTraceContext` | the handler runs once, its outcome is the answer, and the answer comes although a wrapper hangs |
| Publisher | none | `publish` | |
| Dashboard server, templates, scripts, examples, `dist` | none that matters here | | |

They interact as follows. The loop asks the semaphore how many slots are free,
receives that many messages at most and starts a job for each; a job owns its
slot from before `acquireLock` to the end of `process()`. Jobs of all workers
and of Lambda meet in the DynamoDB table only, and in the queue. `stop()` acts
on the loop by `running` and on jobs by aborting, after a grace period, those
in `activeExecutions`. Jobs report events to callbacks, which is how metrics
and the tracing observer are fed; the handler is called inside the trace
propagation and, inside that, the instrumentation, neither of which QueueCraft
controls. The dashboard shares nothing with the workers but the queues.

### What is hard

* Leases are timestamps, written by one clock and judged by another, in whole
  seconds, by requests that may be delayed, resent and applied after their
  caller has seen an error.
* Between two awaits anything may happen: a redelivery, a takeover, a
  heartbeat failure, a shutdown, a crash, the end of a record's retention.
* Settlement has several steps (record, then delete), each of which can fail
  with or without effect.
* `stop()` can come at any point of a receive, and the drain has two deadlines
  and shared callers.
* A wrapper is foreign code around the handler: it may call it never, late or
  again, throw, reject or hang.
* A dead letter stays visible while it is listed and replayed, its receipt
  handle is renewed by every listing, and the memory of a send that was not
  followed by a delete is a cache entry with a lifetime.

`PROJECT.json` lists these hazards at their lines with the properties that
guard against them.

## 2. Modules

| Module | Models |
| --- | --- |
| `LeaseLedger` | abstract: what the table promises about one key |
| `IdempotencyStore` | `idempotency.ts` with clocks, delays, lost replies and TTL |
| `IdempotencyStoreProofs` | the theorems about it |
| `PollerJobs` | `process()` of several workers on one queue and table |
| `PollerJobsProofs` | the theorems about it |
| `Semaphore` | `semaphore.ts` |
| `SemaphoreProofs` | the theorems about it |
| `PollLoop` | `start()`, `stop()` and the drain; instantiates `Semaphore` for the slots |
| `PollLoopProofs` | the theorems about it; instantiates `SemaphoreProofs` |
| `LambdaBatch` | `lambda-processor.ts`: batches, aborts, partial responses |
| `LambdaBatchProofs` | the theorems about it |
| `MetricsBuffer` | `cloudwatch-metrics.ts`: the buffered writer |
| `MetricsBufferProofs` | the theorems about it |
| `ReplayCoordinator` | `dashboard.ts`: listing and replaying a dead-letter queue |
| `ReplayProofs` | the theorems about it |
| `BareJob` | abstract: a handler that is called, runs once and is answered for |
| `ObservedJobs` | `instrumentation.ts`, `trace-context.ts` and `tracing.ts`: the wrappers of a handler, its span, and the spans of the jobs |
| `ObservedProofs` | the theorems about it |
| `MCIdempotencyStore`, `MCPollerJobs`, `MCPollLoop`, `MCLambdaBatch`, `MCObservedJobs` | model values and symmetry |

### LeaseLedger

A key is free, held by an owner, or settled. A held lease may lapse and only a
lapsed one may be granted to another owner; only the holder may renew, settle
or release it; a settled key stays settled until it is forgotten. Only what is
settled or has lapsed may be forgotten: a lease that is running ends by its
holder alone, so that a release by anyone else is no step of the ledger.
`IdempotencyStore`, `PollerJobs` and `LambdaBatch` implement it
(`ImplementsLedger` in each): the first derives "lapsed" from timestamps, the
others, which have no clock, take it for an event. This is what lets them stand
on `IdempotencyStore` without carrying its arithmetic.

### IdempotencyStore

The client is the most general one: owners that call any method of the API
whenever it is permitted. `pc[o]` is the await the owner is in. A call has two
steps: it reads the clock and builds its request (`AcquireLock`, `RenewLease`,
`Settle`), and the table applies it later (`UpdateGranted`, `Renewed`,
`Transition`, `ReleaseLock`, or the rejections). `calledAt` is the real time at
which the request was built; the owner's clock is `calledAt + offset`. Each
effect either reaches the caller or is followed by a resend of the same
request, and every call may also end in an error: after the effect or without
it. `leaseFrom` is a history variable: when the owner built the request whose
grant it learnt of last. A crash leaves the table alone.

`TicksPerSecond` is the resolution of the clock within a second, so that
`FloorSeconds` and `CeilSeconds` are the code's `Math.floor` and `Math.ceil` of
milliseconds divided by 1000.

`Entitled(o)` says that o was told it holds the lease and by the fastest clock
the lease's full length has not passed since it asked. `MutualExclusion`: no
two owners are entitled to one key. It fails if the deadline is rounded down,
which `src/docs/failures-and-lessons.md` tells of an earlier version.

### PollerJobs

A task is one call of `process()` and also the owner token it draws. `pc` is
the await it is in: `update` and `read` inside `acquireLock`, `granted` when
the update is applied and the reply is under way, `run` while the handler
runs, `join` while the heartbeat is awaited, `release`, `complete`, `delete`
and `acknowledge` while that request is under way, and then `over`, whether the
call resolved or was rejected, or `crashed`. Which event it reported last makes
no difference to anyone else and is left out.
`handler` and `heartbeat` are the two concurrent activities. The messages of the
queue carry a state, a receive count and the holder of the latest receipt
handle. Workers go from `up` through `stopping` and `timedout` to `down` and
up again; `Crash` is possible at any moment for workers outside `Stable`.

A lease lapses at any moment (`LeaseLapses`) and a message becomes visible
again at any moment (`VisibilityLapses`): a worker may be paused for any time,
so that no heartbeat interval prevents either. Safety therefore does not rest
on timing. Likewise a settled record may be removed at any moment
(`TtlDelete`): every write of a record sets `expiresAt`, and DynamoDB deletes
what is past it. A message of the key that arrives later, a duplicate or
a replayed dead letter, runs the job again; `idempotency.ts:41-42` calls the
retention the time for which duplicates are detected. A retention shorter than
the lease, which the constructor accepts, is `LeaseLapses` followed by
`TtlDelete`.

Two history variables remember what could excuse a repetition: `lapsed`, the keys
one of whose leases has ever lapsed, and `forgotten`, those whose completed
record was removed. `WasCommitted(k)` says that the job of k is recorded as
completed or was until then. `RepeatedOnlyAfterExpiry` says that a job is run
beside a running handler only after a lapse, and after one that returned only
after a lapse, after the retention or after a shutdown that discarded the result;
no other fault makes it run beside or after itself. `CompletedIsFinal` says that
nothing a task does removes or changes a completed record. `CommittedWasDone`
includes `NoSettlementInDoubt`: a task whose heartbeat has failed settles nothing.
A crash ends a heartbeat, but that it had failed a handler which returned is
remembered (`Crashed`).
`Backlogs` are the queues a behaviour may begin with: fresh messages, or
messages that have been received before.

Receiving is message by message here; batches and slots are in `PollLoop`.

### LambdaBatch

An invocation receives a batch, runs `processRecord()` for each message under a
semaphore, and answers when all have; Lambda deletes what is not named as
failed. A record is a message in an invocation and the owner token drawn for
it. The signal can be aborted (`Abort`) and the function killed (`Kill`) at any
moment. The difference to the poller is in `Verdict` and `StartJob`: a job that
is aborted before its handler starts gives its lease back, but one whose
handler has returned keeps it, recorded or not, so that only a lapse, or the end
of the completed record's retention, makes it run again. `TtlDelete`, `forgotten`
and `WasCommitted` are as in `PollerJobs`; `RepeatedOnlyAfterExpiry` states this
without the exception for shutdowns that the poller's property of that name needs.

### Semaphore and PollLoop

`Semaphore` has `active`, `waiters` and the history variable `held`: a slot
that is handed over belongs to the waiter before its code resumes, which is
what the code's unchanged `active` means.

`PollLoop` has a program counter for each call of `start()` and of `stop()`,
and a phase for each `performBoundedDrain()`, because the fields `running`,
`activeReceive` and `shutdownPromise` are shared by all of them. `Top`
computes the capacity and sends the receive in one step, as the code does
without an await; `Received` decides between dispatching and returning the
messages by what `running` is then. Drains share the first promise
(`ShutdownAndDrain`). Jobs are opaque: waiting for a slot, acquiring,
executing, ended; `PollerJobs` refines what they do. With `Overlap` false
`start()` is called only when earlier calls have resolved.

### MetricsBuffer

Points are numbers in the order in which they were recorded; an event maps to
one, two or three. `activeFlush` is the state of the promise of that name, and
`batch` the points of the request under way. A flush whose loop is over is
still the active one until its caller resumes (`Settle`), a few microtasks
later, and calls made in between join it although it will send nothing more.
After `onEvent` that is harmless, since `Settle` arms a timer for what waits
(`NothingStranded`). After `close` it is not: events that came in between are
still waiting when it succeeds. The model marks such a call `late` and its
answer `missed`, and `CloseFlushes`, the part of `NothingStranded` that is
about `close`, is about all others.

### ReplayCoordinator

A listing (`GET /api/dlq`) prunes the cache, receives with a visibility timeout
of zero, and remembers what it got; a replay sends the cached message to the
main queue and then deletes it from the dead-letter queue; a request for a
message that is being replayed joins that replay. `cached`, `receipt`,
`published` and `expired` are the entries of the cache, and `flight` is what
the replay of a message awaits. A pruned entry whose message is being replayed
lives on in the replay's closure: `published` and `receipt` keep it as long as
somebody references it (`Forget`). There is no clock: an entry's lifetime may
be over at any moment (`Expire`). Every receive renews the receipt handles of
what it hands out, so that a handle may be `old`, and then SQS may accept a
delete and ignore it. Requests fail with or without their effect, and the
dashboard may be restarted at any moment.

`excused` is a history variable: the messages for one more copy of which there
is a reason. Beside the first copy there are four: the reply to the send was
lost and the SDK sends again; that the message was sent has been forgotten, by
pruning or with the process; the delete was ignored; or a listing that SQS had
answered before a replay comes in after it. `SendingIsExcused` says that there
is no other. `src/docs/dashboard.md` promises the memory "for the short cache
lifetime", which counts from the listing.

### BareJob and ObservedJobs

`ObservedJobs` has the two calls that guard a wrapper, each with its count of
calls of the operation, what the wrapper did, its answer, and whether an error
of the wrapper's was reported: layer 1 is `runWithQueueCraftTraceContext`, whose
operation is layer 2, `runInstrumentedJob`, whose operation is the handler.
Wrappers are arbitrary: `Enter` is everything a wrapper may do before it
returns or throws, `LateCall` and `Rejects` what it may do later; one that
resolves makes no difference to one that hangs. A rejection is reported after
the answer (`ReportRejection`), since both await one promise and the answer did
so first. `StartActiveSpan` and
`EnterLate` are the instrumentation that QueueCraft brings itself, with a tracer
that enters its callback at once, late or never. The callback awaits the operation
and ends its span in a step of its own (`SpanEnds`). If it was entered before the
handler ended, it awaits the operation's promise itself, while the answer of
layer 2 awaits one derived from it: so the span ends before the answer
(`SpanIsServed`), and `HandlerSpanAgrees` can say that it is over before the job's
event. A callback entered later opens a span, marked `late`, that may well outlast
the event and the job; of such a span the property says what it says once it is
over, not when. `BareJob` is a job without any
of this, and `ImplementsBareJob` says that whoever calls the handler cannot tell
the difference.

The observer's part is `active`, the map from keys to spans; a span is named by
the attempt whose `job_started` opened it. It is found by key alone, so that
what becomes of it depends on the attempts of the key. They can overlap, after a
lapse or because the lease is given back before the event is emitted: the model
lets any attempts overlap and remembers the keys in `overlapped`. `SpansAreOwn`
says that without it every span ends with its own attempt's event; that a span
is ended twice only if a `startSpan` failed over it, since the map then still
holds the span that was superseded; and that no span stays open when the
attempts of its key are over.

## 3. Runs

| Run | Question | Bounds |
| --- | --- | --- |
| `StoreSafety` | can two owners be entitled; are terminal records final; is the ledger implemented; does `acquireLock` answer | 2 owners, 1 key, 2 ticks a second, lease 1 s, retention 1 s, skew 0 to 1 tick, 5 instants |
| `StoreShortRetention` | is TTL only cleanup (expected violation) | lease 3 s, retention 1 s |
| `JobsRedelivery` | who may run and settle one job delivered repeatedly; can two messages of one job acknowledge or record what was not done; what repeats a job, with leases lapsing and records removed at any moment | 1 worker with 2 slots, 3 tasks; 1 message with 3 receives, or 2 messages with one receive left |
| `JobsLiveness` | do tasks end and messages leave the queue | 2 workers (one stable), 1 message, 2 receives |
| `JobsShutdown` | does a timed-out worker stop extending (expected violation) | 1 task |
| `Lambda` | was what is reported as done recorded, and is what returned repeated only after a lapse or the retention | 2 invocations, 2 messages, 3 records in all, 1 slot each |
| `MetricsBuffer` | are points lost, doubled, disordered or stranded | batches of 2, cap 4, 8 points, 2 calls of `close()` |
| `Semaphore` | count, order, no starvation | 5 callers, 2 permits |
| `LoopSequential` | capacity, quiet stop, shutdown ends | 2 starts, 2 stops, 3 messages, 2 slots, batch 3 |
| `LoopOverlap` | capacity when `start()` overtakes `stop()` (expected violation) | 2 starts, 1 stop, 3 messages, 2 slots |
| `Replay` | is a dead letter lost, or sent twice without a reason; can the queue be emptied | 1 message, 2 listings, 2 requests at a time |
| `ObservedJobs` | do wrappers change what a job does; do spans end as their attempts do | 1 attempt in its wrappers, or 2 without that share an observer and have one key or two |

Why the bounds are enough to be interesting. Two owners suffice for a takeover,
and tokens are recycled so that one owner stands for any number of successive
ones; keys are independent. Two ticks to the second are the least with which
rounding up and down differ, five instants the least with which a rounded-down
deadline can be crossed by a skewed clock while its owner still counts on it.
Three receives give a takeover of a takeover, and three records one that
exhausts its attempts because others released the lease twice; in `Lambda` they
meet in one batch or in two, and visibility lapses only while a further record
can be received. Tasks meet in the table and the queue only, so that two slots
of one worker stand for two workers there, and a worker is restarted only while
there is a call left to begin; the run for liveness has two workers, of which
one may fail alone. In `StoreSafety` the retention is equal to the lease, the
shortest for which the theorems hold. In `MetricsBuffer` the cap is twice the
batch, so that a failed batch can overflow it, and there are enough points for
that to happen twice. In `Replay` messages are independent, and listings and
requests are used again and again: two of each are what one replay can meet. In
`ObservedJobs` what a job's wrappers do does not depend on other jobs, nor what
the observer does on wrappers, so that the two are taken apart; two attempts are
what a span can be confused between. For safety the theorems of section 5 lift
all these bounds, on numbers of workers, calls, messages, points and slots
alike.

Every property of a passing run is broken by a mutant of the code named in
`PROJECT.json`; the mutants stand next to the definitions they replace.

`Semaphore` and `Replay` check for deadlock. The others have `CHECK_DEADLOCK
FALSE`: time is bounded, tasks, attempts and calls are used up, and a system
whose jobs are done and whose workers are stopped rests.

### Disagreements found

1. `StoreShortRetention`: `idempotency.ts:4-5` says that TTL is only cleanup,
   but the constructor accepts a retention shorter than the lease, and TTL
   then deletes live leases. The theorems need `RecordTtlSeconds >=
   LeaseDurationSeconds` for exactly this reason.
2. `JobsShutdown`: `src/README.md:201-203` says that at the timeout the worker
   stops extending visibility. A job that is awaiting `acquireLock` then is not
   in `activeExecutions`, is not aborted, and starts handler and heartbeat later.
3. `LoopOverlap`: `start()` called before an earlier `stop()` has resolved
   sets `running` again; the old loop carries on, two loops receive for the
   same slots, and jobs wait while the visibility of their messages runs,
   against the comment at `poller.ts:217-218`.

## 4. Fairness

* `StoreSafety`: requests of `acquireLock` are answered (weak fairness), and
  not every reply is lost: an owner whose update is granted again and again
  learns of it again and again. The SDK retries a few times only.
* `JobsLiveness`: requests are answered, handlers end, and SQS makes a message
  visible again when nobody extends it, redrives it when its receives are used
  up, and gives it to a stable worker that keeps receiving. Nothing is assumed
  of stops, crashes, lapses of leases or losses.
* `Semaphore`: whoever holds a permit releases it, because `run` does so in a
  `finally` and tasks end (`EveryTaskEnds`).
* `PollLoop`: timers fire, receives are answered or aborted, and awaiting code
  resumes. No job is assumed to end: that is the point of the bounded drain.
* `MetricsBuffer`: timers fire, code resumes, requests are answered (weak
  fairness), and a request that is made again and again succeeds again and
  again (strong fairness): with a service that always fails nothing can be sent.
* `Replay`: the page refreshes itself, SQS hands a message out now and then, and
  an operator who goes on replaying what is listed is in time now and then;
  sends and effective deletes succeed now and then (strong fairness). Nothing is
  assumed of restarts, lifetimes and lost replies.
* `ObservedJobs`: what is scheduled as a microtask runs, and a promise that has
  settled resumes whoever awaits it. Neither handlers nor wrappers are assumed
  to end.

## 5. Proofs

`IdempotencyStoreProofs` proves, for all constants that satisfy
`StoreAssumption`:

* `TypeCorrect`: `Spec => []TypeOK`.
* `InductiveInvariant`, `MutualExclusionHolds`, `EntitledCanSettleHolds`, under
  `RecordTtlSeconds >= LeaseDurationSeconds`.
* `TerminalIsFinalHolds`.
* `StoreImplementsLedger`: every step of the store is a step of the ledger or
  a stutter, with no assumption on the retention. A lease counts as lapsed when
  the fastest clock has reached its deadline or the end of its record's
  retention, so that a TTL deletion only ever forgets what the ledger may forget.

The argument. `MutualExclusion` is not inductive: it does not say what in the
table protects an entitled owner. `Inductive` does: the record of an entitled
owner carries its token (`Owned`), its deadline is not earlier than the
request's real time plus the lease (`FullLease`, from the rounding lemma
`CeilBounds`), and its retention is not shorter (`Backed`). Two things can
take the record away. A takeover needs a request whose floor-rounded clock has
reached the deadline; requests are built in the past (`RequestsInPast`) and no
clock is ahead by more than `MaxSkew`, so that the entitlement is over then
(`NoTakeover`). A TTL deletion needs the retention to have passed
(`NoEarlyDeletion`), which is where the assumption on the retention is used.
Renewals only move the deadline on, because a renewal was built after the
grant it renews. Mutual exclusion follows, since a record has one owner.

`SemaphoreProofs` proves, for all callers and every positive number of permits,
`TypeCorrect`, `CountsOwnersHolds`, `NoIdlePermitHolds` and
`FirstComeFirstServedHolds`, from one inductive invariant, `Exact`: the owners
are finitely many and as many as the count says, waiters are distinct and own
nothing, and nobody waits unless the count is at its limit. The hand-over in
`release()` keeps the count because the waiter that replaces the owner was not
one already; order follows because the head of the queue is the only waiter
that any step makes an owner, and it occurs in the queue once.

`ReplayProofs` proves `TypeCorrect`, `MemoryHolds`, `NothingIsLostHolds` and
`SendingIsExcusedHolds` for any messages, listings and requests. The inductive
invariant `Memory` says what cache and replays know of the sends: what is known
to be sent was sent, by an entry or a replay that still exists; a replay sends
only what is not known to be sent and deletes only what is; and a copy that
nothing excuses is known of, or its message is gone from queue, cache and
replays for good. Every step that forgets a send, `Forget`, is one that adds its
message to `excused` if it is still in the queue.

`ObservedProofs` proves for any attempts, keys and wrappers:

* `TypeCorrect` and `RunsOnceHolds`: a handler runs at most once. `TypeOK` is not
  inductive, since the count is bounded only because a handler starts when
  nothing has run yet; `Calls` adds that, and that what has not begun has left
  no trace.
* `OutcomesHold` and `HandlerSpanAgreesHolds`: what the layers answer, the
  handler's span once it is over, and the event are the handler's outcome
  (`Outcomes`), and a span entered before its handler ended is over when the
  layers have answered.
* `JobIsSafe`: every step is one of `BareJob` or a stutter, from these two. This
  is `ImplementsBareJob` without its fairness.
* `SpansAreOwnHolds`, with `Index`: the map holds spans that have begun, under
  their own keys, ended ones only under a failed start, and for a key without
  overlap only the live attempt's. A start that supersedes a span of a key
  without overlap contradicts the last, since the span's attempt would be
  live beside the new one; for the same reason an end that finds a span finds
  its own.

* `BlameIsDeservedHolds`, the safety half of `BlameIsFair`: who is reported for
  an error made it. A report comes with or after the layer's answer, which is
  the operation's outcome, and the outer layer answers after the inner one
  (`Blame`); so what was compared is what the operation ended with.

`PollerJobsProofs` proves for any workers, tasks, messages and keys:

* `TypeCorrect`, and `JobsInvHolds` for the inductive invariant `JobsInv`.
* `AckedIsCommittedHolds`, `CommittedWasDoneHolds` and
  `RepeatedOnlyAfterExpiryHolds`.
* `JobsImplementLedger`: every step is, for each key, a step of `LeaseLedger` or
  a stutter.

None of the three invariants is inductive. `JobsInv` adds `Stages`, what handler
and heartbeat of a task are doing at each await of `process()`; `Recorded`, that
a task which is about to delete a message has found or made the record
`COMPLETED`, and that this is so or was until the retention ended it, which
`forgotten` remembers; `Done`, that behind each such record is
a task that `Did` the job and can no longer lose that; and `LeaseKept`, that a
key whose lease has never lapsed belongs in the table to the task that runs its
job, and to the one that has run it until its record is completed. Nothing of it
speaks of time: lapses, ends of retentions, redeliveries, crashes and lost replies
come whenever they like.

`LambdaBatchProofs` proves the same of the processor, for any invocations and
batches: `TypeCorrect`, `BatchInvHolds`, `DoneIsCommittedHolds`,
`RepeatedOnlyAfterExpiryHolds` and `BatchImplementsLedger`. The invariant has one
more part, `Idle`: an invocation that has not begun has no records, so that
beginning one overwrites nothing. `Keeps` is stronger than the poller's
`LeaseKept` where the processor is: a job whose handler has returned is not
given back, aborted or not.

`MetricsBufferProofs` proves for any sizes of event, batch and buffer and any
number of calls of `close()`, a batch larger than the cap included:
`TypeCorrect`, `BufferInvHolds`, `EveryPointCountedHolds`, `NothingStrandedHolds`
and `OldestAreKeptHolds`. The invariant adds two things. `BatchFits`: a batch was
taken from the buffer and so is no longer than the cap, which is why giving it
back overflows by no more than the points that came since, and it is those
that are dropped. `Joined`: what each call of `close()` knows of the flush it
awaits. That order is kept follows from taking sent, under way and pending as
one sequence, on which a failure is no change at all.

`PollLoopProofs` proves, for any calls of `start()` and `stop()`, overlapping or
not, and any numbers of messages and slots:

* `TypeCorrect`, and `SlotInvHolds`: the semaphore's owners are the jobs past its
  `acquire()`, its waiters the others in flight, and `Exact` of
  `SemaphoreProofs` holds of them. The lemmas of that module are used through an
  `INSTANCE`, one step of the loop being several calls of `acquire()`
  (`ExactAfterAcquireInOrder`).
* `ConcurrencyBoundedHolds`: no more handlers run than there are slots.
* `SlotsInOrderHolds`: a waiting job is not passed by a later one.

And, if calls do not overlap (`~Overlap`; `LoopOverlap` is a counterexample to the
second without it):

* `SeqInvHolds`, `NeverWaitsHolds` and `StoppedIsQuietHolds`.

`SeqInv` has three parts beside `SlotInv`. `OneLoop`: a running poller has one
loop, and nothing of a shutdown is under way. `RoomIsKept`: the receive that is
out is the one `stop()` will await, and what was asked for still fits beside the
slots in use, since slots are only taken by a dispatch and this loop's receive
has not come back. `Attended`, of a stopped poller: the receive that is out is
awaited by a `stop()`; jobs in flight have a `stop()` that will join the drain,
or that awaits it, or the drain's last deadline is over; and they are all in its
snapshot. `StoppedIsQuiet` is what is left of this when every `stop()` has
resolved: a loop alone may leave `drain` before, but it begins a drain with jobs
in flight only while a `stop()` is still to come.

Only model-checked: the liveness properties, `AcquireAnswers`, `EveryTaskEnds`,
`EveryMessageLeaves`, `EverythingIsSent`, `DlqDrains`, `NoStarvation`,
`ShutdownEnds`, the fairness in `ImplementsBareJob`, and that an error of a
wrapper's own is reported in the end (the other half of `BlameIsFair`). They rest
on fairness, that is on `ENABLED`, which the prover does not handle.

## 6. Not modelled

* Clocks that are set back or jump: an owner's offset is fixed.
* In `IdempotencyStore` an owner has one request under way, so that a renewal
  which the SDK gave up on is not applied after a newer one.
* Retention as a duration in `PollerJobs` and `LambdaBatch`: a record may be
  removed at any moment after it was settled or its lease has lapsed, however
  short a time that is. Their safety is so proved for every retention, and
  neither says how long duplicates are detected; `IdempotencyStore` does, with
  `TerminalIsFinal`.
* In `LeaseLedger`, who removed a record whose lease has lapsed. A release of it
  by an owner that no longer holds it would pass for its being forgotten, though
  not a release of a lease that is running. Anyone may be granted the key then in
  either case; what the ledger does not show is that the holder loses its last
  chance to settle.
* The rejection of empty identifiers, invalid options and messages without an
  id or a receipt handle; wording and order of log and event callbacks.
  Callbacks are isolated by try/catch in the code.
* Two pollers that share one semaphore object.
* FIFO queues.
* What happens inside a handler, beyond when it ends and how.
* The publisher: `publish()` builds one request from its arguments and sends it,
  without state or retries. Several messages with one key are in `PollerJobs`.
* The dashboard's HTTP server: its checks are decisions on a single request. A
  send that takes effect after the dashboard was restarted, and the retention
  of the dead-letter queue, are left out of `ReplayCoordinator`.
* The parsing of trace headers, span attributes, and instant spans, which end
  as they start.
* A liveness run for `LambdaBatch`: its heartbeat is the poller's, for which
  `EveryTaskEnds` is checked.

## 7. Plan

In this order; A to K are done.

| | Module | What | Runs and theorems |
| --- | --- | --- | --- |
| A | `LeaseLedger` | abstract ledger | refined by B, D and G |
| B | `IdempotencyStore` | leases with clocks | `StoreSafety`, `StoreShortRetention` |
| C | `IdempotencyStoreProofs` | theorems on B | mutual exclusion, refinement |
| D | `PollerJobs` | jobs | `JobsRedelivery`, `JobsLiveness`, `JobsShutdown` |
| E | `Semaphore`, `SemaphoreProofs` | slots | `Semaphore`; exact count, order |
| F | `PollLoop` | loop and drain | `LoopSequential`, `LoopOverlap` |
| G | `LambdaBatch` | invocations over the ledger: abort, kill, partial response | `Lambda` |
| H | `MetricsBuffer` | buffer, timer, single flush, close | `MetricsBuffer` |
| I | `ReplayCoordinator`, `ReplayProofs` | cache, single flight, send then delete | `Replay`; nothing lost, nothing repeated without a reason |
| J | `BareJob`, `ObservedJobs`, `ObservedProofs` | wrappers and spans | `ObservedJobs`; runs once, outcomes agree, spans are own |
| K | `PollerJobsProofs`, `LambdaBatchProofs`, `MetricsBufferProofs`, `PollLoopProofs` | theorems on D, G, H and F | every safety property of the runs |
| L | the same modules | to do: action properties (once `stop()` was called nothing is dispatched until the next `start()`; an aborted job stays aborted; a handler that was told of an abort does not settle), and how `PollLoop`'s jobs relate to those of `PollerJobs` | theorems from the invariants of K |
