# Cauli in TLA+

Cauli is a task queue on Redis Streams: Python clients enqueue envelopes
(`src/py/cauli`), Rust workers fetch, run and finish them (`src/worker/src`), and
`cauli-beat` publishes periodic tasks. `src/PROTOCOL.md` is the wire protocol. This
directory models the parts of it whose correctness depends on interleavings and
failures, checks them with TLC on small instances, and proves the main ones with TLAPS
for every value of the constants.

## Inventory

| Component | State | Operations | Talks to | What is hard | What makes it correct |
|---|---|---|---|---|---|
| Client (`app.py`) | none | one XADD or ZADD per enqueue | Redis | – | an accepted task is carried from then on |
| Broker protocol (`broker.rs`) | stream, consumer group with pending list, delayed set, results, dead letters; ack buffer per queue | finish writes, ack and delete, mover script, trim, claim | every worker, all at once | pipelines torn between commands, refused writes, scripts that are not rolled back, reads used after they are stale | a task is never lost; only recorded work is acked; a pending entry stays in the stream |
| Worker loops (`loops.rs`) | cursor, page, trim boundary, watches over the event loops | fetch, move, recover, trim, reap, wedge detection | broker, dispatch, lanes | recovery races the holder and other recoverers on counts read earlier; fetch and recovery share slots without a lock; a busy loop looks like a blocked one | one copy per process, bounded redelivery, bounded entries in memory and in one fetch, orphans removed at last, wedges found and load not taken for one |
| Dispatch (`dispatch.rs`, `ctx.rs`) | entries in flight | gates, execution, success / retry / failure | flusher, lanes | the same entry in several processes, finishing in any order | a retry counts, an outcome is recorded once acked |
| Sync lane (`exec.rs`, `pyrt.rs`) | job queue, parked and standby threads, deadlines | submit, take, run, abandon | dispatch, Python | wakeups, timeouts racing results | no job is stranded, one answer per job |
| Async lane (`exec.rs`, `pyrt.rs`, `shim.py`) | completion slots, submit channel, one queue and its counters per event loop | register, submit, wake, drain, run, cancel, heartbeat | dispatch, Python, watchdog | a backstop races a late callback; a wakeup or a stamp written in two steps on another thread | no slot, wakeup or stamp is lost |
| Outcomes (`pyrt.rs`, `ctx.rs`, `shim.py`, `_exec.py`) | none | reply to outcome | lanes, dispatch | two encodings and two decoders of one meaning | every lane settles a task alike |
| CPU pool (`cpu.rs`, `_exec.py`) | children, requests in flight, deadlines, idle count | admit, write, answer, recycle, kill | lanes, fork server | prefetched requests and deadlines, recycling with work staged | one answer per request, timeouts only for started work |
| Supervisor, signals, drain (`supervisor.rs`, `lib.rs`) | child slots, respawn times, shutdown flag, entries in flight | spawn, respawn, fan out signals, reap, drain, force | workers | a signal during a spawn, one request delivered twice, starts that fail while stopping | everything stops, nobody is left behind, the exit code tells the truth |
| Clock, backoff, expiry, idempotency (`clock.rs`, `backoff.rs`, `broker.rs`, `dispatch.rs`) | anchor of the clock, lease of a key | sample, date, expire, claim, move | Redis, other workers | late and lost samples, a lease beside retries and redelivery | no clock runs ahead, no two executions under one key, no retry early |
| Beat (`beat.py`) | lease, schedule, due slots, fingerprints | lead, reconcile, seed, claim and publish, drop | Redis, other replicas | two leaders, stale reads, scripts stopped half way, edits in between | one publish per slot, no firing lost, slots advance, nothing stays due |
| Schedules (`schedules.py`) | none | next slot, fast forward | Beat | phase, boundaries, time zones | the next slot is after both the old one and now |
| CLI, logging, statistics, hooks, contrib | – | – | – | – | not modelled |

## Modules

* `TaskLedger` is the abstract specification of the broker: accepted tasks, the
  attempts they have reached, settled tasks. Attempts grow by one within the budget;
  every accepted task settles.
* `Delivery` is one queue with all its workers. Its state is Redis (`accepted`, `log`,
  `stream`, `delivered`, `pel`, `count`, `idle`, `delayed`, `results`, `dlq`), what each
  process holds in memory (`stage`, `page`, the trim loop's three variables, `up`) and
  two histories (`returned`, `runs`). Every Redis command is a step; the completion
  pipeline is one step per command and entry (`FlushWrites`, `FlushAck`,
  `FlushDelete`) with the ways it can break (`FlushRefused`, `FlushTorn`). `stage[w][i]`
  is how far process `w` has got with its copy of entry `i`; it is not "none" exactly
  while `InflightEntry` keeps it registered. `Delivery` ends with its refinement
  mapping to `TaskLedger`.
* `DeliveryProofs` holds the theorems about `Delivery`.
* `Beat` is one schedule entry and the replicas that serve it. The reads of a tick are
  separate steps, so a replica may act on an old time, definition or slot; the lease
  can expire at any moment. `BeatProofs` holds its theorems.
* `SyncPool` is the thread pool of the sync lane with the `run_sync_task` of each of its
  jobs. Its state is the queue under its mutex (`queue`, `parked`, `standby`), who holds
  the GIL, where each thread and each waiter is, and what the two one shot channels of
  a job carry (`started`, `replied`). A critical section is one step; the look at
  `live_threads` and its increment are two.
* `SyncPoolProofs` holds the theorems about `SyncPool`.
* `CpuPool` is the cpu lane in fork server mode. `child[c]` is a forked child with its
  socket (requests written and not begun, running, answers not yet read), `slot[s]` the
  locals of `slot_loop` and `serve_child` (`pending` is `order` and the set `armed` of
  those with a deadline), `count` the shared `IdleSlots`. One pass of the loop is the
  recount, the load of the count, the registration of the notification and one branch
  of `select!`; every way out of it is `Leave`. `CpuPoolProofs` holds its theorems.
* `Outcomes` is the meaning of a task's ending: what the shim and the cpu child reply
  (`ShimReply`, `ChildReply`), what `outcome_from_py` and `parse_pyresp` make of it, and
  what the worker then does (`Settle`). It has no state. `OutcomesProofs` proves that the
  lanes agree. `AsyncLane` extends `Outcomes`: what a oneshot holds is one of its outcomes.
* `AsyncLane` is the async lane with the watchdog over it: `call[t]` is where
  `run_async_task` is, `pending` and `answer` the completion slots, `channel` and `sub` the
  submitter thread, `loop[l]` an event loop with the shim's globals for it, `dog` the locals
  of `wedge_loop`. `submit_async` and the wakeup after its lock are two steps, and so are the
  stamp of a heartbeat and its scheduling. `AsyncLaneProofs` holds its theorems.
* `Fleet` is a supervisor with its processes: `sup` is the supervisor, `proc[s]` the
  process of slot `s` with its signal task, its loops at the admission gate and the number
  of entries on each lane. `FleetProofs` holds its theorems.
* `Deadlines` is what is decided by time: the clock of each worker, envelopes with expiry
  and retries, and the lease of the idempotency key they share. `DeadlinesProofs` holds
  its theorems.
* `MCDelivery`, `MCBeat`, `MCCpuPool`, `MCAsyncLane` and `MCDeadlines` hold the symmetry and the values of
  their instances. `SyncPool` and `Fleet` are run as they are.

Definitions named in a comment as a mutant are deliberate mistakes, used to see that
a property can fail; no specification uses them.

### Abstractions in Delivery

* One queue: queues share only worker capacity. Ids are positions in the order of XADD.
* Time: a delayed envelope may come due in any state; the idle time of a pending entry
  is below the visibility timeout (0), above it (1), or above what a long task requires
  (2). Every clock and every backoff is covered.
* The gates of `process()` are kept in order by the class of the envelope: rejected
  (malformed, unregistered), expiring, keyed. An idempotency claim may turn out either
  way. An execution may end in success, a retryable or a final failure.
* A recovery page is the whole pending list; XPENDING and the XRANGE peek are one step.
  A page's XCLAIM pipeline is one step per entry, in any order; when its reply is lost,
  all it claimed is lost at once (`RecoverLost`). `dlq_terminal` is
  awaited in the recovery loop, so counting its entry as held excludes nothing else.
* The entry is registered as in flight when it is dispatched; the code does it at the
  first poll of the spawned task (`dispatch.rs` 28). A second copy in between would need a
  recovery scan that finds the entry idle for the whole visibility timeout before that poll.
* A drain that times out is `Crash`; a clean drain is a `Crash` that holds nothing.
* Left out: expiry of result and dead letter keys, the reset of the Redis dataset
  (NOGROUP), consumer names and their reaper. The permits of the admission gate are in `Fleet`.

### Abstractions in Beat

* Entries do not interact, so there is one. `rev()` is computed only for enabled
  entries and then depends on the schedule alone. Slots and time are small numbers.
* A schedule is an interval (keeps the phase of its first slot) or aligned to multiples
  of its period, as a crontab is to the calendar.
* A failed call is one the server executed or did not: a lost reply is the step
  followed by `RedisError`, a claim that did nothing is `ClaimFailed`, a script stopped
  after its publish is `ClaimTorn`.
* Left out: `use_lock = False`, entries whose schedule raises, the per tick cap.

### Abstractions in SyncPool

* A task may run, give the GIL up and take it back any number of times, block for ever,
  or return; what it computes is left out.
* A thread is in the condition variable from the moment it counts itself in `parked`
  until it is woken and has the mutex again; it may be woken without a notification.
* The end of the queue budget is two steps, the last poll of `started_rx` and its drop,
  because a pool thread may send in between. `rx` is dropped with it: a thread that
  finds either end closed skips the job. Timers have no length: a budget may run out
  whenever the channel is still empty.
* Left out: a panic in a pool thread and `next_idx` and `abandoned`, which are only counted.

### Abstractions in CpuPool

* Tasks may hang, children may stop reading: a child's own steps are never forced. Any
  deadline that is set may be over; several may be over at once.
* A write is one step when it completes; its partial progress changes nothing else.
* Pids and connections are one identity, used again once a slot is done with a child.
  The connections waiting for a slot are a set, not a queue.
* The admission semaphore and the overflow counter only delay callers and the fetch
  loop (they are in `Fleet`); statistics are left out. So are stdio mode and the end of the job channel, which
  closes only with the worker.
* The idle count starts at the number of slots; in the code each `slot_loop` adds itself
  when it starts (`cpu.rs` 651).
* `ForkWait` may be premature, within a bound on children on their way.

### Abstractions in Outcomes

* Texts (messages, tracebacks) are left out; a value is one JSON can hold or not, an
  exception is its class name. A countdown is any value but NaN, which only the shim's
  lanes can carry.

### Abstractions in AsyncLane

* A task is its token. Time is counted in heartbeats; ages stop counting past the window,
  because they are only compared with it. Backstops may fire in any state.
* A body may await, block its loop, return from the blocking call or end, in any order; an
  end is any of `Endings`. The GIL only delays: a probe may wait for it, so time passes
  before the first stamp of a probe, not within it.
* `quiet[l]`, and its copy in a beat, is a history variable: heartbeats since loop `l` last
  finished a task.
* Left out: a panic of the submitter thread, and the failure of `start_loops`.

### Abstractions in Fleet

* Entries are counted, not named; what happens to one that is left behind is in `Delivery`.
  A read asks for `PerStream` entries of each of its `Streams` and gets any number of them;
  a recovery page is the free slots (the cap of 128, `RECOVERY_SCAN_BATCH`, only makes it
  smaller).
* A killed supervisor signals all its children at once. In the code a child asks for that
  signal after its fork (`supervisor.rs` 159-161), so one forked at that moment may miss it.
* Startup is one step that may fail. A signal that comes before the handlers are there kills.
* A signal is forwarded and handled within `SECOND_SIGNAL_MIN_GAP` (`GapOver`).
* A cpu child's work is one step; `CpuPool` has its inside. The channel behind the
  admission semaphore always has room, because prefetch is at most `child_threads`.
* `dirty` (a process ended badly in the stop) and `early` (entries that waited for the cpu
  pool's start) are histories.

### Abstractions in Deadlines

* Monotonic clocks run at Redis' rate; a worker's wall clock is off by `Skew`, a reply
  takes `Lag` at most. A client's clock at enqueue is Redis time.
* The envelopes shown are those of one key. `got` is when an entry was delivered; recovery
  takes it once it has been idle for `RequiredIdle`, if the worker that held it is dead.
  There is one attempt per envelope at a time: that a live attempt which waited long for its
  slot is reclaimed by another worker is in `Delivery`.
* An attempt is what the worker sees of it. It starts within `Wait` of its claim: the lane's
  queue, which the sync lane allows to last for `timeout_ms` (`exec.rs` 82) and the cpu
  backlog for longer. It ends by `Timeout` plus `Grace`, the backstop of the async lane
  (`exec.rs` 150-152), counted here from the start, which is no earlier than the submit.
  `InTime` is its time within `Timeout`, which is what the lanes promise a body; past it the
  worker only waits for an unresponsive loop. A thread or a coroutine that runs on after
  its attempt was given up is not seen.
* Backoff is computed in whole seconds; the floating point of `backoff.rs` is not modelled.
* A claim that fails open is counted as a fault, and `Exclusive` is about the others.

## Runs

| Run | Instance | Checks |
|---|---|---|
| `delivery_recovery` | 1 long task, 2 processes, 1 retry, 2 entries, 1 fault | `NoTaskLost`, `PendingInStream`, `AckCovered`, `OneCopyPerProcess`, refinement of the ledger's safety |
| `delivery_redelivery` | 1 entry, 2 processes, limit 3, 6 faults | `RunsBounded`: limit plus one execution per process |
| `delivery_liveness` | 1 process, 1 retry, 3 entries, 1 fault, fair | `ImplementsLedger`: every accepted task settles |
| `delivery_trim` | 2 tasks (one rejected and unreadable, one keyed and expiring), 1 fault, fair | the trim boundary under concurrent deliveries; `OrphansRemoved` |
| `beat_once` | 2 replicas of one release, interval 2, time to 4, no edits, 1 fault, fair | `FiredOncePerSlot`, `SlotAdvances`, `NoFiringLost`, `LatenessJudged`, `DueSettled` |
| `beat_edits` | 2 replicas of different releases, 1 edit, fair | `SlotFollowsDefinition` |
| `sync_pool` | 3 jobs, 1 thread and 3 replacements, capacity 2, fair | `NoStrandedJob`, `StandbyComing`, `QueueServed` |
| `cpu_pool` | 2 slots, 3 jobs, 3 children of 1 thread, prefetch 1, recycle after 2, 2 faults | `HeldOnce`, `IdleExact` |
| `cpu_child` | 1 slot, 4 jobs, children of 2 threads, prefetch 1, recycle after 3, 1 fault, fair | `ArmedCanRun`, `RecycleDrains`, `AllAnswered` |
| `async_lane` | 3 tasks, 1 loop, 1 io slot, queue cap 2, window 1, fair | `SlotKept`, `NoLostWakeup`, `StampAnswerable`, `RejectedOnlyIfStarved`, `ProgressProtects`, `WedgeFound` |
| `fleet` | 2 slots, 1 of them given entries, 1 io slot, 2 streams, batch 2, admission 1, 1 entry before the cpu pool is up, 2 stop signals, 2 faults, fair | `AdmissionBounded`, `NoOrphan`, `ForcedOnlyIfAskedTwice`, `ExitHonest`, `StopEnds`, `PauseEnds` |
| `deadlines` | 1 worker with late samples, 2 envelopes of one key of which one may expire, 2 retries, timeout 1, grace 2, wait 1, time to 5, 1 fault | `ClockBehind`, `Exclusive`, `ExpiredBurnsNoKey`, `RetryNotEarly` |

**Bounds.** `MaxId` bounds the entries ever added, `MaxFaults` the failures, `MaxTime`,
`MaxEdits` the environment of Beat. Two processes are enough for every race between a
holder and a recoverer or between two recoverers; one retry and one fault give every
entry a torn flush, a duplicate, a crash or a lost reply at every point of its life. A
sequence of crashes needs more faults and has its own run. For Beat two replicas give
two leaders; time to 4 with period 2 gives slots that are on time, late, and coalesced.
For the pool, one thread has room for three replacements, and three jobs may wedge it and
the ones after it: after the first thread is wedged the queue is drained by a replacement,
and again when that one is wedged too, before the ceiling of threads is reached. With
replacements one thread is the standby of another; a capacity below the number of jobs makes
submit refuse one.
For the cpu pool, a busy slot prefetches only when both slots are busy, so two slots need
three jobs; four jobs on one slot with two threads fill both threads, stage a third and
ask for a fourth when the recycle budget of three is nearly used up.
For the async lane, three tasks whose callers give up share one slot and a queue of two: a
submission is appended to a queue that is not empty and wakes nobody, one is refused, and a
callback comes late. The turn over several loops is not in the run and is
covered by the proofs, which are for any number of loops. For the fleet, two stop signals
and two faults give a repeated signal, a forced exit, a failed start in the stop and a killed
supervisor; one process with entries is enough, because processes share nothing but their
supervisor. Two streams on one slot make a read ask for more than is free, and the cold pool
and a recovery page add to it. For the deadlines, time to 5 gives a second sample with a
reply that is late, a second retry at the floor of the factor, a lease of three that ends, an
overlapping claim, an attempt kept to its backstop and a crash whose entry is reclaimed. One
worker runs both envelopes at once; a retry is moved by another clock when it was dated
before a sample or a restart and is moved after it. Clocks of several workers at a time
are covered by the proofs.

**Deadlock.** A `Delivery` instance stops when its tasks are settled and its bounds used
up, a `SyncPool` or `CpuPool` instance when its jobs are done, an `AsyncLane` instance when
the process has ended, a `Fleet` when the supervisor and its processes are gone, `Deadlines`
at the end of its time, so deadlock is not checked there; Beat never stops and is checked.

**Fairness.** `Delivery`: every loop of a live process keeps ticking
(`tokio::time::interval`), an execution ends (every lane has a backstop timeout), time
passes, a due envelope is moved, a dead process is replaced by the supervisor. Faults
and clients are not fair. `Beat`: a live replica keeps looping, Redis time advances,
a lease nobody refreshes expires. `SyncPool`: threads and timers run (weak fairness); a
thread that asks for the GIL gets it although others take it in between (strong fairness:
CPython makes the holder give it up after the switch interval, and the mutex of the GIL
does not pass one waiter over for ever). A blocked task is not fair, it may never resume,
and neither is the queue budget, which may be as long as the task's timeout. `CpuPool`:
slots and their timers run, forked children connect (the number that fail is bounded),
the control loop serves fork requests and respawns its parent. Children are not fair.
`AsyncLane`: time passes and the watchdog, a task of the Rust runtime, gets its turn;
callers, submitter, loops and bodies may all stop. `Fleet`: the runtimes schedule their
tasks, reads return and timers fire (drain deadline, restart delay), cpu tasks end because
their hard timeout kills the child; io tasks need not end and nobody has to send a signal.
`Deadlines` has no liveness property.

### Observations

What the models show beyond the properties.

* *More queues than io slots.* `loops.rs` 65, `PROTOCOL.md` 185 and
  `docs/architecture.md` 131 say that a fetch takes no more entries than can start. COUNT is
  per stream and at least one, and the gate opens at `min(streams, io_concurrency)` slots, so
  a worker with more queues than slots reads one entry of each. They wait for a slot while
  their idle time counts. `FetchesFit` proves the claim (`FetchFits`) for at most as many
  queues as slots, and `AdmissionBounded` how far it is overrun otherwise; with
  `INVARIANT FetchFits` in `Fleet.cfg`, which has two queues and one slot, TLC shows the read.
* *Lease and lane queues.* `docs/architecture.md` 144 and `broker.rs` 148
  say that the lease outlives the execution. It counts from the claim and lasts `timeout_ms`
  and a grace; a sync job may wait for `timeout_ms` in its queue and then run for
  `timeout_ms`, a cpu task may wait in the backlog. With a short `idemp_ttl` the key is then
  gone while the body runs. `LeaseOutlivesTimeout` proves the claim (`LeaseOutlives`) for
  bodies that start within the grace; with `Wait = 2`, `Timeout = 2` and `Grace = 1` TLC
  refutes it. A retry delayed past the lease may find the key taken and resolve as a
  duplicate.
* *Documented execution bound.* `PROTOCOL.md` line 136 bounds the executions of a task by
  `(max_retries + 1) x (redelivery_limit + 1)`. The mover script (`broker.rs` 62) may stop
  between its XADD and its ZREM; both entries then have a redelivery budget of their own,
  and processes that race on a stale count add one run each (`RunsBounded`).
* *At most once per slot.* `PROTOCOL.md` line 138 says beat fires each slot at most once.
  A replica that read an old definition and time, then stalled past its lease while the
  schedule was edited and the slot fired, finds another fingerprint stored, so `_SEED_LUA`
  (`beat.py` 77-81) puts back the slot that was fired. Without edits the property holds
  (`FiredOncePerSlot`).
* *Prefetch while a sibling is idle.* `cpu.rs` lines 618-620 say a busy slot stages work only
  while no slot is idle. `may_admit` (821) is not computed again while `select!` waits, and an
  increase of the idle count wakes nobody, so a busy slot may take the job an idle sibling
  could start at once.
* *The latency the watchdog reads.* When no stamp is out, `heartbeat` reports the latency of
  the last answered one. A loop that stalled for the window and recovered, with one task that
  still awaits and none completed, is then ended with exit 87 although it answers
  (`docs/architecture.md` 113, `PROTOCOL.md` 648). `ProgressProtects` is what holds.
* *Drain and recovery.* The drain (`lib.rs` 408) waits for entries in flight, not for the
  recovery loop: entries of an XCLAIM under way are left pending under a process that exits
  0. They are recovered later as after a crash (`NoTaskLost`).
* *Slow forwarding.* A stop sent to the whole control group whose forwarded copy takes longer
  than a second forces exit 130; `GapOver` assumes it does not.
* *Cold cpu start.* Between `drop(slot)` (`dispatch.rs` 255) and the start of the pool, cpu
  entries are in neither count that closes the admission gate, so fetching goes on until the
  pool is up, unless `--eager-cpu` (`cpu.rs` 78, `PROTOCOL.md` 186-189). `AdmissionBounded`
  counts them apart (`early`).
* *An exception that is only named Retry* forces a retry on the cpu lane alone; the embedded
  lanes retry it as a failure, with the same effect (`Agreement`).
* A pool thread's `started.send` between the last poll of an expired queue budget and its
  drop (`exec.rs` 83) runs a job that was reported as never started, and no replacement
  follows if it wedges the thread (`QueueServed` excludes exactly this case, `Raced`).
* A slot that leaves the idle ones between another's load of the count and its `notified()`
  (`cpu.rs` 821, 952) does not wake it, which delays prefetched work until that slot's next
  event.

## Proofs

Every safety property of the passing runs is proved for all values of the constants that
satisfy the `ASSUME` of its module, and the hypothesis named here if it has one. In each proof module `IInv` is the inductive invariant, and
`InvariantHolds` is `Spec => []IInv`; the properties follow from it.

### Delivery

For any tasks, any finite set of workers, any retry budget, redelivery floor and bounds:

* `TypeCorrect`: `Spec => []TypeOK`
* `PendingKept`: `Spec => []PendingInStream`
* `AcksCovered`: `Spec => []AckCovered`
* `TasksNeverLost`: `Spec => []NoTaskLost`
* `NoSecondCopy`: `Spec => []OneCopyPerProcess`
* `RedeliveryBounded`: `Spec => []RunsBounded`
* `LedgerImplemented`: `Spec => ImplementsLedgerSafety`, the refinement of `TaskLedger`

None of them is inductive alone. `PendingInStream` needs to know that pending entries were
delivered, that a process only deletes what it has acked, and that a trim boundary read
earlier is still below every pending and undelivered entry (`TrimBelow`). `NoTaskLost`
needs to know that a finish waiting in the buffer as a success or duplicate belongs to a
task that returned (`KindBacked`), that an entry past its writes is covered (`AckCovered`),
and that an entry already acked but still in the stream is covered too (`AckedCovered`).
The argument: `NextEffect` summarises every action by its effect (records only grow, owed
entries and delayed envelopes stay, except that one covered entry is acked or one
envelope moves to the stream), and `SafeKept` shows that such a step keeps everything
covered. `NextStream` and `NextTypeOK` go action by action.

`RunsBounded` rests on `RunsCounted`. Up to the limit, the executions of an entry and the
copies about to run are no more than its deliveries. Past it, each process that holds a page
read within the limit has one more execution to give; the one whose claim passed the limit
has used its page, so all together are at most the limit plus the number of workers. This is
where the workers have to be a finite set.

The refinement needs one more invariant, `Known`: nothing is logged, delayed or recorded of a
task before it is accepted. `NextAdds` sorts the actions by what they add: nothing, a new
task with its first attempt, the outcome of one task, or the next attempt after a delivered
one. Each kind is one step of the ledger, or none (`LedgerStep`): a delivered attempt is
owed still or was acked under the cover of a later one (`AckedCovered`), so an attempt that
is added again does not count twice and no attempt is skipped.

### SyncPool

For any jobs, any finite set of threads and any capacity:

* `TypeCorrect`: `Spec => []TypeOK`, the capacity of the queue and the range of `parked`
* `JobsNotStranded`: `Spec => []NoStrandedJob`
* `StandbyNeverStale`: `Spec => []StandbyComing`

`wake_standby` wakes nobody when the flag is set or `parked` is 0, so the two invariants need
each other and the exact value of the counter: `ParkedExact` says `parked` is the number of
threads that wait or were notified and are not back. The argument is in `WakeStandbyWakes`
(after a call, a parked thread means one on its way), cited by `Submit` and `Take`; every
other action keeps those on their way or runs with the queue empty.

### Outcomes

`Agreement` is `LanesAgree` for any set of endings: the reply of every lane is written out
for each way a body can end.

### CpuPool

For any jobs, finite slots, children, concurrency, prefetch and recycle budget:

* `TypesHold`: `Spec => []TypeOK`
* `OneOwner`: `Spec => []HeldOnce`
* `CountExact`: `Spec => []IdleExact`
* `DeadlinesJust`: `Spec => []ArmedCanRun`
* `BudgetKept`: `Spec => []RecycleDrains`

The invariant has four parts beside the types. `Owned`: a waiting request is in the channel
once or with one slot. `SlotsSound`: in the locals of a slot the requests are distinct, the
deadlines are those of the oldest `Concurrency` of them, and what is completed and pending
is within the budget. `Links`: the child of a slot has begun its pending requests in order,
and the rest, in the same order, is in the socket; no two slots serve one child. `IdleExact`
is inductive with the types. `ArmedCanRun` then is a count: the oldest `Concurrency` requests
are begun or there is a thread for them.

### AsyncLane

For any number of tasks, loops and io slots, any cap and window:

* `SlotsKept`: `Spec => []SlotKept`
* `WakeupsKept`: `Spec => []NoLostWakeup`
* `StampsAnswerable`: `Spec => []StampAnswerable`
* `ProgressIsProtected`: `Spec => []ProgressProtects`
* `RefusalsMeanStarvation`: `Spec => []RejectedOnlyIfStarved`

`SlotKept` needs that tokens are handed out in order and that a registered caller without an
answer has its slot (`SlotInv`). `NoLostWakeup` and `StampAnswerable` are inductive with the
types. `ProgressProtects` rests on `WatchHonest`, a watch that is up to date never says a
loop has been without progress for longer than it has, and `BeatHonest`, the same of the
counters read and not yet judged; ages that grow together keep their order
(`OlderMonotonic`). `RejectedOnlyIfStarved` is a pigeonhole: the tasks in all the lines are
distinct and unanswered (`LineInv`), their callers hold permits unless they left
(`StarvedInv`), and the cap is at least the number of permits, so in a full queue one of
them is somebody's who left.

### Fleet

For any finite set of slots, any permits, streams, batch, admission and fault bounds:

* `TypeCorrect`: `Spec => []TypeOK`
* `EntriesBounded`: `Spec => []AdmissionBounded`
* `FetchesFit`: `Spec => []FetchFits`, if there are at most as many streams as io slots
* `NoneLeftBehind`: `Spec => []NoOrphan`
* `ExitCodeHonest`: `Spec => []ExitHonest`
* `ForcedTakesTwo`: `Spec => []ForcedOnlyIfAskedTwice`

`AdmissionBounded` needs that a page asked for at most the free slots, a read for as much or
one entry per stream (`FetchedFits`, from the facts on division in `Division`), and that no
backlog exists before the pool is up (`Sound`); `NoOrphan` that every living process is a
child of the supervisor (`Tended`); `ExitHonest` that a bad end in the stop is in the exit
code already or still to be reaped (`DirtyKnown`). `ProcStep` summarises what a step of one
process may do, so that the supervisor's invariants are shown once for all of them.
`Requests` counts what may have signalled a process: the operator's requests, the death of
the supervisor and its giving up after a failed spawn.
`ForcedOnlyIfAskedTwice` needs an account of what was heard (`Asked`, `Told`): a signal at a
process, or a process that stops, takes one request; a process whose gap is over that has
another signal, or a supervisor about to forward one, takes two. It holds because the gap is
over only when nothing is left to forward (`GapOver`).

### Deadlines

For any workers and envelopes, lag, skew, lease, timeout, grace, backoff and countdowns:

* `ClocksBehind`: `Spec => []ClockBehind`
* `LeaseOutlivesTimeout`: `Spec => []LeaseOutlives`, if `Wait < Grace`
* `ExecutionsExclusive`: `Spec => []Exclusive`, if `Wait < Grace`
* `ExpiredLeavesKey`: `Spec => []ExpiredBurnsNoKey`
* `RetriesWait`: `Spec => RetryNotEarly`, an action property

`ClockInv`: an anchor is at most `Lag` behind its base and never ahead of it, and a reply
under way is at most `Lag` old. `LeaseInv`: from a claim that did not fail open to the end
of its timeout an attempt holds the key, and the lease ends later than that. It needs bodies
that start within the grace; an attempt kept to its backstop may end after its lease, which
is why it is stated for attempts in their time (`InTime`). `HolderLet`: whoever holds the key has passed the gates. `DelayInv`: an
envelope put off by a sound clock is dated half the least backoff from then at least. It
needs that a power of a factor of one or more is one or more for every exponent. `Pow` is a
recursive function, and the provers have no induction: that it satisfies its equations
(`PowEquations`) and is positive (`PowPositive`) is shown by the least counterexample.

### Beat

For any replicas, period, kind of schedule, lateness bound and fault bound:

* `TypesHold`: `Spec => []TypeOK`
* `LatenessHolds`: `Spec => []LatenessJudged`
* `FiredOnce`: `Spec => []FiredOncePerSlot`
* `SlotsAdvance`: `Spec => SlotAdvances`, an action property
* `FiringsKept`: `Spec => NoFiringLost`, an action property

The last three are about replicas of one release whose schedule nobody edits, as the
properties say (`edits = 0 /\ OneRelease`; see the observation on edits above for why).
`ReadInv` says what a replica has read when it acts on it. Under that hypothesis, every
replica past its reconciliation has read the one definition (`DefnInv`), a slot that is set
carries its fingerprint (`SlotInv`), so a stale seed changes nothing, and slots after the one
due are unpublished, the one due is published only by scripts that stopped, and the earlier
ones once more (`FiredInv`). `LatenessJudged` needs that `advance_past` returns a slot after
both its arguments with no slot of the schedule between it and the later one. `NoFiringLost`
needs the same of the time at which the claim is judged, which is older than the step
(`LateStays`).

### Only model-checked

Liveness, which is out of the prover's reach: `ImplementsLedger`, `OrphansRemoved`,
`DueSettled`, `SlotFollowsDefinition`, `QueueServed`, `AllAnswered`, `WedgeFound`, `StopEnds`
and `PauseEnds`. `TypeOK` of `Deadlines` documents the state; its invariant has the types
that the proofs need.

## Plan

Done: `TaskLedger`, `Delivery`, `Beat`, `SyncPool`, `CpuPool`, `Outcomes`, `AsyncLane`,
`Fleet` and `Deadlines`, and the proofs above. Left, in this order:

1. The safety behind `SlotFollowsDefinition`: which definitions a stored slot may carry the
   fingerprint of while replicas act on what they read before an edit.
2. `Reaper`: consumer names, XINFO then DELCONSUMER against a consumer that revives
   (`loops.rs` 353-419).
3. `SoftTimeout`: generations and the injection outside the lock (`_exec.py` 102-153).

## Not modelled

The consumer reaper and consumer names, the reset of the Redis dataset (NOGROUP), the
injection of soft timeouts, stdio mode of the cpu pool, expiry of results and dead letters.
Out of scope: parsing, encoding and formatting, the crontab calendar search, the
floating point backoff, command line and statistics, performance gates that only delay.
