# Formal models of moat

TLA+ specifications, model-checking configurations and machine-checked proofs for
[moat](../src/README.md), a chunk store built from a log-structured engine per disk and a
cache on top of it. Source paths below are relative to `src/core/`.

## The system

| Part | Source | State | Operations | What is hard about it |
|---|---|---|---|---|
| Pipeline | `moat-engine/src/pipeline/` | slots of pending operations, FIFO of writes, empty reads, one flush, one control request, index, reservations | `write`, `read`, `flush`, `poll`, `has_ready`, maintenance entry points | requests complete in any order; any request or the queue itself may fail; the owner sleeps between polls |
| Index | `pipeline/index.rs` | newest location of each key, tombstones included | `apply`, `entries`, lookup | frames are applied in acceptance order, LSNs need not agree with it |
| Engine | `moat-engine/src/engine/` | lifecycle state, used slots, active slot, one job | `open`, `write`, `read`, `flush`, `rollover`, `rollover_to`, `seal`, `close`, `poll` | a job is interleaved with data operations and shares their queue |
| Recovery | `engine/recovery.rs`, `segment/recovery.rs` | stage, slot, scan cursor, footer validator | one step per completed read | damaged pages anywhere, end-of-segment arithmetic |
| Segment and frame format | `moat-engine/src/segment/`, `frame/` | builder cursor, footer encoder | `position`, `append`, `seal`, `next_chunk` | space for a footer that grows with every frame |
| Layout and format | `engine/layout.rs`, `engine/device.rs` | two superblocks, epoch | `format`, `create`, `open` | a crash inside a format |
| I/O queues | `moat-engine/src/io/` | submitted and completed requests | `try_submit`, `poll`, `pop` | splitting, depth, shutdown with requests in flight |
| Session | `moat-server/src/storage/` | next LSN, leases, pools | `put`, `get`, `delete`, `flush` | LSNs after a restart |
| Server worker, node | `moat-server/src/worker.rs`, `node.rs` | sessions of the owned disks, stop flag | poll every disk, run the handler, drain and seal at the end | requests the handler makes while it is being stopped |
| Cache store | `moat-cache-store/src/` | per-key chains, ready queue, fences, budget, delivery queue | `get`, `put`, `delete`, `inventory`, `flush`, `close`, worker loop | coalescing, fences, credits, a worker that ends early |
| Hybrid cache | `moat-cache/src/` | registry of leases and generations, catalog, scheduler | `lookup`, `insert`, `populate`, `invalidate`, `flush`, `close`, eviction | stale promotion, waiters, reservations |
| Memory cache | `moat-cache-memory/src/` | shards, policy queues, handle counts | `prepare`/`commit`, `get`, `remove`, `clear`, `resize`, clone and drop of a handle | concurrent release and replacement |
| Buffer pool | `moat-common/src/pool.rs`, `arena.rs` | free lists, parked blocks, returned stack | `alloc`, drop on any thread | buddies merged while other threads return blocks |

How they interact: a server worker or a cache-store worker owns a Session, which owns an
Engine, which owns a Pipeline, which owns a queue over one device. Each of these is
single-threaded and driven by `poll`; concurrency enters from the device below (any
completion order, errors) and from the channels above. The hybrid cache is used by any number
of threads at once: it looks into the memory cache, then reads from the cache store, and its
mutations run on one coordinator thread.

What the whole must keep: a completed write is what later reads return; a reported flush
survives a power failure; recovery finds exactly a prefix of what was accepted; the cache
never serves what a later mutation replaced; a buffer has one owner; every accepted operation
gets one outcome; nothing waits for ever.

## Modules

| Module | Models | Kind |
|---|---|---|
| `Index` | `pipeline/index.rs`: what applying a frame does to the map | operators |
| `OrderedStore` | what the pipeline promises its callers | abstract specification |
| `Pipeline` | `pipeline/`: admission, slots, every phase of `poll`, retirement, flush, control request, queue failure | component |
| `Engine` | `engine/mod.rs`, `lifecycle.rs`: the jobs, `drive_job`, `poll` | composition: extends `Pipeline` |
| `Segment` | `segment/`: builder, footer, trailer and scanner arithmetic in bytes | operators |
| `Recovery` | `engine/recovery.rs`, `segment/recovery.rs`: the staged open | component |
| `Durability` | the order of device writes and syncs of format, writes, jobs and recovery, with crashes; LSNs of the session | composition seen from the device |
| `StoreWorker` | `moat-cache-store/src/` except delivery: admission, budget, chains, fences, the worker's loop and end | component over the session's contract |
| `Delivery` | `moat-cache-store/src/delivery.rs`: producer, driver task, fallback | component |
| `Catalog` | `moat-cache/src/catalog.rs`: the catalog of one disk, its victims and reservations | operators |
| `HybridState` | the same sources as `HybridCache`: its state, the registry's operations, requests to the store and their answers | operators |
| `HybridCache` | `moat-cache/src/cache.rs`, `registry.rs`, `scheduler.rs`: lookups, mutations, fences, the coordinator, on the catalog, the memory cache and the store | composition |
| `MemoryPolicy` | `moat-cache-memory/src/policy.rs`: the queues of the five replacement policies | operators |
| `MemoryCache` | `moat-cache-memory/src/cache.rs`, `entry.rs`: shards, handles, resizing | component |
| `BufferPool` | `moat-common/src/pool.rs`: buddy allocator, return stack | component |
| `UringQueue` | `moat-engine/src/io/uring.rs`, `uring/transfer.rs` and the kernel's side of the ring | composition: extends `BufferPool` |
| `MCPipeline`, `MCEngine`, `MCRecovery`, `MCDurability`, `MCStoreWorker`, `MCHybridCache`, `MCMemoryCache`, `MCUringQueue` | bounds and small constants | model checking |
| `PipelineProofs` | the inductive invariant of `Pipeline`, preservation by every action, and its theorems: tickets, order, flushes, the index, `OrderedStore` | proofs |
| `PipelineResources` | theorems about what `Pipeline` shares out: the queue, the chance to run, reservations | proofs |
| `EngineProofs` | `Engine` implements `Pipeline`; its slots, seals and close | proofs |
| `HybridInvariant` | the inductive invariant of `HybridCache` and the effects its steps can have | definitions for the proofs |
| `HybridCalls` | the order of jobs, memory and fills, and the registry are kept by every effect | proofs |
| `HybridSteps` | the steps of jobs, lookups and callers have these effects; facts about `Catalog` | proofs |
| `HybridStore` | locks, requests, answers, catalog, disk and types are kept by every effect | proofs |
| `HybridProofs` | the other steps, the initial states, the theorems about `HybridCache` | proofs |
| `DeliveryProofs` | the order of delivery, with its inductive invariant | proofs |

### Pipeline

`slots`, `io`, `writes`, `ready_reads`, `flush`, `control`, `segment`, `failed_at`,
`queue_failed`, `pending_entries`, `pending_new` and `index` are the fields of
`Pipeline<Q>`; `io[t]` is the state of the request with token `t` inside the queue. A
frame is the sequence of its index entries: payload, extents and buffers do not influence
control. `poll` is one action per phase and iteration (`pc` is the position in it), because
the device completes requests while it runs: retire, start the flush, complete empty reads,
start the control request, poll the queue, reap, retire and flush again; or, once the queue
has failed, `retire_failed`. `outcome` (what was accepted under each ticket and how it
ended) and `restored` are history variables.

### Engine

Every action of `Engine` contains an action of `Pipeline` or leaves the pipeline unchanged;
`ImplementsPipeline` checks that the composition uses the entry points only where `Pipeline`
allows it. `phase` and `turn` follow `Engine::poll`: `drive_job`, `Pipeline::poll`,
`drive_job`. What a read during Open returns is chosen freely here and exactly in `Recovery`.

### Segment and Recovery

`Segment` keeps the code's units (bytes, 4096-byte pages, 64-byte trailer), since the
interesting errors are off by one page. In `Recovery`, before each slot is read its past is
played: a builder fills it with frames of any shape, perhaps seals it chunk by chunk, and
then any one frame and any of the other pages may be damaged. Decoding is modelled by its
outcome (ok, torn, lost, unsupported, foreign, older). `owner` is who opens the device: a
device shorter than the layout says, or an owner whose routing metadata or frame buffers are
too small for it, is refused before any slot is read. The staged machine is compared with
a declarative reference: which frames a slot holds, and whether it must be refused.

### Durability

`cached` is what readers of the device see, `durable` what survives a power failure,
`flight` and `barrier` the requests in the queue. A stop of the process keeps `cached`; a
power failure keeps, for each area written since its last sync, the old or the new content,
or for areas of more than one sector a torn one. Assumptions about the device: a 512-byte
sector is written atomically (superblock, allocation header and trailer fit in one); a
request in flight at a crash either takes effect or does not; a sync that fails guarantees
nothing and takes nothing away from a later one. A fresh random device identity is modelled
as an epoch never used before. `reported` and `promised` are histories that an open never takes
back: the greatest LSN of the format whose record was reported written, or durable; a power
failure lowers the first to the second, since a write that no flush covered may be lost. With syncs disabled only stops of the process are considered:
the code promises no more.

### StoreWorker and Delivery

`StoreWorker` is the store of one disk. A request is its position in `sent`; `active`,
`pending` and `ready` are the worker's chains, `fence`, `close_reply` and `write_error` its
fields, and `pc`, `turns` and `progress` the position in `run`: receive, start every ready
chain, then poll, complete, advance the fence, and again. The session is modelled by what
`Session` promises (external to the module): any start may be refused or find it busy, reads
complete in any order, writes in order, after a failed write all later ones fail, and the
queue may fail altogether. `outbox` is the order in which completions are handed over;
`Delivery` models how they get there. Simplifications, each of which only merges steps:
reserving in several counters is one step (a half-finished reservation can only cause a Busy
or a retry, which the model has anyway); a rejected submission leaves no trace; `closing` is
folded into `FenceClose`, because empty chains mean nothing is in flight. `PollErrors` allows
`Session::poll` to return an error: the worker handles it, although today's pipeline reports
every failure as a completion.

`Delivery` has one step per lock section and per action run. `AtomicWaker` is its contract:
a wake schedules the task if a waker is registered, and takes it.

### HybridCache and Catalog

A value is the number of the operation that wrote it, so that old and new can be told apart;
`ops` is the history of admitted mutations and fences with the phase each is in. An action is
one critical section, or the stretch of a job between two awaits; a lookup's program counter
follows `Cache::lookup`, and it can be dropped wherever it awaits. `registry[k]` exists while
somebody holds a lease on `k`; its generation starts again at zero afterwards, as in the code.
Jobs run on one thread: from the answer of a put to the end of the job (publish, release,
finish) nothing else runs there. The store answers each chunk's requests in the order they
were made, which is what `StoreWorker` shows, and may fail any of them; `log` is the append
space that the engine has left, segment by segment, so that the headroom rule of
`Catalog::write` is checked against what the log really has room for. The memory cache is
here only what the hybrid cache relies on: any entry may go at any time, and a commit or a
promotion may be refused. The lengths are those of encoded values; a frame of length `n`
takes `n` units of a segment and `write_cost` keeps the code's form, twice that and a little.

### MemoryCache and MemoryPolicy

An action is what happens under one shard lock, or one change of an atomic. The last handle's
drop is two actions, the count and `Inner::release`, between which other threads may look the
version up, clone, replace or remove it. Each policy is modelled with its queues, hand,
frequencies and ghosts; TinyLFU's sketch is a free choice wherever two estimates are compared.
A version that has left never comes back, so its handles are no longer counted. Prepare and
commit are one action: what prepare does is private to its caller.

### BufferPool and UringQueue

Sizes are in pages. `buddies` has the linked and the parked blocks of each arena; `returned` is
the stack that other threads push on, with the load of its head and the compare-and-swap as
separate steps. `UringQueue` extends it, since the question is about both: what the queue and
the kernel hold is not handed out, and what comes back is handed out again. `live` is what the
kernel works on; it takes any number of the staged parts, finishes them in any order, in full,
short or with an error, and goes on after a poll has failed, be it in the system call or before,
when the notification descriptor cannot be read. `Drop` drains, cancels, or
forgets the buffers if it can do neither. Cancelling is assumed to be what io_uring says it
is: when it succeeds the kernel no longer touches the buffers.

## Runs

| Run | Question | Bounds |
|---|---|---|
| `pipeline` | Under any completion order and failure: are writes published as a prefix, flushes barriers, the index newest and within its reservations? Does no poll sleep on work? Does the pipeline implement `OrderedStore`? | 3 slots, 2 keys, 4 tickets, where a read counts as two tickets and a restored entry as one; no lifecycle tickets, which `engine` has |
| `engine` | Are jobs and data operations interleaved safely in the queue they share, slots allocated once, and is a closed engine drained? | 2 slots, 2 segments, 1 key, 4 tickets with at most 1 read, a restored entry counting as a ticket |
| `engine_live` | Does every job finish and every ticket get an outcome when the owner polls only if `has_ready` or the descriptor tells it to? | 2 slots, 1 segment, 3 tickets |
| `recovery` | Does the staged recovery equal the reference, for every filling and every damage? | 2 slots of 6 pages, 3 shapes of frames; an owner with exactly the resources needed, and three that lack one |
| `durability` | After any two crashes, also inside a format, does recovery succeed and find a prefix that holds all that was reported? Is no reported LSN handed out again, and no place written twice? | 2 slots of 2 frames; 3 LSNs, 3 sessions and 1 device error, or no syncs and no error, or 2 formats and 1 LSN |
| `store` | Is every key served in admission order, is a fence a barrier, does a flush report failures, do credits balance? | 2 keys, 3 requests of 8 kinds, credit for one read, one command per turn |
| `store_live` | Is every admitted request answered, also when the session's poll fails, the store is closed or its last handle goes? | 1 key, 3 requests (reads, puts, flushes, closes); credit for a read beside all puts |
| `store_stall` | The same with credit for either a read or a put: violated, see Findings | 1 key, 2 requests |
| `hybrid` | Is nothing stale served or kept, do fills lose to mutations, do jobs and fences keep their order, does the catalog match the disk and its limits, and is nobody left waiting? | 2 keys in 2 chunks or 1; recovered values of length 1, written ones of 2 and tombstones of 1 in segments of 3, so that a frame may or may not fit behind the last; 2 operations, 1 caller that looks up twice, 1 error; disks that are empty with a short log, full, or over their limits |
| `memory` | Are exactly the held versions out of eviction's reach, do budgets hold and agree, is every loss announced once? | 5 policies, 3 versions of 2 keys in one shard and a second shard that is only resized, 2 handles and 2 releases under way for each version, 2 resizes |
| `buffers` | Has every page one owner, does the kernel touch only what its request holds, are refusals genuine, does each request come back once with the result of its parts? | 4 pages in 1 or 2 arenas, 5 allocations, 2 other threads, depth 2, 2 requests of up to 2 parts |
| `delivery` | Is every completion delivered, once and in order, whenever the executor gives the driver up? | 4 actions in any batches |

Why the bounds suffice: an ordering error needs one write that is slow, one that is fast and
a flush or a third write (three slots); starvation and overfilling need a full queue, which
two slots give; a lost slot needs a second allocation; a recovery error at the end of a
segment needs fillings whose last frame touches the footer, and the three shapes reach every
remainder of free pages; a stale frame needs a crash after a crash; joining, chaining and a
fence behind them need three requests; a stale promotion or fill needs one lookup between
the steps of one mutation, and a queue of jobs or a wait for a reservation needs two; a lost
release needs a drop overtaken by a lookup and a second drop; a double owner needs a split, a
merge and a block under way on the stack, and a lost block two threads that push at once.

Where the bounds leave something out: in `hybrid` two lookups never overlap, so that two
callers waiting for the same key at once are not reached; in `memory` no two shards hold
versions at the same time, and two overlapping releases of a version are not explored together
with a resize; in `buffers` a state with a request and more than two allocations,
or with two requests and small arenas or a block in the hands of another thread, is checked but not explored
further. `pipeline` and `engine` use the symmetry of slots, `memory` that of keys and of
resizers, `buffers` that of threads; the runs for liveness use none. Deadlock is checked except where the system may stop: in `durability`
(sessions and crashes are bounded), `store` and `delivery` (they stop when closed), `hybrid`,
`memory` and `buffers` (callers may stop calling). For `hybrid` `NothingStranded` says more
than the absence of deadlock: when nothing can go on by itself, nobody waits.

Every property of every passing run has a mutant: a small change of a mapped definition,
such as a dropped guard or an off-by-one, that makes the property fail under the same
configuration.

### Fairness

`EngineFairness` asks that the owner calls `poll` while it is `Notified`, that `poll`, once
called, runs to its end, and that the device answers every request it was given, with success
or an error. `Notified` is the least an owner does that sleeps on the queue's descriptor: it
polls when `has_ready` says so ("poll again before waiting on a descriptor", its comment), when
a request in the queue will signal the descriptor, and when it has just submitted a flush. The
workers of this repository poll more often. Nothing is assumed of callers, and neither success of I/O nor an order of completions.

`Fairness` of `StoreWorker` asks that the worker's thread runs, that handed-over completions
are run (`Delivery` shows it), that callers drop the chunks they reserved no retention for,
and, strongly, that the session is not busy or silent for ever (the liveness of `Engine`).
Chunks with a retention may be kept for ever. `Delivery` asks that the worker flushes what
it pushed and that the executor polls a woken task; it may drop the task at any time.

## Proofs

Each theorem holds for every value of the constants. The assumptions, which every run evaluates,
are `PipelineAssumption` (finite sets of slots and keys, tokens distinct from slots, frames that
are not empty, positive limits), `EngineAssumption` (at least one segment) and
`HybridAssumption` (finite sets of keys, chunks and lookups, limits that are natural numbers, a
disk that maps each key to a chunk); all three also say that `None` is none of the values it is
used beside. `Delivery` needs no assumption.

| Module | Theorems | Inductive invariant |
|---|---|---|
| `PipelineProofs` | `TypeCorrect`, `TicketsAccounted`, `PublicationIsPrefix`, `FlushIsBarrier`, `CompletionsInOrder`, `SyncFollowsWrites`, `IndexHoldsNewest`, `Refinement` | `Inv` |
| `PipelineResources` | `QueueIsSound`, `ControlGetsItsPlace`, `NeverSleepsOnWork`, `ReservationsKept` | `Inv` with `QueueInv`, `WorkInv`, `ReserveInv` |
| `EngineProofs` | `EngineImplementsPipeline`, `AttachIsFresh`, `SealsArePublished`, `CloseDrains`, `EngineQueueSound`, `EngineControlNotStarved` | `Inv`, `QueueInv` and `EngineInv` |
| `HybridProofs` | `JobsInOrder`, `MemoryIsFresh`, `LookupsAreFresh`, `CatalogFollowsStore` | `HybridInv` |
| `DeliveryProofs` | `DeliveryInOrder` | `DeliveryInv` |

### Pipeline

`PrefixPublication` is not inductive: publishing the head of the FIFO is safe only because the
FIFO holds exactly the pending writes in ticket order (`WriteQueue`), every completed write
precedes every pending one (`CompletedFirst`), and a failure known to any slot or outcome is
already in `failed_at` with a lower bound of the failed tickets (`FailureKnown`). A flush is a
barrier because while its sync is in the queue no write is pending (`FlushSlot`), with which
`AllPublished` derives that every accepted write succeeded. `IdleSlots` ties slots to requests
in the queue, so that a completion always meets its operation.

Every step is one of four kinds, each with a lemma: it leaves operations alone (`QuietStep`),
accepts one (`AcceptStep`), changes the stage of one (`StageStep`), or completes one
(`CompleteStep`). The lemma of an action combines one of these with the conjuncts that are
special to it. The refinement (`ops <- outcome`, `view <- index`) reuses `Inv`: `FailureKnown`
gives the abstract guards of acceptance, `HeadFacts` those of publication.

`QueueInv` is why a flush, admitted long before its sync is submitted, always finds a place:
what an operation waits for follows from its kind, the control request is in the queue exactly
while it is active, and it is queued only when no write or flush is pending. `WorkInv` is about the
one kind of work that `has_ready` does not show, a flush whose turn has come: past the flush
phases of `poll` it has been submitted. `ReserveInv` states the two counters as sums over the
pending writes and, in `Covered`, that the reservation of a pending write covers every key it
would add to the index: a frame admitted long ago still fits when it is published.

### Engine

`EngineInv` has four parts. `JobInv`: a job exists exactly while the pipeline is under
maintenance, and a control request belongs to a job that waits for it. `DrainInv`: past its
`Drain` stage a job meets no pending write or flush, and a close nothing at all. `SlotInv`: the
slot of a rollover is not used before it is allocated, and not attached before the job ends.
`SealInv`: an active segment is attached and not sealed, so no frame is added to a sealed one.
`StepEffect` reduces `drive_job` to the pairs of stage and progress in `Moved`, and every pair is
shown to keep each part. `EngineImplementsPipeline` then carries the theorems on `Pipeline` over: `EngineQueueSound` and
`EngineControlNotStarved` follow from it in a line.

### HybridCache

None of the four properties is inductive, and none has an invariant of its own: that memory is
fresh depends on what was read from the disk, which depends on the order of jobs, on the control
lock and on the catalog. `HybridInv` has these parts.

* Registry: leases and pending mutations of a key are counted by those who hold them
  (`LeaseInv`; `Counted` says so by numbering the holders, which a step extends or shortens by
  one, so that no cardinality is needed); while somebody holds the key no generation is given twice, so a lookup that finds
  its generation unchanged has seen no mutation begin (`GenerationInv`).
* Coordinator: the channel is taken in order, each chunk's queue holds its waiting jobs in order
  behind a running one, a failure is remembered until a fence reports it (`PhaseInv`,
  `IntakeInv`, `QueueInv`, `FailureInv`).
* Locks: who evicts, waits or invalidates holds the control lock; a slot is written by its
  chunk's running job and evicted only when it is not (`ControlInv`, `ClaimInv`).
* Store: every request in a chain has its one waiting owner, a deletion names the version of the
  slot, and an answer still holds when it is heard (`ChainInv`, `ReplyInv`). The catalog agrees
  with the disk except where an answer on its way will tell it (`TrackInv`); therefore a
  conditional deletion never finds another version (`NoneCorrupt`).
* Freshness: what is on the disk was written by a mutation behind which none has succeeded
  (`DiskInv`); what a lookup has read is that or is gone, and the catalog tells it which
  (`ReadInv`); what is in memory is not behind any mutation that may have reached the disk
  (`MemoryInv`); the floor of a lookup is a mutation answered with success (`FloorInv`).

Each action implies one *effect*, a predicate that says what it changes in the terms of the
invariant (a job begins, asks, hears, ends; a lookup moves; the store serves a request; and so
on). `Stepping` is their disjunction, and each part of `HybridInv` is proved to be kept by
`Stepping`, one effect after the other. Only `HybridSteps` and `HybridProofs` see the actions; the
preservation of the parts is about the state (`HybridState`) and the effects. The proof covers what the run leaves out: lookups of one
key that overlap, and any number of keys in one chunk.

### Delivery

`Turns` says who may take batches: the driver while it lives, then the one thread that set
`draining`; two threads with a batch each would break the order. `InPlace` says where every
action is: the delivered ones, the batch being run, each flushed batch and the pending ones are
consecutive stretches of the numbers in which actions were pushed. It is stated by where each
stretch begins, since what the concatenation of a sequence of batches contains would need
induction.

### Only model-checked

* Liveness (`engine_live`, `store_live`, `AllDelivered`) and `NothingStranded`, which is about
  what is enabled: outside the prover's logic.
* `CatalogBounded`: it needs sums over the catalog's slots and reservations through evictions
  of several slots, which `HybridInv` does not keep.
* `Recovery`, `Durability` and `StoreWorker`: no proofs yet.
* `MemoryPolicy`, `MemoryCache`, `BufferPool` and `UringQueue` are written with recursive
  operators (eviction loops, merging), about which the prover cannot reason.

The library's induction theorems cannot be instantiated by the provers at hand. Where a fact
needs induction (sums, sequences of unbounded length, the two rounds of SIEVE in
`Sweep`), the proof takes a least counterexample, whose existence `LeastNatural` and
`LeastFiniteSet` provide. Most leaves are first-order and set reasoning, so each proof module
makes Zenon its default prover; the leaves that need arithmetic or sequences name `SMT`.

## Findings

`store_stall`: a read is admitted without byte credit and takes it when it starts, a put is
charged when it is admitted. Puts admitted after a read can hold all of `max_bytes` while
they wait behind it, in its chain or behind a fence that waits for that chain. The worker
then retries the read for ever: the credit it needs is held by requests that wait for it.
Dropping the read's future resolves it; nothing else does. `budget.rs:150` says that
saturation delays such a read, and `docs/design/cache-store.md:9` that it waits for credit at
dispatch. Retention has a headroom for this (`Permit::retain`), queued puts have none.

## Behaviour worth knowing

Met while modelling; all of it is in the models.

* The next session starts at the greatest recovered LSN plus one. A record that was reported
  written, and lost because power failed before a flush covered it, has its LSN handed out
  again, and so has one that was never reported. A caller that remembers LSNs across a power
  failure may rely only on those that a flush, seal, rollover or close has covered.
* A poll that sees the queue fail while the engine is `Closing` sets the state to `Failed`.
* `rollover` and `rollover_to` use up a ticket also when they are refused.
* Sealing with nothing active reports success without a sync; a close after a failed write
  does not seal the active segment and reports success.
* A flush that fails between two segments is noticed by a rollover only at its last step,
  after it has allocated a slot, which stays used.
* Reads are admitted while a lifecycle job runs, but never take the last place of the queue
  while the job's request waits for one.
* The segment header must be synced before the first frame: a header lost behind surviving
  frames would let the next open allocate the slot again with the same generation.
* A lookup that waits for mutations of its key is woken by the last of them, also when a
  listener of the memory cache panics: the job unwinds, its caller hears `Closed`, and no
  fence reports it, although the value is on the disk.
* A write that waits for append headroom keeps the disk's control lock; invalidations and
  other writes of that disk wait with it, and only a write in flight can end the wait.
* Under LRU an insertion into a shard full of held versions is itself rejected.
* When the kernel can neither drain nor cancel, dropping the io_uring queue leaks the buffers
  of unfinished requests; the pool counts them as in use from then on.

## Not modelled

* Byte encodings and checksums of frames, headers, footers and cache envelopes: pure
  functions without state, which the models replace by the outcomes of decoding.
* `FileQueue`: it performs each request when it is submitted; `Pipeline` allows that order.
* The lease that keeps two sessions off one disk, the usage counters, and the key-byte budget
  of the registry: single counters whose refusals the models have already.
* The two counters of the store's budget as separate steps, and fences over several disks: the
  gates of all disks are taken before any fence is sent.
* The server's worker and node: one thread polls its sessions in turn, calls a handler that the
  application supplies, and at the end drains and seals each session. What it does to a session
  is what any owner may do, which `Engine` allows; its own errors end it at once, and sessions
  it has not sealed by then are left as after a crash. Placement is a pure hash and
  `storage/device.rs` device I/O.
* `bytes.rs`, `view.rs` and `arena.rs`: ownership of memory that Rust's types establish.
* Benchmarks and tools.
