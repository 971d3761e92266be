# Verification of OverlayBD-Elio

TLA+ models of OverlayBD-Elio, a user-space block device that serves a layered
container image over ublk and loads it lazily from a registry. The reference is
the code under `src/src/`; paths below are relative to that directory.

`PROJECT.json` holds the machine-readable side: which lines each definition
models (`map`), the TLC runs, the mutant that each property must detect, the
hazards with their lines and the theorems.

To repeat a check: `tlc -config <cfg> <module>` for a run, `tlapm <module>.tla`
for a module whose name ends in `Proofs`.

## 1. The system

One `obd-device` process serves one block device; `obd-supervisor` starts,
watches and reaps these processes. Inside a device process the work is done by
C++20 coroutines on the workers of the Elio runtime, with a few dedicated
threads. A guest request takes this path:

    kernel (ublk driver)
      -> ublk/queue, tag_engine, elio_bridge    one owner coroutine per queue
      -> format/merged_writable                 upper layer over the lowers
           -> format/lsmt_rw, hybrid_*, sparse_rw   the three writable uppers
      -> format/lsmt, zfile                     index lookup, decompression
      -> source/layer_store                     local sparse copy of a layer
      -> source/admission                       guest reads before scavengers
      -> source/registry (optionally via DART)  HTTP range reads with tokens

Beside it stand the startup and release of the ublk device (`ublk/device`,
`startup_control`), the control channel with its trace and resize commands
(`supervisor/device_control`, `image/trace_record`), and the supervisor.

| Component | State it keeps | What is hard | What makes it correct |
|---|---|---|---|
| `source/admission` | in-flight counters, AIMD window, two FIFO queues of waiters | a slot is reserved for a waiter under the lock and its event set after it; the waiter may meanwhile time out or throw | slots conserved, no lost wake-up, scavengers yield, bounded waits end |
| `source/layer_store` | state, staging and commit files, sidecar records, presence counter, generation, verified cache, write-behind queue, in-flight map, fill and its events | lock-free hot path beside a restart; crash between any two file operations; damaged disk; wrong remote bytes | only remote bytes are returned, the commit file is the blob, nothing of an old attempt reaches the new one |
| `source/registry` | token cache with generations, single-flight exchanges, resolved URLs | concurrent refusals, a leader that fails or is cancelled, a stale URL stored late | a refused token is not sent again, every read returns |
| `ublk/queue`, `tag_engine`, `elio_bridge` | ring, per-tag command, handler frames, mailbox, batch, ledger | wake-ups through one eventfd, a foreign worker's publication, partial submits, STOP against FETCH | one user per buffer, replies owed and honest, retirement means it, a stop ends |
| `ublk/device`, `startup_control`, `ctrl` | startup phase and snapshot, release word, owned device id | release requests against ready, failed recovery of a live kernel device, STOP and DEL once | an accepted release is answered, a retained device is not deleted |
| `supervisor/child`, `daemon` | registry of entries, child generation, protection, grant, committing and destroying marks, active command | EOF is not exit, exit is not reap; respawn against commit and destroy; late replies | one owner of an upper, no stray device, a reply goes to its command |
| `supervisor/device_control`, `image/trace_record`, `cmd` | recorder, timer, resize gate, shutdown order | stop, expiry, a new start and the shutdown meet | records kept, no grow after the checkpoint, the shutdown ends |
| `format/lsmt_rw*`, `merged_writable` | data and index files, intents, merged snapshot | an exit at every step of a two-file change; readers without a lock | acknowledged contents survive, the pair reopens, reads are current |
| `format/hybrid_*` | the same with progress, anchor and intent stamps | power loss that reorders what was not synchronised | a FLUSH survives, the pair reopens |
| `format/sparse_rw` | one sparse file whose extents are the index | a failed or interrupted copy-up; export of a live-looking file | the extents give the view back, an export is exact |

## 2. Status

Modelled: the admission funnel, the layer store, the queue owner, the registry
client, the LSMT, Hybrid and sparse uppers with the merged view, the supervisor
with its children, the startup and release of a device, the control loop with
trace recorder and resize. `components` in `PROJECT.json` says of each whether
it is modelled whole or in part; section 8 lists what is left out and why.

## 3. Modules

Each module keeps the names of the code where TLA+ allows it. A section under a
mutex is one step; an atomic load, store or exchange outside one is a step; a
file operation is a step; a coroutine is interleaved where it awaits. Every
bound is a constant named `Max...`, `Faults` or a set constant of the module.
The definitions named as mutants in the modules are plausible bugs of the
definition that follows them; no specification uses them.

### Admission, SlotGate

`Admission` models `AdmissionFunnel` (`source/admission.cpp`): on-demand reads
enter at once; scavengers (prefetch, fill) enter within the AIMD window and only
while no on-demand read is in flight, else they queue. `admit_locked` is stepped
waiter by waiter while the lock is held; the deferred `event.set()` calls after
the unlock are steps of their own. A bounded wait can end by timeout or
exception at any point, and `Reconcile`, `Withdraw` and `Unwind` are what the
code then does with a slot reserved meanwhile. `SlotGate` says what the funnel
promises: a set of slot holders that scavengers join only below the limit and
never beside an on-demand read. `ImplementsGate` is the refinement.

### LayerStore, LayerFetch, LayerFill

`LayerStore`: reads, warm-ups and the writer thread of one layer with its
directory. The bytes of an extent are `good`, `bad` (wrong, from the remote),
`rot` (damaged on disk, torn and lost writes included) or `hole`. A CRC is the
bytes it was computed from, and the sha256 matches when every extent is good.
`Reopen` is a crash at any step followed by `open`, which sees only the files.

`LayerFetch`: `join_or_fetch` with one flight per extent, joiners, and the
second look a scavenger takes after waiting for admission. Admission is the
abstract `SlotGate`, so what is shown here holds of the real funnel through the
refinement.

`LayerFill`: `run_fill` with its two manual-reset events, the writer's
signalling, and `stop_fill`/`park_fill`. A demoting reader takes the steps of
`pread`: the exchange of the record, the subtraction from `present_`, and the
clear job, with everything else in between. Entries of the queue are writes or
clear jobs, and only writes take room.

In `LayerStore` a local read error is returned to the reader, and a read-back
that fails counts as a digest mismatch. `Rot` spares the commit file and what is
verified and about to be renamed: nothing reads those bytes back, so damage
there reaches the guest (section 8).

### Registry

Reads that share a token cache and a URL cache. A token is its serial number at
the server; `generation` is the client's count. A flight is named by its leader.
`Revoke` stands for revocation and for the end of the declared lifetime, which
is later than the client's refresh deadline of 80 %. A clock of a few ticks
decides which deadline passes first. All URLs have one token key.

### QueueOwner

One ublk queue: ring, owner coroutine, tag handlers, mailbox, driver, and the
parts of `Device` that publish, stop and release it. Owner and handlers share a
worker and alternate only where the owner suspends; a handler whose return to
that worker fails finishes on a foreign one in the steps of its guard. Raising
`handler_failed` lets the owner start the tag anew, so a new frame of a tag may
run while the old one has yet to announce its result and to wake the owner;
`leaving` counts those. A command is its place: prepared, issued, deferred work,
or completion queue.

### Segments, LsmtPair, MergedWritable

`Segments` has the mapping algebra the writable layers share: replaying a log,
cutting a range out of a live index, merging over the lowers. `LsmtPair` is the
data file and its log of mappings from creation or migration to the offline
seal; `MergedWritable` composes it with the device view and its readers, who
hold no lock between choosing a snapshot and reading the payload it names.

The model is of process exits, which keep every completed file operation, so
`fdatasync` and FLUSH change nothing and appear only by their failures. A short
payload write leaves a ragged data file, after which compaction and growth fail
until the pair is reopened, as in the code. The live process never seals;
`obd_device_main.cpp` calls `checkpoint`, and `seal_file` runs offline.

### HybridPair

The data file, the mapping log, the progress attribute of the log, the anchor of
the last FLUSH in the data file, and the intent of growth and seal. Power loss
keeps what was synchronised and any part of the rest, independently. A checksum
is represented by the records it vouches for; the bytes that seal appends are
one step, with no partial append; a FLUSH that has nothing to cover is left out.

### SparseUpper

The extent-owned sparse file under a merged view, and its offline export. A
block is a hole (inherited), an unwritten extent (zeroes) or data. `op_mu_`
makes it one operation at a time; within one, each 4 KiB block is a step, and
the process may exit or the step fail there. 4 KiB writes are all or nothing:
the buffer is page aligned and a file-size limit is rejected beforehand. Exits
are of the process; the page cache lives on. Growth is one step, since an exit
right after `ftruncate` equals a growth followed by an exit. The repair inside
`write_extents` is never needed on the merged path (`StartKeeps` in the proofs),
and the export's staging file has no effect of its own.

### Supervisor

One device id: registry entries, children and their processes, client handlers
(create, destroy, commit, forwarded commands), the monitor, the reaper and the
shutdown stages. Each `mu_` section is a step, `op_mu` a lock held across steps.
A device process shows its parent what `obd_device_main.cpp` does. The choices
a request makes are taken when they first matter (whether `mkfs` is asked for);
a phase is reported once, and the initial one never, as it changes nothing; only
the lowest idle client takes the next request, since clients are alike. When the
bound on processes is reached, spawning fails, which the code handles anyway.
`list`, `status` and `hello` only read. A refused request is not a step.

### DeviceStartup

The release mailbox, the startup owner, the queues as it sees them, the startup
socket and the parent's judgement of the reports. Errnos become "there is one",
counts of raw commands a flag. A snapshot is read in one step: a torn read
equals the projection of an adjacent instant. Publishing an unchanged snapshot
takes no new revision. The loads of the two halves of the release word are one
step. The startup deadline may pass at any read. A revision may step back by one
between closing and publishing, and the parent ignores it, as in the code. A
failed DEL makes the automatic release retry for ever by design; the model has
at most one such failure.

### TraceControl

A serving device: recorder and duration timers, the control loop, the resize
gate, the shutdown order of `device_main`, and the trace status the supervisor
derives from the lines it gets. A trace blob is the number of reads in it. An
expiry line that arrives before the reply to `trace_start` is ignored by the
supervisor, and the later reply leaves `recording` standing; the model has this
and no property forbids it. A resize that asks for less than the header, after a
failed one, is refused. When recordings run out, opening the output fails.

### Proof modules and MC modules

The modules whose names end in `Proofs` are described in section 6. A module
`MCx` gives the constants of `x` their values for TLC.

## 4. Runs

| Run | Instance | What it checks |
|---|---|---|
| `admission` | an on-demand reader, a prefetcher, a client of both scavenger classes; window 0..2 | the inductive invariant (accounting, no lost wake-up, tracked waiters, controller bounds), the refinement of `SlotGate`; bounded waits end; scavengers are served once guests are quiet |
| `layer_store` | 1 extent, reader and warm-up, all write errors, 1 wrong fetch, 1 disk damage, 1 crash | the bytes of reads and of the commit file, generations, the verified cache |
| `layer_fetch` | 2 guests, 1 warm-up, 1 extent | one fetch per extent; guests return although the scavengers' gate stays shut |
| `layer_fill` | 2 extents, queue of 1, 1 reader, 1 demotion or dropped write | no lost signal; the fill ends, undisturbed or parked, unless the layer is miscounted (section 7, item 2) |
| `queue` | 2 tags, CQ turn of 2, 2 requests, 1 fault of any kind | buffers, replies, ledger, events; a stop ends (but for section 7, item 6) |
| `registry` | 2 readers, 1 URL in every serving mode, 2 attempts, 2 revocations, 1 fault or cancellation, 1 clock tick | a token refused in this read's data requests or in this attempt's discovery stays unused; reads return |
| `writable` | 3 sectors growing to 4, 2 mutations, 1 failure, 1 exit, 1 reader | contents survive an exit, the files reopen, reads are current |
| `hybrid` | 2 sectors, 2 operations, 1 failure, 1 exit, 1 power loss | writes survive exits, a FLUSH survives power loss, the pair reopens |
| `sparse` | 3 blocks of 2 sectors over lowers of 2, 3 mutations, 2 failures, exits anywhere | extents suffice, the view is what a reopen shows, exports are exact |
| `supervisor` | 1 id, 2 clients, 2 entries, 2 processes, 1 recovery, 3 disturbances | one owner of the upper, no stray device, replies are own; shutdown ends |
| `startup` | 2 queues, 2 socket clients or the supervisor, 2 release requests, 1 failure | no FETCH after STOP, an old device is kept, "released" is true; releases settle |
| `trace` | 2 recordings, 3 commands, 2 reads, 2 sizes, 1 fault | records kept, nothing after the finish, checkpoint and header agree; shutdown ends |

Why the bounds suffice. The races of these components are between two actors and
the shared state, with a third that changes it: the instances have those three.
One extent shows every race of the store's hot path, and the proofs in
`LayerStoreProofs` cover any number; `layer_fill` has two, which its queue of
one needs to be full in the middle of a run. A CQ turn of 1 would hide the hint
race of the queue, hence 2. The code allows 3 registry attempts; the instance
uses 2 so that a read can exhaust them with two revocations. In the writable
layers the ranges are chosen to hit a mapping inside, at its end, whole and
across two, and the limits of live mappings and of compaction are set so low
that two mutations reach them. Two operations and one exit reach every pair of
adjacent file states, and a power loss can interrupt the recovery as well.
Two processes and one recovery let an old and a new child of the id coexist with
a commit or a destroy. Each property was seen to fail under a mutant of the code
that it is about.

Symmetry is used only in `layer_store`, for the nonces of the staging pairs.

Deadlock is not checked where the modelled program may rest: a parked fill, a
closed queue, a finished shutdown, or a bounded instance with its operations
done.

## 5. Fairness

- *Admission*: coroutines run, critical sections end, events that are due are
  set, timers fire, and a fetch under a permit ends (requests have timeouts).
  Strong fairness of `Continue` stands for a mutex that every waiter gets.
- *LayerFetch*: callers' steps. Nothing of the scavengers' gate.
- *LayerFill*: fill coroutine and writer thread run, a demotion and a park that
  have begun go on, and a read does not fail for ever.
- *QueueOwner*: owner, device and handlers run; STOP settles once the driver has
  its requests back. A source may keep its request for ever. `ReleaseEnds`
  excuses a driver that rejected a reply: it keeps the request, and the code
  then waits, as it must. It also excuses the replies that stay unflushed for
  ever (section 7, item 6).
- *Registry*: coroutines run and every request is answered or fails by timeout.
- *Supervisor*: the daemon's coroutines and timers run, and a device process
  that is to exit does. Clients, crashes and the channel owe nothing.
- *DeviceStartup*: owner, queues, kernel and the requests under way proceed.
  No request need come.
- *TraceControl*: the stop under way, timers, control loop and shutdown run
  while the process lives. No command need come.

The writable layers have safety properties only.

## 6. Proofs

Each proof module proves `Spec => []IInv` for an inductive invariant `IInv` and
derives the properties from it. They hold for every value of the constants that
satisfies the named assumptions of the component's module, so for any number of
clients, extents, faults and so on; the bounds of section 4 play no part.

**AdmissionProofs** (`ClientsAssumption`, `ConfigAssumption`): type correctness,
`SlotAccounting`, `NoLostWakeup`, `WaitersTracked`, `ControllerBounds`, the
action properties `ScavengersYield` and `ServedInOrder`, and the refinement
`ImplementsGate`. None of the safety properties is inductive by itself. A
release is only safe because the counter equals the number of owners; a waiter
owns a slot because a reservation took it out of its queue; and a queue holds
nobody twice. `IInv` joins types, accounting, "no open gate beside a queued
waiter while the lock is free", exact membership of the queues,
`ReservationsOwned`, and the controller's bounds. The proof has one lemma per
action, lemmas on the deques, on the AIMD step, and on the cardinality of the
owners. The refinement follows from `SlotSteps`: every step keeps the owners,
adds one that the gate admits, removes one, or moves the limit within its range.

**LayerStoreProofs** (`StoreAssumption`): `CommitIsVerified`,
`ReadsAreRemoteBytes`, `NoStaleGeneration`, `CacheIsCurrent`. The invariant says
what stands between the digest check and the name of the commit file (nothing
may write the staging file there), that a reader carries a record only while it
is about to read what the record vouches for, that queued writes are of this
attempt, and that outside the three places where the writer is about to clear it
the cache is of the current pair. `WriterMoves`, `JobStep` and `RestartStep`
treat the writer thread by phase, since nearly all its steps only move its pc.

**LayerFetchProofs** (`FetchAssumption`): `OneFetchPerExtent`, that a joiner is
never stranded (`JoinersAreServed`), and that a permit is held exactly from the
admission to the end of the remote read (`PermitsAreReturned`). One fetch per
extent is not inductive: it needs that a starter's flight is in the map and not
done, and that whatever is in the map has a starter. Since the module admits
through the abstract gate, `FunnelImplementsGate` carries the results over to
the funnel.

**RegistryProofs** (`RegistryAssumption`): `NoRefusedTokenAgain`. The reason is
an order that no variable records. `IInv` therefore says: there is a function
from generations to tokens that rises up to the newest generation, and the token
cache, the URL cache, the flight and every read's frame agree with it. What the
data requests of a read saw refused is below the generation it demands (`min`),
what a discovery saw refused below the one that discovery demands (`need`);
whatever it is then given has at least that generation, hence another token,
also when the discovery ends and the data request begins. Publishing appends to
the function, which works because only the owner of the flight publishes.

**SparseUpperProofs** (`Geometry`, `Bounds`, `SizesCoverLowers`,
`RangesAreProper`): `ExtentsAreEnough`, `ViewIsRecoverable`, `ExportIsExact`.
The invariant relates the segments in memory, the extents of the file and the
mutation in progress: the blocks it has yet to reach are still described by the
index it copies up through, those behind it hold its value. An export works on
the file as it opened it, because it excludes the device by the inode lock.

**LayerFillProofs** (`FillAssumption`): `NoLostSignal`, and what the presence
counter means (`CounterFollowsRecords`). The wait for room is covered by what
the fill saw when it reset the event, since only the writer shrinks the queue
and signals after it does. The wait for a decision rests on `DecisionInv`: the
counter never passes the number of extents, and whoever makes it equal goes on
to verify. That much holds even of a wrong counter. `CountInv` says when it is
right: it is the number of records plus the readers that have taken a record
and not yet subtracted, except between a record and its count and between a
restart's two resets, and until a demotion straddles a restart. The queue is
dropped by a teardown only after the fill was joined.

**QueueOwnerProofs** (`QueueAssumption`): `BufferLoans`, `RepliesAreOwed`,
`RetirementIsReal`, `NoLostEvent`. Its `IInv` has ten parts, and `FlushInv`
stands beside it.
`LedgerInv` relates the slot of a tag, the place and result of its command and
what the driver waits for; it alone gives `RepliesAreOwed`. `PendingInv` and
`AdmitInv` say that a request waits for admission at most once and is
unanswered. `EngineInv` ties a busy tag to its request, its generation, its
mailbox and its frame, so that a source runs only for a request that the server
holds: `BufferLoans`. `PhaseInv`, `JoinInv`, `FreshInv` and `ExitInv` follow the
pump from the gate to its exit: after the join every frame is dead and nothing
is batched, an owner that never published owes nothing, and it exits only
without debt: `RetirementIsReal`. `WakeInv` says what each place of the pump
between its look at a reason to run and its suspension knows of the eventfd; a
reason that appears after the look comes with a write that this turn no longer
reads: `NoLostEvent`. `FlushInv` follows the submissions: what is prepared is the
rest of a failed submission or is submitted before the owner suspends, unless
the queue has failed. Frame lemmas (`FrameStep`, `PumpStep`, `DeviceSteps`,
`SameWakes`, ...) reduce most actions to the part they change; the long proofs
are those of `dispatch_cqe`, `admit`, `Scan` and `maintain_owner`.

**TraceControlProofs** (`TraceAssumption`): `RecordsAreKept`,
`QuietAfterFinish`, `TrailerMatchesHeader`. A resize under way holds the resize
gate, which the shutdown drains before the checkpoint; a start under way holds
the start gate, which closes earlier still. At most one `stop` finalizes a
recording, and whoever waits for it names that recording. The only timer that
may still run is the one the recorder keeps, and the last `stop` of
`device_main` waits for it; without this `QuietAfterFinish` would not be
inductive.

Only model-checked: all liveness (the prover does not treat fairness), and the
safety of `LsmtPair` with `MergedWritable`, `HybridPair`, `Supervisor` and
`DeviceStartup`. For the writable pairs a proof would need induction over the
replay of a log, which the prover cannot do. `Supervisor` and `DeviceStartup`
have no such obstacle, but their invariants have not been worked out.

## 7. Disagreements

Places where the code does other than its comments or documents say, met while
modelling. The models contain these behaviours; the properties of the runs are
stated so that they do not depend on them.

1. `source/layer_store.cpp:846`. `layer_store.hpp:247` says the data of a write
   job is "null for clear" only. `join_or_fetch` returns `{nullptr, 0}` to a
   prefetch whose record became present while it waited (550-556). When
   `restart_fresh` or a reader's demotion clears that record before `populate`
   looks again (843-845), the null payload reaches `enqueue_write`, which
   dereferences it (639).
2. `source/layer_store.cpp:801`. `layer_store.hpp:27-29` says the layer is
   verified and renamed "when every extent is present". `pread` demotes a record
   and subtracts from `present_` in two steps (798-801). When `restart_fresh`
   zeroes both in between (1415-1416), the counter is one too low ever after
   (below zero it wraps), the last write of the retry no longer makes it equal
   to the number of extents, and the layer stays in Filling with all extents
   present, while `run_fill` goes round without a wait (1033-1077). `FillEnds`
   excuses exactly this. In the same window the extent may be written and
   counted again before the subtraction; the counter then reaches the number of
   extents while another is missing, and without a digest the layer is committed
   with a hole.
3. `ublk/queue.cpp:586`. `ublk/queue.hpp` and `docs/ublk.md:81` say that the
   retirement of a foreign handler wakes the owner. The pump exchanges
   `foreign_pending` (`elio_bridge.cpp:318`) before it reads the eventfd as a
   completion hint. A foreign handler's wake in between is consumed by that
   read, and the owner sleeps (`elio_bridge.cpp:345`) with the result pending
   until another event comes.
4. `format/hybrid_transaction.cpp:390`. `docs/format.md:500` says an intent is
   made durable "before modifying either artifact". `publish` does that. But an
   opening that finds an intent applies it at once and synchronises the
   directory afterwards (`finish`, 263); a power loss during that recovery can
   keep a new header and lose the intent's name, and the pair is then refused.
   `PairReopens` excuses exactly this case.
5. `format/hybrid_format.cpp:91-93`. `docs/format.md:531` says that after a
   power loss operations not covered by a FLUSH "may be absent, partial, or
   recovered with incomplete payload", and `hybrid_log_state.cpp:174-176` falls
   back to the last FLUSH only when the log itself is behind its progress stamp.
   When the loss kept such a record and its stamp but not the payload's length,
   replay throws "data extent exceeds artifact" and the pair is refused;
   `PairReopens` excuses it.

6. `ublk/queue.cpp:215`. `docs/ublk.md:429-432` says `maintain_owner` "prepares
   cancellation replies, submits them, and republishes the retirement ledger".
   While the rest of a failed submission is outstanding
   (`owner_submit_remaining_`), `submit_owner` enters that rest only and does
   not flush what was prepared after it. When the rest then goes through, the
   new replies stay in the private part of the ring, no event is due that would
   call `submit_owner` again, and the owner sleeps with the driver's requests
   unanswered. `NoLostEvent` and `ReleaseEnds` excuse exactly this.
7. `source/registry.cpp:621`. `docs/source.md:146-150` says that "a request that
   took a 401 retries only with a strictly newer generation, so a just-rejected
   token is never reused". The generation that `get_data` demands is raised by a
   refused data request only. A token refused during discovery may be sent again
   by the same read, when its data request then fails for another reason and a
   slower reader has stored the old URL meanwhile. `NoRefusedTokenAgain` is
   therefore about the data requests of the read and the discovery of the
   current attempt.

## 8. Not modelled

Whole components: block sources over a file, a tar offset or a gzip index, the
LSMT and ZFile readers, the layer writers, image assembly, credentials and DART,
and `common`. They are sequential or immutable after open, and what they compute
is data (offsets, decompression, header layouts, JSON), which a model would only
repeat. The merge of read-only indexes enters the models by its result.

Inside the modelled components:

- *Layer store*: damage to the commit file. `complete_layer` renames without
  `fsync`, so after a power failure the committed file may hold unwritten
  blocks, against `docs/source.md:986-988` ("a crash or torn write degrades to a
  re-fetch, never to bad data"). `CommitIsVerified` is about what is renamed.
  `run_fill` reads its runs beside the in-flight map, so `OneFetchPerExtent` is
  about `pread` and `populate`.
- *Layer store, registry, queue*: the HTTP pool and body framing, io_uring and
  scheduler internals (their contracts are actions of the environment), cookies
  the driver echoes, the sizes of extents and requests, statistics, test hooks.
- *Queue*: the legacy queue thread (`Queue::run`, `run_bridge`), which only
  tests select.
- *Device*: a control ring that returns a completion nobody waits for (the code
  then polls for ever, by design); the legacy thread topology, `kernel_debt_known`, negotiation of
  parameters with the driver, the layout of control commands.
- *Supervisor*: more than one id (ids share only the registry map); the
  destruction of a child that was never published, which needs an allocation
  failure between spawn and publication; command-line and JSON validation.
- *Trace*: drops counted outside the recorder's mutex, of offsets beyond 2^63
  and of failed allocations, which a concurrent finalization may miss; a grow
  whose header write and whose rollback both fail (`lsmt_rw.cpp:418-427`, logged
  as "may no longer be committable"); guards against re-entrance from the expiry callback, two starts at
  once, path and truncation rules, retries after `bad_alloc`; replay and
  structural warm-up, which only call `populate`.
- *Sparse upper*: the legacy coverage and zero-mask sidecars, reached by test
  hooks and by the export of old files only; path checks of the export.
- *LSMT and sparse uppers*: power loss. Their models keep the page cache, so of
  FLUSH and the synchronisations they have the failures only.
