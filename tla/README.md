# TenzorBus: specifications and proofs

TenzorBus moves tensors between processes through one shared-memory object. A
single producer process writes tensors into a fixed number of slots; any number
of consumers (64 at most) read them in place. There is no server: every process
maps the object and runs the same code on it, and any of them may be killed at
any instruction. This directory models that code in TLA+, checks the models with
TLC and proves their invariants with TLAPS.

## 1. The system

| component | code | state it keeps | operations |
|---|---|---|---|
| ring | `rust/tenzorbus/src/ring.rs` | per slot: state, sequence, reader mask, pid and start-time token of the last writer, header, payload; per registry entry: state, pid, generation, heartbeat; the sequence counter, the consumer count, the producer's pid | `producer`, `Producer::drop`, `reserve`, `publish`, `SlotWriter` fill / `commit` / `abort` / drop, `consumer`, `next`, lease `release`, `close` / drop, `sweep` (`reap_dead`), `stats` |
| registry lock | `rust/tenzorbus/src/futex.rs` (`lock`, `unlock`) | lock word, pid and token of the holder | `lock`, `unlock`, taking over from a dead holder |
| futex waits | `futex.rs` (`wait`, `wake`, `signal`) | the publish word and the reclaim word | bounded waits of 5 and 20 ms |
| process liveness | `shm.rs` (`pid_alive*`, `proc_stat`) | none, it reads `/proc` | is this pid alive; is it still the same process |
| mapping lifecycle | `shm.rs`, `Ring::create/attach/open_or_create/format`, `Inner::drop` | the named object, its length, the header fields stored so far; per handle: owner, unlink on drop | create (with force or not), attach, open_or_create, keep, drop, unlink |
| wire format | `tenzor-core/src/lib.rs` | constants, header structs | offsets, dtype codes, `seq_newer` |
| Python bindings | `tenzorbus-py/src/lib.rs` | export counts of `PyLease` and `PySlotWriter`, handles whose lifetime is widened | the ring's operations, arrays over leases and writers, `close` with leases out |
| Python reference | `src/tenzorbus/ring.py` | the same header, with a reader count instead of a mask, and a file lock | publish, next, release, close |
| bridge | `integration/bridge/src/main.rs` | `BusSink`: the pending `SlotWriter`, published, first and last sequence; the stage of `main` | waiting for consumers, `video_destination`, `epoch_ready`, `abort_epoch`, the end of the clip |
| drivers | `tenzorbus-lab.rs`, demos, benchmarks, scripts, live lab, patches | none of the protocol's | they call the above |

How they interact: `reserve`, `publish`, `consumer`, `close`, `sweep`, `producer`
and `abort` take the registry lock; `commit`, `next` and `release` do not, they
touch the slot's atomics directly, so they run at the same time as anybody's
locked section. Whoever holds the lock in `reserve`, `consumer` or `sweep` first
reaps: it frees the entries of consumers whose process is gone, clears their bit
from every slot, and frees slots that a dead writer left in WRITING. A producer
without a slot waits on the reclaim word, a consumer without a publication on
the publish word.

What is hard about it:

* a slot has up to 64 readers that release in any order, lock-free, while the
  producer looks for a slot to overwrite;
* a process may die with a slot half written, with leases out, registered,
  holding the producer role, or inside the registry lock;
* death is recognised by pid, and pids are reused;
* delivery once and in order rests on a wrapping 64-bit counter that an abort
  turns back.

What makes each component correct:

* ring: contracts 4 to 7 of `docs/PROTOCOL.md` (every addressed consumer gets the
  slot, a slot is not overwritten under a reader, delivery at most once), contiguous
  sequences, one producer process, no reader bit without an owner, a registry that
  agrees with its count, a blocked producer that gets a slot in the end;
* lock: mutual exclusion, and no wedge after a death;
* waits: no wait outlasts what it waits for by more than its bound;
* lifecycle: whoever has a ring open has its creator's geometry, and no unusable
  object stays behind a name;
* bindings: the bytes under an array stay what they were when it was taken;
* reference: the same contracts, among live processes;
* bridge: a stream without gaps and without half-decoded epochs, that reaches
  everyone who was waited for.

The hazards that follow from this are listed with their lines in `PROJECT.json`.

## 2. What is modelled

Three descriptions of the ring stand beside each other. `Multicast` is what it
promises. `TensorRing` has the ring's whole state with each locked section one step;
everything that uses the ring is built on it (RingBindings, BusSink, LivePath).
`RingSteps` takes the core of it apart into single accesses. Both are checked against
Multicast. `RegistryLock`, `RingLifecycle` and `Layout` justify what both take for granted:
a lock that excludes, a mapping with the creator's geometry, slots that do not overlap.

### TensorRing (`TensorRing.tla`, instances in `MCTensorRing.tla`)

The ring, its registry, the producer role, and processes that die and whose pid
is reused. Everything between `lock_registry` and `unlock_registry` is one step;
commit, take and release are one step each; filling a slot is a step of its own.

| variables | code |
|---|---|
| `state`, `seq`, `mask`, `wpid`, `wtok` | slot header: state, sequence, readers_mask, producer_pid, producer_start_token |
| `payload` | which publication the slot's bytes belong to |
| `active`, `rpid`, `registered` | R_STATE, R_PID, G_CONSUMERS |
| `nextSeq`, `role` | G_NEXT_SEQ, G_PRODUCER_PID |
| `alive`, `token` | which pids are taken, and by the how-manieth process |
| `producers`, `handing` | `Inner::producers` of each process; the processes between the two accesses of `Producer::drop` |
| `cst`, `idx`, `last`, `leases` | `Consumer` (closed, index, last_sequence) and its `Lease`s |
| `wst`, `wslot`, `wseq` | a `publish` in progress or a `SlotWriter` |

| action | code |
|---|---|
| `Sweep` | `Ring::sweep`; `reap_dead` is `ReapedState`, `ReapedMask`, `ReapedActive`, `ReapedRegistered`, and part of every action whose code calls it |
| `ClaimProducer` | `Ring::producer` |
| `DropProducer`, `HandBack` | `Producer::drop`: its `fetch_sub`, and its `compare_exchange` once the last handle is counted off; neither holds the lock |
| `Reserve`, `ReserveFull` | `reserve_header` as called by `reserve` and `publish`, with a slot found or not (both have reaped) |
| `Fill`, `Commit`, `Abort` | the copy of `publish` or writes through `payload`; the commit store; `release_slot` |
| `Register`, `RegisterFull`, `Drop` | `Ring::consumer`, `Consumer::drop` |
| `Take`, `Release` | `Consumer::next`; dropping or releasing a `Lease` |
| `Crash`, `Restart` | external: a process is killed; a later one gets its pid |

Writers in `DirectWriters` are `SlotWriter`s: they may commit before they have
filled the slot, and abort. The others are calls of `publish`. Reader masks are
sets, a lease is the slot, sequence and bytes that `next` delivered. A zombie
counts as dead, as in the code.

What TensorRing takes as one step, RingSteps takes apart. It keeps two
simplifications: a process has one mapping of the ring, and a consumer is closed by
dropping it, when the borrow checker has ended its leases (`close` with leases out is
in RingBindings). `ClaimDuringDrop` says whether a thread may claim the role while
another one of its process is between the two accesses of `Producer::drop`. The code
allows it, and section 4 tells what comes of it.

### RingSteps (`RingSteps.tla`, instances in `MCRingSteps.tla`)

The same ring, one shared load or store at a time. A process may be killed between
any two of them, also when it holds the registry lock; whoever locks next finds the
holder dead (`Lock`).

| variables | code |
|---|---|
| `slot`, `entry` | slot headers and registry entries, a record each |
| `registered`, `nextSeq`, `role`, `lock` | G_CONSUMERS, G_NEXT_SEQ, G_PRODUCER_PID, the lock's holder |
| `pc`, `at` | where a process is in its call, and the index of the loop it is in |
| `pick` | `best` of `reserve_header`, and then the slot the producer works on |
| `handle`, `returning` | `Consumer` and its leases; the lease being released |
| `scan` | `scan_oldest`'s best and `try_take`'s `oldest` and number of passes |
| `heard` | the publish word is no longer what this `next` loaded |

| action | code |
|---|---|
| `StartReserve`, `StartRegister`, `ReapEntry`, `ReapCount`, `ReapSlot` | the lock and `reap_dead`, bit by bit, entry by entry, slot by slot |
| `Choose`, `Full`, `Mark`, `Stamp`, `Number`, `Address`, `Advance` | `reserve_header`: its scan, and its stores in their order |
| `Claim`, `HandBack` | `Ring::producer` and `Producer::drop`, of a process's only handle |
| `Copy`, `Commit`, `Signal`, `WakeAll` | the rest of `publish` and the two halves of `futex::signal` |
| `Enter`, `RegistryFull`, `Activate`, `CountUp` | `Ring::consumer` |
| `StartClose`, `CloseBit`, `CloseEntry`, `CountDown` | `Consumer::drop` |
| `Observe`, `LoadState`, `LoadMask`, `LoadSeq`, `Compare` | `next_raw`'s load of the publish word, `scan_oldest`, the passes of `try_take` |
| `Check`, `Take`, `Sleep`, `EndWait` | the two looks of `read_validated`, FUTEX_WAIT and its bound |
| `StartRelease`, `Release` | the sequence check of `release` and its `fetch_and` |

Accesses are one step where nothing others do can come between them to any effect:
the pid and the token of a slot, the load and the store of a counter that only lock
holders write, the last store of a locked section and the unlock. Accesses are
sequentially consistent. A producer hands the role back between two publications and
may claim it again; what it wrote keeps its pid. Abort, several writers or handles in one
process and reused pids are left to TensorRing; S_READERS and the reclaim word are left out (nothing
reads the first to decide anything, and a blocked producer tries again after 5 ms
whatever the word says). In `Take` the second look of `read_validated` succeeds
whenever the first did: a slot that still has its state and sequence counts the
consumer, and is therefore pinned. The code's retry after a failed second look is
there all the same (`valid`).

### RegistryLock (`RegistryLock.tla`, instances in `MCRegistryLock.tla`)

`lock` and `unlock`, one action for each shared access. `pc` is where a thread
is, `holder` and `holderToken` what a waiter has read. `Judge` is the test of
`futex.rs:93`, with `PidAliveWithToken` at the moment of the test. The futex wait
may end at any time (it is bounded by 20 ms), so wake-ups do not matter. Accesses
are sequentially consistent; the code's relaxed ones promise less, so what fails
here fails in the code, and what passes holds for x86-like orderings at least.
The ring's locked section is the one state `critical`.

A takeover is not atomic: a waiter loads the pid, loads the token, asks the system, and
then stores itself without a compare-and-swap. `Overtaken` names the ways in which its
evidence can be out of date when it decides: the recorded pid or the recorded token is no
longer what it read, or another thread is on its way of stealing already. The
history variable `misled` says whether a waiter has ever decided to steal on such
evidence; it influences nothing. `ExclusionKept` says that up to then there is one
holder at most, so that these windows are the only way into somebody's critical section.
All three are needed: without any one of them in `Overtaken` the run finds two holders.

TensorRing and RingSteps take the lock for granted: their locked sections stand on
`MutualExclusion`. Section 4 says when the lock does not deliver it.

### ReferenceRing (`ReferenceRing.tla`, instances in `MCReferenceRing.tla`)

The Python ring. Everything happens inside one file lock, and a consumer's section
writes one field of the shared header at most, so each of its operations is one
step. `publish` is three (`Select`, `Commit`, `Advance`) because it can be cut off
between them, by a kill or an exception (`Interrupt`), and the lock is let go with
the slot half made. `readers` is S_READERS, a count, where the Rust ring has a mask;
`views` are the arrays that `numpy()` and `torch()` returned and that are alive.
The `readers == 0` case of `next` is part of `Take`. `Interruptible` says where a
publication may be cut off. Each consumer is a process of
its own. Dying (`Die`) changes nothing in the header: this ring reaps nobody.

### Multicast (`Multicast.tla`)

What the rings promise, without sequences, masks, counts or states: each consumer
has a set `due` of slots it is still to receive, a relation `earlier` that says which of
them was published before which, and a set of slots it holds; a publication, when begun,
fixes its addressees (everyone open), and when finished becomes due, after everything
else that is, to those still open; of what is due, a consumer is given what nothing is
earlier than; a slot that is due or held is not used. (A relation instead of a queue: that
the slots found in a ring can be put in a sequence takes an induction, which the prover
does not have; that one of them is the first does not.) `RingMulticast`, `StepsMulticast` and
`ReferenceMulticast` give the refinement mappings: due are the slots that `next` would still
deliver, earlier those with the older sequence; held are those with a lease (or an
array). In `StepsMulticast` a publication is begun at
the store of the reader bits (`Address`) and made at the store of COMMITTED
(`Commit`); a consumer is there from the store that activates its entry until it takes
the lock to close; it receives at `Take` and lets go at the `fetch_and` of `Release`.
`ImplementsMulticast` is `Multicast!Spec` under that mapping.

### RingBindings, BusSink and LivePath (instances in `MCLivePath.tla`)

`RingBindings` and `BusSink` both extend TensorRing, and `LivePath` puts them on one
ring: the bridge is one process, an interpreter runs in each of the others, and either
may be killed and started again.

RingBindings is `tenzorbus-py/src/lib.rs`. Its variables are what an interpreter adds:
`views` (leases with an export, `PyLease::exports`), `array` (a writable array over a
`PySlotWriter`'s slot), `stale` (the leases a Consumer had when it was closed) and `late`
(those of them in the middle of their release). An
array keeps its lease or writer alive; `release`, `commit` and `abort` refuse while
there is one (`MayRelease`, `MayFinish`). `PyClose` is `close`, which does not look
at the leases; `StartReleaseStale` and `FinishReleaseStale` are the two accesses of their
late release, the look at the sequence and the clearing of the bit, under the index they
were taken with, which may be another consumer's by then. The release of an open
Consumer's lease is one step, because its bit keeps the slot as it is between the two
(RingSteps has them apart). A thread keeps the GIL through a release, so that in its
process nothing but a `next` that let go of it, or a kernel writing to an array, comes in
between (`PyStep`); other processes may do what they like. `StaleReleaseRaces` says
whether that includes a new publication in the slot. The code allows it. `Expose`, `WriteArray` and `DropArray`
are `SlotWriter.numpy` and what a caller may do with the array at any time.

BusSink is `integration/bridge/src/main.rs`: `stage` is where `main` is, `published`,
`first` and `latest` are `BusSink`'s record, `audience` (a history variable) the
consumers that have been open since the stream began. `VideoDestination`, `Decode`,
`EpochReady` are the direct path, `DecodeAside`, `PublishCopy`, `EpochReady` the copy
path; `EngineFails` is `abort_epoch`, a contradiction or a timeout. A failed epoch ends
the stream: the engine calls `abort_epoch` and returns the error
(`patches/tenzorpipe-v0.3.2-direct-write.patch:622`). `ExitMain` and `RoleReturned` are
the end of the Producer. The engine is
external; all that is asked of it is that it fills a destination before it reports the
epoch, and asks for one at a time.

### RingLifecycle and Layout (instances in `MCRingLifecycle.tla`)

How a ring comes to be: `create` with and without force, `open_or_create`, `attach`,
the end of a `Ring`, `shm::unlink`, one system call or header store a step. There is one
name, which refers to one object after another; `size` and `stored` are an object's
length and how many of `format`'s stores have been made; `pc`, `of`, `geometry`,
`owner` and `unlinkOnDrop` are a call and the `Ring` it returns. Any system call may
fail and any process may die at any step. `HeaderAccepted` is what `attach` demands,
with zero for what is not stored yet. `Layout` is the arithmetic of `RingLayout`.

## 3. The runs

| run | instance | checks |
|---|---|---|
| `ring_ownership` | p1 with a direct writer, a `publish` a reader, and the right to die and be replaced under its pid; p2 sweeps and takes the role over; 2 slots, 1 entry; 1.93 million states | `TypeOK`, `ActiveReaderNeverOverwritten`, `WritersExclusive`, `SingleProducer`, `NoOrphanBits`, `RegistryConsistent` |
| `ring_delivery` | p1 with one direct writer; two consumers in p2, which may die; 2 slots, 2 entries | `ActiveReaderNeverOverwritten`, `DeliveredOnce`, `NoneStranded`, `DeliveryContiguous`, `ImplementsMulticast` |
| `ring_progress` | p1 publishes and reads; a reader in p2, which may die; fairness | `ProducerUnblocked`, `AddressedDelivered` |
| `ring_steps` | a producer that may be killed or hand the role back and its successor, a consumer and one that may be killed; 2 slots, 1 entry, 3 publications across the wrap; 1.07 million states | `TypeOK`, `LeasesIntact`, `NoSlotLost`, `CountKept`, `SleepersWoken`, `ImplementsMulticast` |
| `live_path` | the bridge in p1; in p2 Python with one Consumer and one `SlotWriter`; both may be killed and started again; 2 slots, 1 entry, 2 epochs, 3 sequences across the wrap; 1.59 million states | `LiveTypeOK`, `ViewsUndisturbed`, `TraceContiguous`, `EpochsReachAudience`, `WholeFrames`, `PublishedFrozen`, `OnlyReadersLetGo` |
| `ring_lifecycle` | three calls for one name, two objects, two geometries; any call may fail, any process die | `TypeOK`, `GeometryShared`, `NamedRingUsable`, `NothingLeftBehind` |
| `ring_stranded` | as `ring_delivery`, with aborts after a registration | violates `NoneStranded` |
| `ring_pid_reuse` | as `ring_progress`, with the pid of p2 reused | violates `ProducerUnblocked` |
| `lock_recovery` | a thread in each of three processes, with start times; two may be killed, so that two waiters survive the first death and a thief may die; fairness | `TypeOK`, `ExclusionKept`, `LockRecovers` |
| `lock_wedge` | two threads in p1, which may be killed at any access, and one in p2 | violates `LockRecovers` |
| `lock_torn_read` | the same threads, nobody killed | violates `MutualExclusion` |
| `reference_ring` | two consumers that may close early, one of which may be killed; publications cut off in the copy; 2 slots, 6 sequences; fairness | `TypeOK`, `ViewsUndisturbed`, `ReadersCounted`, `ImplementsMulticast`, `SlotsDrain` |

What the properties say, beyond the type invariants:

* `ActiveReaderNeverOverwritten`: while a lease is out its slot stays committed,
  with the sequence and the bytes that were delivered and the reader's bit set.
* `WritersExclusive`: no sweep and no other writer gets the slot of a writer.
* `SingleProducer`: two processes never have Producer handles at once, although the role is
  handed back in two accesses without the lock.
* `NoOrphanBits`, `RegistryConsistent`: each reader bit has an active entry behind
  it, the count is the number of entries, open consumers do not share one.
* `DeliveredOnce`, `DeliveryContiguous`, `NoneStranded`: nothing leased is
  delivered again, sequences arrive without a gap, and a committed slot addressed
  to an open consumer is leased to it or still to be delivered.
* `ProducerUnblocked`: a producer that wants a slot gets one.
* `AddressedDelivered`: what is addressed to a consumer is delivered and released,
  unless the consumer leaves.
* `ImplementsMulticast`: the refinement of section 2. It contains at-most-once
  delivery, order, completeness and no reuse under a reader in one formula. For
  RingSteps it says in addition that a scan made of separate loads, which is no
  snapshot, still finds the oldest publication.
* `LeasesIntact`: the first of this list, with every load and store apart.
* `NoSlotLost`: a slot in WRITING has a living producer at work on it, or every later
  sweep takes it, whichever store the producer was killed before. The one exception, which
  the code has: a producer was killed after marking the slot and before storing its pid, and
  the process that wrote the slot before handed the role back and is alive.
* `CountKept`: G_CONSUMERS differs from the number of active entries by one at most
  for each process that is between the store of an entry and that of the count, or was
  killed there. The code never corrects such a drift; the property says
  that nothing else adds to it.
* `SleepersWoken`: a consumer asleep on the publish word with something to receive has
  a producer about to signal or wake, unless a producer was killed before it did.
* `ViewsUndisturbed` (Python bindings): while its Consumer is open, the bytes under an
  array over a lease stay those that were delivered.
* `PublishedFrozen`: no array from before a commit changes a committed slot.
* `OnlyReadersLetGo`: the bit of an open consumer is cleared by that consumer's own
  release only, although indices are given away again while stale leases are out and
  their late releases are a look and a clearing apart.
* `TraceContiguous`, `EpochsReachAudience`, `WholeFrames`: a stream's sequences are
  consecutive; every recorded epoch is received or receivable by each consumer that was
  there when the stream began and still is; nothing leased from the bridge was
  published half decoded.
* `GeometryShared`: whoever has a ring open computes with its creator's geometry and
  inside the mapping. `NamedRingUsable`: the name refers to a formatted ring, or to one
  whose creator is at work, died, or failed to map it. `NothingLeftBehind`: when every
  call has failed or ended, and no creator kept its ring, no object is left.
* `ExclusionKept`: the lock excludes, and a takeover breaks in on no live holder, until a
  waiter decides on evidence that is out of date (`misled`). `LockRecovers`: while some thread
  wants the lock, a living one gets it, with the same proviso. `MutualExclusion` is the
  first without it.
* `ViewsUndisturbed` (reference ring): the slot of a lease or a living array keeps its
  publication.
* `ReadersCounted`: a slot's reader count lies between those who will still count it
  down and those plus the consumers that have left.
* `SlotsDrain`: while nobody leaves, the count of each slot returns to zero.

**Bounds.** `SeqMod` (6 or 8) stands for 2^64. In the first three runs `FirstSeq = 1`
as in the code, and the counter wraps after five publications, so each run crosses the
boundary many times; `ring_steps` and `live_path` start at 7 of 8, one before the
boundary, and bound the publications (`MaxPublications`, `MaxSequences`) at 3, enough
to fill both slots and to reuse one. `InWindow` forbids assigning a sequence
exactly half the range away from one it will be compared with, which at 2^64 is out of
reach. Two slots are the least the code accepts, and make every publication reuse a
slot soon; two consumers are the least for one to lag behind another. One registry entry
in `ring_steps` and `live_path` makes an index go from consumer to consumer.
`MaxTokens` bounds how often a pid is reused, `MaxHandles` the Producer handles
of a process, `Mortal` who may die, `SafePoints` where a thread of the lock is
not killed, `MaxEpochs` the length of a clip. `MaxObjects = 2` in `ring_lifecycle` lets a name be
removed or forced away and made again while the first object is still mapped; three
calls let two race and a third attach. The handles there are interchangeable, which is
what `HandleSymmetry` uses; nothing temporal is checked under it.
`LastSeq = 6` lets both slots of `reference_ring` be recycled twice before publishing
ends; the reference does not wrap its counter.

These restrictions of the passing runs leave out what the code does allow, and the runs
named pass only because of them. Each has its trace in section 4.

| restriction | runs | without it |
|---|---|---|
| `ClaimDuringDrop = FALSE`: no thread claims the role while another one of its process is between the two accesses of `Producer::drop` | `ring_ownership`, `live_path` | `SingleProducer` and `TraceContiguous` fail. In `live_path` the code keeps to it: an interpreter ends a Producer without letting go of the GIL, and the bridge has one thread. It is FALSE in `ring_delivery` for the size of the run (one process publishes there), TRUE in `ring_progress` and `ring_pid_reuse` |
| `AbortAfterRegister = FALSE` | `ring_delivery`, `ring_progress` | `ring_stranded` |
| one publication of a process at a time | `ring_delivery`, `ring_progress`, `ring_steps` | with two `SlotWriter`s open the later may commit first, and the earlier is then never delivered; `ring_ownership` has two |
| one mapping of the ring in a process | all | a process that opened the ring twice hands the role back while its other mapping still publishes |
| `StaleReleaseRaces = FALSE`: the slot of a stale lease is not recycled between the two accesses of its release | `live_path` | `OnlyReadersLetGo` fails |
| no `next` on a closed Consumer, no writing to a leased array | `live_path` | the index may be another consumer's; the bytes change |
| `SafePoints`: no thread is killed at `recordOwner`, `clearToken` or `release` | `lock_recovery` | `lock_wedge` |
| `~misled`, a premise inside `ExclusionKept` and `LockRecovers` | `lock_recovery` | `MutualExclusion` fails (`lock_torn_read`); and so does `LockRecovers` |
| the exception in `NoSlotLost` | `ring_steps` | a slot is lost while its previous writer lives |
| `Interruptible` without `"committed"` | `reference_ring` | `ViewsUndisturbed` fails |
| nobody leaves, a premise inside `SlotsDrain` | `reference_ring` | slots that a departed consumer had not read stay counted |
| failed mmaps and stopped creators are exempt, in `NamedRingUsable` and `NothingLeftBehind` | `ring_lifecycle` | a failed mmap leaves the object behind |

`lock_recovery` has one thread in each process; with two in one of them the run no longer
fits (1.4 million states, and liveness on top). The theorem `LockExclusive` has no such
bound. `live_path` has one Consumer; the race of stale releases needs no second one, since the
Consumer itself can be closed with a lease out and registered again under the same index.

`live_path` has `AbortAfterRegister = TRUE`; none of its properties depends on the
restriction, because `EpochsReachAudience` speaks of consumers that were there before
the stream began, and `OnlyReadersLetGo` of bits and not of deliveries.

`CHECK_DEADLOCK FALSE` throughout: processes may all be dead, threads idle, calls
returned or bounds used up, and nobody is obliged to go on.

**Fairness.** `FairSpec` of the ring: a `publish` or a `reserve` under Block retries at
least every 5 ms until its deadline and its caller calls it again (`Reserve`); a
writer with a slot goes on to commit or abort; a consumer keeps calling `next` and
drops each lease in the end. Nothing is assumed of registering, closing, foreign
sweeps or deaths; that the reserving producer reaps is what frees the slots of the
dead. `FairSpec` of the lock: a thread that has called `lock` runs on, the critical
section is finite, the futex wait ends. `FairSpec` of the reference ring: a publication
that was begun ends, a consumer calls `next` again, drops its arrays and releases its
leases; releasing is strongly fair, since the file lock is taken in between by others
but goes to each waiter in turn, and since making arrays again and again is not a way
to keep a lease. Nobody has to call `lock`, and a process need not die. `ring_steps`,
`live_path` and `ring_lifecycle` check safety only and assume no fairness.

## 4. What the checks found

1. `ring_stranded`. A consumer that registers while a `SlotWriter` is open
   subscribes at `G_NEXT_SEQ - 1`, the sequence of that reservation. If the writer
   aborts, the sequence is handed back; the next publication takes it again and
   counts the new consumer among its readers, but for the consumer it is not newer
   than what it subscribed at. It is never delivered, and its slot stays pinned
   until the consumer leaves. Against contract 4 of `docs/PROTOCOL.md`.
2. `ring_pid_reuse`. `reap_dead` tests `pid_alive(pid)`; the start-time token that
   registration stores is never read. A dead consumer whose pid was given to
   another process is never reaped, and a blocked producer starves. Against
   `docs/PROTOCOL.md:127`.
3. `lock_wedge`. A holder killed between acquiring the word and storing its pid,
   or between erasing its pid and releasing the word, leaves the lock held by
   pid 0, from whom no waiter steals. Against `futex.rs:70`.
4. `lock_torn_read`. A waiter may read the pid of one holder and the token of the
   next, and so take the lock from a living holder.

Seen while modelling, and not the subject of a run:

* The Python `publish` marks a slot committed before it stores the next sequence number
  (`ring.py:292`). Cut off between the two, it leaves a committed slot under a
  sequence that is still to be assigned; a consumer that opens then is handed the slot
  though it does not count it, and its release takes away the protection of another
  reader. Adding `"committed"` to `Interruptible` makes `ViewsUndisturbed` fail.
* `Consumer.close` of the bindings has no export guard: after it the leases are stale,
  the slots may be recycled, and an array over one sees the bytes change
  (`tenzorbus-py/src/lib.rs:16` promises otherwise). `next` after `close` is let
  through as well, with an index that may be another consumer's.
* `Inner::drop` unlinks by name. When a ring was replaced with `force`, the drop of the
  old owner removes the name of the new ring.
* `attach` succeeds from the moment the capacity is stored, before `G_NEXT_SEQ`,
  `G_CONSUMERS` and the slot headers are; what it registers or publishes in that
  window, the creator's last stores undo. A `create` whose mmap fails leaves the object behind; the loser of an
  `open_or_create` race may find an object of length zero or a header without a magic,
  and fails.
* `Producer::drop` decrements the count of handles and then hands the role back, outside
  the lock (`ring.rs:708` and `ring.rs:714`). Thread A of a process counts off the last
  handle; thread B of the same process calls `producer()`, finds its own pid in
  G_PRODUCER_PID and is given a handle; A's `compare_exchange` finds the pid as well and
  stores 0; another process claims the role. Now both have a Producer, both scan for a
  slot and assign sequences. `ring_ownership` with `ClaimDuringDrop = TRUE` violates
  `SingleProducer` this way. The count is per mapping, so a process that opened the ring twice
  can do the same without a race.
* A handover can cost a slot. Process A publishes in a slot, drops its Producer and lives
  on; B claims the role, recycles the slot, and is killed between the store of WRITING and
  that of its pid (`ring.rs:790` and `ring.rs:791`). The slot is WRITING under the pid and
  token of A: as long as A lives no sweep of another process takes it, and A's own sweeps
  pass over it because the pid is A's. It is the exception in `NoSlotLost`; without it `ring_steps`
  fails.
* A stale lease may clear somebody else's bit. `release` looks at the slot's sequence
  (`ring.rs:1178`) and then clears the bit (`ring.rs:1185`), without the lock. A Consumer is
  closed with a lease out, and its index given away to the next one that registers. The late
  release finds the sequence in place; then the slot, which nobody reads any more, is
  recycled, committed and addressed to the new consumer; and the `fetch_and` takes the new
  consumer's bit. It never receives that publication, or has the slot recycled under its
  lease. `live_path` with `StaleReleaseRaces = TRUE` violates `OnlyReadersLetGo` in 19
  states. One interpreter suffices: it closes a Consumer with a lease out, registers another, and
  then lets the old lease go, while the producer publishes in another process.
* A takeover of the lock can go wrong in three ways (`futex.rs:91` to `futex.rs:97`): the token may be a later holder's than the pid
  (`lock_torn_read`); pid and token may both be those of a dead process from whom
  somebody has taken over since, and even released; and two waiters may both find the same holder
  dead and both store themselves, there being no compare-and-swap. What follows is not
  only two holders: the first to unlock erases the record of the second, and if the
  second is then killed, nobody steals from owner 0. `LockRecovers` without `misled`
  fails in this way, with no thread killed at an unsafe point.
* `release` stores the popcount of the mask it saw, so two releases at once may leave
  S_READERS behind the mask; `tenzor-core/src/lib.rs:17` calls it truthful. Nothing
  decides by it.
* `docs/PROTOCOL.md` says that a slot records the consumers registered at commit time;
  the code, and the models, record those registered when the slot is reserved.
* The bridge's `--await-consumers` counts consumers that are dead and not yet reaped.
* The bindings' `publish` waits for a slot with the GIL held.

## 5. What is proved

Each theorem is proved for every value of the constants that its module's named
assumptions allow. An invariant is seldom inductive as it stands: each proof module
defines an `IInv`, shows that the initial states satisfy it and that every action
keeps it, one lemma an action, and derives the theorems from it.

### TensorRing

`TensorRingProofs.tla` proves six theorems about `Spec` of TensorRing, for every
number of processes, consumers, writers, slots and entries, every even modulus of
the counter from 4 on, whichever processes die and however often, with aborts
restricted or not. One of them has a hypothesis: `NoClaimDuringDrop`, that no thread claims
the role while another one of its process is between the two accesses of
`Producer::drop`. Section 4 shows that it is needed.

| theorem | says |
|---|---|
| `TypeCorrect` | `Spec => []TypeOK` |
| `OneProducerProcess` | `NoClaimDuringDrop` implies `Spec => []SingleProducer` |
| `WritersUndisturbed` | `Spec => []WritersExclusive` |
| `LeasesUndisturbed` | `Spec => []ActiveReaderNeverOverwritten` |
| `BitsHaveOwners` | `Spec => []NoOrphanBits` |
| `RegistryKept` | `Spec => []RegistryConsistent` |

They rest on the named assumptions of TensorRing only: `ProcsAssumption` (0 is no
pid, each handle has a process), `SizesAssumption` (`RingLayout::new` demands two
slots; the counter wraps at an even modulus) and `UsageAssumption`.

The argument is layered; each layer is inductive relative to those before it.

* `RoleInv`: a process with handles is alive and is the one the role is recorded
  for; one between the two accesses of a drop has none. SingleProducer alone is not
  inductive: a claim is safe only because the role names whoever still has handles, and
  `HandBack` only because its process has none. The other layers do without it.
* `EntryInv`: an open consumer has an active entry, registered to its own, living
  process, and shares it with nobody. So no sweep takes it (`ReapKeepsEntries`).
* `WriterInv`: the slot of a writer is WRITING, under its sequence, and carries
  pid and token of a living process. The token is what the argument needs: a sweep
  spares the slot because both match (`ReapKeepsWriters`).
* `LeaseInv`, over the two above (`IInv`): a reservation finds a free slot or one
  without bits, and the slot of a lease is neither (`ReserveLeases`); a writer works
  on a WRITING slot, a lease is on a committed one (`WriterLeases`); a release
  clears the bit of one consumer in one slot, and no other lease needs that bit
  (`ReleaseLeases`); a sweep leaves the bits of the living (`ReapKeepsLeases`).
* `NoOrphanBits` is inductive with `EntryInv`; `CountInv` (the count is the
  cardinality of the active entries) with `EntryInv` too, and shows that the
  saturating subtractions never saturate.

`DeliveryProofs.tla` goes on to what consumers are given, and in which order:

| theorem | says | for |
|---|---|---|
| `NotDeliveredTwice` | `Spec => []DeliveredOnce` | no further hypothesis |
| `NobodyStranded` | `Spec => []NoneStranded` | `OneWriterEach`, `NoLateAborts`, `NoClaimDuringDrop` |
| `IsMulticast` | `Spec => ImplementsMulticast` | the same |
| `Contiguous` | `Spec => DeliveryContiguous` | these and `WritersSurvive` |

The hypotheses are those without which the code does otherwise: a process has one
publication in the making at a time (the later of two may be committed first); two processes
are never producers at once (`NoClaimDuringDrop`); a
reservation that a consumer subscribed at is not handed back (`ring_stranded`); a
publication whose process is killed leaves a gap. The runs have a single writer; the
theorems allow one in each process, with the role going from one to the other.

Sequences come round here, so the argument is about ages. `Age(q)` is how far `q` is behind
`G_NEXT_SEQ`. While two ages are at most half the counter's range, the code's comparison is
the comparison of ages (`NewerByBehind`); `InWindow` is what keeps them there. A step
moves every age by the same amount (`AgeTogether`), so the order of two sequences never
changes, and what is left to show is that what matters stays recent (`RecentKept`).

* `SlotAges`: slots in use have different and recent sequences. Handing a sequence back
  does not spoil it, since only the slot just given up had it.
* `LeaseAges`: `last_sequence` is not older than any lease of the consumer, hence newer
  than nothing it holds; and no writer has that sequence, so it is not handed back.
* `WorkInv`: a writer at work has the newest sequence, because its process has the role and
  no other writer of that process is at work.
* `AddressInv`: what is addressed to a consumer is newer than `last_sequence`, or leased. `next`
  keeps it because it takes the oldest, and registering because the index has no bits
  (`NoOrphanBits`).
* `PendingInv`: every sequence between `last_sequence` and the next one is in a slot that is
  committed or being written, with the consumer's bit. So the oldest that `next` finds
  is the successor.

`IsMulticast` is the refinement, one lemma for each step (`MulticastStep`). A reservation begins a
publication and addresses it to those who are open, since dead entries are reaped first
and nobody's bit is left over (`ReserveBegins`); a commit makes it due after all else, because
what a worker writes is the newest (`NewestOfAll`); `next` takes what nothing is earlier than, and
by `AddressInv` what it takes is not due again (`TakeDelivers`); a slot is free before it is published
again, for the bits it carries are those of its addressees only (`CommitPublishes`); closing
and dying are departures, the death of the publisher together with that of its consumers (`CrashLeaves`);
filling, reaping and registering's scan are not seen (`FillUnseen`, `ReapUnseen`).

### RegistryLock

`RegistryLockProofs.tla` proves `TypeCorrect` and `LockExclusive`, `Spec =>
[]ExclusionKept`, of the lock: for every number of threads and processes, with start-time
tokens or without, whoever is killed, and whatever `SafePoints` are, under
`LockAssumption` alone. The invariant `LockInv` says that the dead stay where they are
(`DeadInv`) and that, until a waiter is misled, one thread at most has the lock or is taking it
over (`OneHolder`), the word is locked while one does (`WordInv`), and the record of it is such
that a waiter sees it alive: its pid with its token or with none yet, or no pid (`RecordInv`). The
heart is `VerdictRight`: a waiter whose evidence is up to date and says dead is right, so
whoever had the lock is dead and no living thread has it. That `RecordInv` has to hold
between any two stores of `lock` and `unlock` is why these store the token last when
acquiring, and clear the pid first when releasing.

### RingSteps

`RingStepsProofs.tla` proves `TypeCorrect`, `LeasesKept` (`Spec => []LeasesIntact`),
`SlotsRecovered` (`Spec => []NoSlotLost`) and `CountsKept` (`Spec => []CountKept`), under
`StepsAssumption` and `FiniteAssumption`, for every number of slots, entries and
processes, whichever of them are mortal. `IInv` has these parts:

* `Types`, `Loops`: the variables as functions, and loop indices within the slots;
* `LockInv`: a living process in a locked section is the lock's holder, so two are
  never in one. What a dead holder left is what the others below must allow for;
* `EntryInv`: from being filled in until it is freed, the entry of a living consumer is
  its own. So nobody else drops its bits, neither a reaper nor a closing consumer;
* `RoleInv`: a living process with a Producer is the one the role is recorded for, so there
  is one at most. Slots may carry the pid of another living process, which handed the role back;
* `PickInv`: what a producer has picked is, until it is marked, free or committed
  without bits, and from then on WRITING. That a commit leaves it so is why `Mark` can
  be a plain store long after `Choose`;
* `SlotInv`: a committed slot holds its own publication; a slot in WRITING that nobody
  living works on carries the pid of somebody dead, or none, or was marked by a
  producer killed before it stored its pid (`HalfMarked`). This is `NoSlotLost`
  seen from the slot, and the reason why pid 0 has to count as dead in `reap_dead`.
  A producer that works on a slot it has stamped leaves its own pid there, so handing
  the role back, which happens between publications, leaves no slot in WRITING;
* `LeaseInv`: a lease's slot is committed, with its sequence and the consumer's bit.
  It is kept because the producer's stores go to slots that are marked or
  bitless, and the bit is dropped by nobody else.

`CountInv`, on top of `IInv`, is stronger than `CountKept`: it knows that a living process
before `CountUp` has not been counted yet, which bounds the count from above too.

`StepsDeliveryProofs.tla` proves what consumers are given, and told of: `IsMulticast`
(`Spec => ImplementsMulticast`) and `NoWakeUpLost` (`Spec => []SleepersWoken`), from
`StepsAssumption` alone and with no further hypothesis. Here the difficulty is `next_raw`: it
takes the best of what separate loads have shown, while slots are recycled and committed behind
it and ahead of it. Sequences are compared by place again, and `Coming` is the place of the
publication that is made next: whoever is stopped before COMMITTED, everything older has been
made or never will be. On top of `IInv`, `DeliveryInv` says:

* `PlaceInv`: committed slots have different places below `Coming`, and a living producer at
  work on a numbered slot has given it the newest. So whatever is committed during a scan
  is newer than anything the scan can have read (`DeliverableStep`);
* `BitInv`: no bit is left over, neither of an inactive entry nor in a slot that is being
  prepared. So a consumer that registers owes nothing to what was there before;
* `StageInv`: consumers are where consumers can be, and the dead take no steps;
* `LastInv`: what a consumer holds is behind its `last_sequence`, and what is being made for it
  is ahead;
* `ScanInv`: why scanning twice is enough. What a pass has found may have gone, and an
  older publication may have been committed in a slot the pass had already left. But from
  then on nothing older than what was found can appear any more (its place was below `Coming`),
  so the next pass, which goes through all slots, either meets it or there is none: in that
  pass every older deliverable slot that has been passed is covered by what was found. When two
  passes agree, nothing deliverable is older than the candidate (`CompareScan`), and if
  `read_validated` accepts it, it is the one that is due (`TakeDelivers`).

With it the refinement goes step by step (`MulticastStep`). For everybody else a publication is
begun by the store of its reader bits (`AddressBegins`) and made by that of COMMITTED
(`CommitPublishes`); a consumer is there from the store that activates its entry
(`ActivateJoins`) until it takes the lock to close (`CloseLeaves`); loads, sweeps and the
remaining stores are not seen (`RestUnseen`). A producer killed in between gives the
publication up (`KillGivesUp`).

No wake-up is lost, by `WakeInv`, which is about one consumer between loading the publish word and
sleeping on it. As long as it has not been told (`Told`: its word has changed, or a producer
is about to change it) nothing was committed since it loaded the word, so its first pass misses
nothing (`Unaware`), what it has found is either there or not yet made (`Unmade`; the sequence of a
slot that is being rewritten may be read under the mask of its next publication), and if what
it found cannot be taken then nothing can (`NothingThere`). It therefore begins to wait beside
nothing, or is told. `MakerInv` supplies that a bit is in a committed slot or in the
one being made (`BitMeaning`), which holds only while the producers live: hence the premise of
`SleepersWoken`. Where it fails, the 5 ms bound of the wait is what remains.

### RingLifecycle and Layout

`LifecycleProofs.tla` proves the four invariants of the run (`TypeCorrect`,
`GeometryLearned`, `NameUsable`, `NothingLeft`) for every number of calls, objects and
geometries under `LifecycleAssumption` (the geometries asked for make sense, as
`RingLayout::new` demands). Its invariant follows each object through its creator:
how far that call has come says how much of the header is stored, how long the object
is and whether the name may still refer to it (`Owners`, `Contents`, `Named`); a handle
that is open has seen the fourth store, hence the creator's geometry (`Learned`).

It also proves of the layout arithmetic, for every slot count and capacity,
that a payload ends before any later slot begins and before the mapping ends
(`SlotsDisjoint`), that the registry's entries overlap neither each other nor the first slot
(`RegistryApart`), and that headers and payloads are aligned to 64 bytes (`SlotsAligned`).
The lifecycle proof uses the first to show that an accepted header stays inside the mapping.

### ReferenceRing

`ReferenceProofs.tla` proves `TypeCorrect`, `ViewsKept` (`Spec => []ViewsUndisturbed`),
`CountsCover` (`Spec => []ReadersCounted`) and the refinement `IsMulticast` for every number of consumers and slots,
under the hypothesis `CommitsAdvance`: a publication is not cut off between the store of
COMMITTED and that of the next sequence. Section 4 shows why it is needed. The
invariant says that committed slots have different sequences, below the next one
(`SeqInv`); that arrays are over leases and leases to what their slot holds
(`LeaseInv`); and that G_CONSUMERS, and the count of a slot being filled, cover the open
consumers and beyond them only some that left (`CountInv`). `ReadersCounted` is inductive
with these: a slot whose count is 0 has no reader (`UncountedUnread`), so recycling it
disturbs no lease; a release takes one reader out of the set and one off the count.
From the same invariant follows `IsMulticast` (`Spec => ImplementsMulticast`), again
step by step: what is committed has the newest sequence by `SeqInv`, and a slot whose count
is 0 is neither due to anybody nor held. What a killed consumer leaves behind keeps its slots
counted for ever, which the promise allows: it only forbids to use a slot too early.

### The live path

`LivePathProofs.tla` proves `ViewsKept` (`LiveSpec => []ViewsUndisturbed`), `PublishedKept`
(`PublishedFrozen`), `OwnReleaseOnly` (`OnlyReadersLetGo`) and `FramesWhole` (`WholeFrames`)
for every number of processes, consumers, writers, slots and epochs, under the
assumptions of TensorRing, `BridgeAssumption`, `PyWritersAssumption` and
`LiveAssumption`: fewer than half the counter's range of sequences are assigned, so
that none comes round again (at 2^64 none does). All but `PublishedKept` have the hypothesis
`NoStaleReleaseRaces`: no slot is recycled between the two accesses of a stale lease's release.
Without it a reader's bit can be cleared by somebody else (section 4), and then nothing
protects its slot.

A step of the live path does to the ring what a step of TensorRing does (`RingActs`), except
that it may close a Consumer with leases out, and that the late release of a stale lease
clears a bit; `CloseKeeps` shows that TensorRing's invariant survives the first. The second
can hurt only what depends on bits. The invariant adds:

* `Views`, `Arrays`: an array is over a lease that has not been released, or over the slot of
  a writer that is still at work. This is what the export counts are for;
* `Numbers`: slots in use have different sequences, below the next one;
* `Frames`: a filled writer's slot holds its sequence, and the bridge commits filled
  slots only.

So far (`CoreInv`) there is no hypothesis, and `PublishedKept` follows. Under
`NoStaleReleaseRaces`, `LiveIInv` adds TensorRing's `LeaseInv` and

* `StaleInv`: the publication of a stale lease is over (`Past`). No writer will have its
  sequence again, because only the newest reservation hands its sequence back and a
  committed one is below it; and if the slot still has it, the bit is gone already, because
  `close` took it;
* `LateInv`: a release that found its publication in place still would. With `StaleInv` it
  clears nothing, whoever has the index by then. Nothing else in the code compares
  generations of an index.

Its second part proves the other three properties of `live_path`: `LiveTypes`
(`LiveTypeOK`), `StreamContiguous` (`LiveSpec => []TraceContiguous`) and `AudienceReached`
(`LiveSpec => []EpochsReachAudience`). They have the hypothesis `NoClaimDuringDrop`, which the
GIL and the bridge's single thread provide, and the last one both. Sequences are compared through their place, the
number of sequences assigned before them, which does not wrap. The invariant says further:

* `RoleHeld`, `OneEpoch`: whoever is at work on a slot has a Producer, and the bridge has one
  from its start to its end. So while it streams nobody else reserves or hands back
  (`OthersLeave`), and of its own two writers one is at work at a time;
* `Trace`: the next sequence is the one after the last epoch recorded, or after the epoch at
  hand. A failed epoch hands its sequence back, so the next one continues from there;
* `LastInv`: no consumer is further than the next sequence, and what it holds is behind
  its `last_sequence`. As none comes round, the code's comparison is the order of the places
  (`NewerByOrder`), also for the point just before the first sequence at which a consumer of a
  new ring subscribes (`OrderOfSubscribePoint`);
* `Addressed`, `Reached`: the consumers counted when the stream began are readers of the epoch
  at hand; each recorded one they have not passed is in a committed slot with their bit.
  Reservations spare such a slot, and sweeps the bits of the living (`SlotStays`).

### Only model-checked

Every invariant and action property that a passing run checks is stated by a theorem, and so
are the three refinements of Multicast. What stays with TLC is liveness, since fairness and `ENABLED` are
outside what the prover handles; and where a theorem has hypotheses (above), what the
runs without them show.

## 6. What is left

In the order in which it would add most:

1. Several mappings of a ring in one process, each with its own count of handles.
2. The accesses of `SlotWriter::commit` and `abort` one at a time, as RingSteps has those of
   `publish`.
3. The reclaim word with its wait, and threads of one interpreter that wait for the GIL.

### Not modelled

* Weak memory. Accesses are sequentially consistent everywhere; that the code's acquire
  and release orderings suffice is not examined.
* Counters for `stats` (published, dropped, heartbeats) and S_READERS: nothing is
  decided by them.
* Deadlines as times. Giving up is a choice that is there whenever the code
  could make it.
* dtype, shape, strides, timestamps, epoch numbers: data to the protocol. The field
  offsets of the header are asserted at compile time and by golden bytes.
* Reading `/proc/<pid>/stat`. A zombie is dead, and a token identifies a process, as the
  code assumes.
* The argument handling of the bindings, who waits for the GIL, callers that write to a leased
  array, `next` on a closed Consumer.
* In the reference ring: unlinking, attaching, threads that share a ring object and with it one
  file lock, and `protocol.py`, which is the layout again.
* `tenzorbus-lab`, demos, benchmarks, the live lab, the scripts and patches: they drive the
  API above and keep no protocol state.
