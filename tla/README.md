# TLA+ models of libvsync

libvsync is a header-only C library of synchronisation primitives and
concurrent data structures (`include/vsync/`) on top of vatomic, a library of
atomic operations in C and in assembly (`vatomic/include/vsync/atomic/`).
This directory models the algorithms and the atomic operations in TLA+,
model-checks them with TLC, and proves with TLAPS, for any number of threads, the
safety of most of the locks and the order in which the fair ones serve, and the safety of the
reader-writer and sequence locks, the blocking primitives, the reclamation and the exchanger.
Everything is translated from the headers; paths below are
relative to `include/vsync/`, those of vatomic to `vatomic/include/vsync/`.

## The system

| Part | State | Operations | Who calls it |
|---|---|---|---|
| `spinlock/` plain locks (tas, ticket, array, clh, mcs, hem, twa, cna, hclh, hmcs) | a word or a queue of nodes | acquire, tryacquire, release, has_waiters | clients; the list sets and trees through `utils/abstract_lock.h`; the recursive locks |
| `spinlock/` rwlock, semaphore, seqlock, seqcount | counters | acquire and release, for readers and writers | clients; simpleht uses the rwlock, the rwlock a semaphore |
| `thread/` mutexes, condition variable, once | a futex word | acquire, release, wait, signal, call | clients; the condition variable uses a mutex |
| `queue/` | rings, linked lists, blocks | enqueue, dequeue | clients; the unbounded ones retire nodes to `smr/` |
| `stack/`, `utils/exchanger.h` | a list, slots to meet in | push, pop, exchange | clients |
| `map/` | sorted lists, a hash table, trees, a skip list | add, remove, get | clients; nodes are retired to `smr/` |
| `smr/` | the epoch, the threads' epochs, three lists | enter, exit, retire, recycle, sync | clients of queues, stacks and maps |
| `pool/`, `bitmap/` | a cached free list, bits | get, put, set, clear | clients |
| vatomic | one word | a function for each operation, type and memory order, in assembly for three ARM variants, as compiler builtins, and as fallbacks over other functions | everything |

What makes this code hard is the interleaving of its atomic accesses: values
read in one step and used in a later one, nodes that are recycled while others
still look at them, counters that wrap, helpers that repeat what was already
done, sleeping threads and the one wake-up they must not miss.  `PROJECT.json`
lists these hazards at their lines with the properties that watch them.

## How the code is modelled

* **One atomic access is one step.**  Every function is split at its
  `vatomic_*` calls into actions named `<function>_<access>`; what lies between
  two accesses only touches locals and belongs to the step before or after.
  `Control` has the program counter.  Non-atomic accesses to shared data (the
  entries of a ring, `next` of a stack node, the count of a recursive lock, the
  words under a seqlock) are steps of their own where another thread could see
  them.  Locals that are dead are reset, so that they do not multiply states.
  Where two accesses can be merged without losing a behaviour that matters (the read
  and the cmpxchg of `twalock_tryacquire`, operations under a lock that is held
  throughout), the module says so.
* **Await primitives are guards.**  `vatomic32_await_eq` is an action that is
  enabled when the condition holds; under weak fairness it is the spinning loop.
* **Two levels.**  Above vatomic, the models are sequentially consistent: barriers and the
  weaker memory orders (`_rlx`, `_acq`, `_rel`) of the calls are left out, an interleaving
  model has no place for them.  The headers were checked under weak memory with other
  tools; these models add what bounded litmus clients do not reach: wrapping counters,
  liveness, refinement, arbitrary sequences of calls.  Below, the modules `VAtomic*` justify that
  an atomic operation is one step, and check that its instructions keep the order its name
  promises, on a processor that reorders.
* **Counters wrap.**  32-bit and 8-bit counters are numbers modulo a small
  constant (`M`, `Wrap`, `TailMod`), large enough for the threads and small
  enough to wrap within a run.
* **Data is abstract.**  Values are model values, a node is its name, a
  destructor callback is the set of freed nodes.
* **Futex**: `vfutex_wait` compares and sleeps in one step, may return for no
  reason, and `vfutex_wake` picks any sleeper (external; module `Futex`).  An error other than
  EAGAIN ends the program (`thread/internal/futex.h:68-71`); the model has no such errors, so
  it assumes that no signal handler interrupts the wait (EINTR).
* **Reclamation of queue nodes.**  `UnboundedQueueLF` has its SMR scheme as an abstraction,
  taken from the way the tests call the queue (`test/include/test/queue/ub/queue_interface.h`): a
  retired node is freed when every critical section that was open at that time has ended, and may
  then be enqueued again.  That `smr/ebr.h` keeps this promise is what `SafeReclamation` says.

## Modules

| Module | Models |
|---|---|
| `Control` | program counters, and the monitor for linearizability: the set of all linearizations of the calls so far |
| `Mutex`, `FifoLock` | abstract specifications: exclusion with progress of somebody; exclusion with first come, first served and progress of everybody; `Safety` is each without the progress |
| `TicketLock` | `spinlock/ticketlock.h`, with proofs |
| `CounterLocks`: `TWALock`, `ArrayLock` | the fair locks that count, with proofs |
| `QueueLocks`: `CLHLock`, `MCSLock` | the fair locks that queue nodes, with proofs |
| `WordLocks`: `HemLock`, `RecursiveLock` | locks whose threads can have several at a time, with proofs: `hemlock.h`, the template of `utils/recursive_lock.h` over the abstract `Mutex`; `WordLocks` itself has `caslock.h` and `ttaslock.h` |
| `CNALock`, `HCLHLock`, `HMCSLock`, `HMCSTree` | locks that hand over by NUMA node; the tree `hmcslock_init` lays out |
| `ThreadSync`: `Futex`, `FutexMutex`, `MuslMutex`, `VCond` | `thread/`, with proofs; `ThreadSync` itself has `once.h`, `FutexMutex` has `slim.h` and `tristate.h`, and `VCond` extends it: the condition variable with the mutex it releases |
| `SharedLocks`: `Semaphore` | `semaphore.h`, and `rwlock.h`, which uses its operations; `seqlock.h` and `seqcount.h`; with proofs |
| `BoundedRing`, `BoundedMPMC`, `ChaseLev`, `BBQ` | bounded queues: `BoundedRing` has `bounded_spsc.h` and `bounded_locked.h`, `BBQ` both block-based ones |
| `UnboundedQueueLF`, `UnboundedQueue` | linked queues: `unbounded_queue_lf.h` and `unbounded_queue_lf_recycle.h`; `unbounded_queue_total.h` and `mpsc.h` |
| `PrioHeap` | `queue/vqueue_prio_heap_based.h` |
| `Exchanger` | `utils/exchanger.h`, with proofs |
| `EliminationStack`, `Quack` | `stack/`; the elimination stack extends `Exchanger`, and xbo_stack is the one without exchangers |
| `ListSetLocked`, `ListSetLF`, `SkipList`, `SimpleHT` | `map/`; `ListSetLocked` has the four list sets that use locks |
| `TreeSet` | the four search trees: red-black or plain, one lock or a lock per node |
| `EBR` | `smr/ebr.h` with clients that hold references; with proofs |
| `VAtomic` | what vatomic promises of values: a call takes effect in one step |
| `VAtomicARM` | the bodies of vatomic: `arm64*.h` (llsc, lse, lxe), `arm32_v7.h`, `arm32_v8.h` |
| `VAtomicGeneric` | `builtins.h`, `fallback.h` and the remapping `remap_*_sc.h` |
| `VAtomicMachine` | the processor that runs them, and the programs it runs |
| `MCLocks`, `MCStructures` | the roots of the runs |

State and actions keep the names of the source; the map in `PROJECT.json` gives
the lines of every definition.  Each algorithm module has `Init`, one action
per access, `Next`, `Spec`, a type invariant and its own properties.

**Linearizability** is checked with a monitor.  `conf` is the set of pairs of
a state of the sequential object and, for each thread, a call that is pending,
or has taken effect with a result.  `Invoke` adds a call, `Return` keeps the configurations
in which the call can have taken effect with the result that the code returns.  `conf = {}`
means that no order of the calls explains their results.  `Abort` forgets an
attempt that returns without a claim (such as "busy").  Where the code promises less than the
sequential object, the monitor allows just that:

* `FULL` of bounded_mpmc and of the heap drops the configurations in which a place is free, where a
  place also counts as taken by an enqueue or add that has begun (`Taken`), and for bounded_mpmc by a
  dequeue that has its value but has not returned.
* bbq is organised in blocks: an enqueue may fail (`MayFail`) when the entries, with those of enqueues
  that have begun, reach into every block, or while a dequeue has entries it has not finished
  copying.  A dequeue of bbq_mpmc that meets another call may report an empty queue (a consumer that
  stalls before it advances `ridx` makes others look at a block that is used up); one that
  runs alone, and every one of bbq_spsc, is exact.
* `vqueue_ub_empty` of unbounded_queue_lf is exact in a critical section.  Outside of one it is "subject
  to ABA problems, might return empty when the queue is not empty" (`unbounded_queue_lf.h:265`),
  and so is that of recycle: "empty" may be wrong, "not empty" is exact.  The runs do reach such a
  wrong answer.
* The length of unbounded_queue_lf may be too large, that of mpsc too small.
* An add to listset_lf may fail (see *Findings*); one to simpleht returns "full" only if
  no slot is empty.

**Steps under locks.**  In `TreeSet`, `PrioHeap` and `ListSetLocked` a step acquires a lock
and goes on to the next acquire.  That is sound when nobody else looks at what
the step changes: `LocksProtect` checks it for the trees, whose code lets go of
locks early and takes them in several orders.

**vatomic.**  A function is a record: its signature (operation, compare, what is
awaited and returned), its type, its memory order, and its body, a sequence of
instructions (load, store, the exclusive forms, single read-modify-write instructions,
barriers, `sevl`, `wfe`) with tests and jumps.  The sets `ARM64`, `ARM32v7`, `ARM32v8`,
`Builtins`, `Fallback` and `RemappedSC` hold every function of these headers, built by
operators that stand for the patterns the generator of the headers uses;
`PROJECT.json` maps each pattern to its instances.  `VAtomicMachine` executes the
function under test between two other calls.  Instructions of later calls overtake earlier ones
unless a barrier, acquire, release or unresolved branch forbids it; a
store-exclusive fails when another thread has written in between, and `MaxFails` times for
no reason.  The semantics of the instructions are those of the verifier the repository
keeps beside the headers (`vatomic/verify/armv8/library.bpl`), the required
order that of `vmm/vmm.cat`.

**Families and roots.**  A root module stands for many algorithms, the way the tests of the
library build one client for every lock.  Initially `algo` names one algorithm, which
never changes, and the variables of that algorithm are the words `w1`,
`w2`, ... through `INSTANCE ... WITH`; the words it does not use stay 0.  A
property of a root is the conjunction of the properties of its members.  A run
over a root thus is the union of independent runs over its members.  The algorithms that
have proofs come in families (`CounterLocks`, `QueueLocks`, `WordLocks`, `SharedLocks`,
`ThreadSync`), each with its own selector and variables; `MCLocks` extends the families, and
`MCStructures` extends `EBR` and `Exchanger`, so that the invariants of the runs are the very
definitions the theorems are about.

## Runs

| Run | What it asks | Distinct states |
|---|---|---|
| `ticketlock` | three threads, acquire and tryacquire, counters modulo 4: exclusion, tickets without gaps, exact has_waiters, refinement of `FifoLock` | 1 256 |
| `locks` | twa, array, clh and mcs lock, three or four threads: hand-over structures, has_waiters, refinement of `FifoLock`; semaphore, rwlock, seqlock, seqcount, condition variable, once: safety and what must return | 123 thousand |
| `mutexes` | cas, ttas, hem (both variants, two nested locks), recursive, cna, hmcs lock, and the three futex mutexes: refinement of `Mutex`, no lost wake-up, no starvation where the lock is fair | 31 thousand |
| `queues_numa` | bounded_spsc, the deque, the block-based queues, unbounded_queue_total and mpsc: linearizable, counters in order, no free node touched; the search trees: linearizable, ordered, balanced, deadlock-free, every change under its lock; hclh of two clusters, cna with 2 + 2 threads, hmcs of three levels, the layout of every tree of up to three levels: safety | 1.0 million |
| `stacks_smr` | bounded_mpmc, bounded_locked, unbounded_queue_lf and its recycling variant, elimination stack with one and two exchangers, xbo stack, quack, the exchanger alone: linearizable, counters and both ends of the queues in order; the reclamation: nothing in use is freed | 696 thousand |
| `sets` | the five list sets, the skip list with up to three levels, simpleht and the heap: linearizable, structure intact, retired once | 970 thousand |
| `progress` | bounded_mpmc and mpsc when all threads run; unbounded_queue_lf and listset_lf although the other thread stops anywhere; the reclaimer although readers come and go; two cluster masters of hclh, one of which gets in | 100 thousand |
| `vatomic` | every function of every implementation: atomic with the promised value (refinement of `VAtomic`), in the promised order, and it returns | 302 thousand |
| `vatomic_await_eq`, `ebr_two_reclaimers`, `listset_lf_add`, `simpleht_full` | expected violations, see *Findings* | |

Every property of a passing run is exercised by at least one mutant: an operator
next to the original, marked `mutation`, that changes the code the way a
plausible bug would, and that TLC refutes.

### Bounds

Three threads are the least with which a third overtakes two that are in the
middle of a hand-over; locks whose state is small have four.  Two NUMA nodes,
clusters and leaves give every mixture of local and remote.  Counters wrap
within every run.  Rings have two or three places, so that they are
full, empty and wrapped; blocks (`BBQ`) are used for a second and third round, with three
producers, or with two consumers, one of which leaves `ridx` more than a round behind.  Sets have
two keys, so that every insertion and removal has a neighbour; the keys of
simpleht collide and run around the end of the table, one place of which
stays empty.  Two keys on two levels, or one on three, make every pair of a link and a
mark of the skip list meet; four keys in a tree with two threads make rotations meet, and seven
with one thread reach every case of the removal from a red-black tree.  The heap
has four places for three threads and eight for two.  Stamps of the recycling
queue stay below `MaxStamp`, far from the 7 bits they have.  All nodes of the two lock-free queues
come back (`Freed`), those of unbounded_queue_lf with three threads and two nodes, and with two
threads and three; only `progress`, where nobody may enqueue for ever, lets them go.  Epochs of `EBR` go around the three lists.
`MaxEnq`, `MaxPush`, `Copies`, `MaxEpoch` and `MaxNest` bound the calls with
which a structure would otherwise grow for ever.  Symmetry is used in the runs
with invariants only, over threads and values that no action tells apart.  (One of the three
threads reclaims in `EBR`; the functions on reclaimers have it as their domain, so no state
is taken for one in which it has changed places with a client.)

The words of vatomic are scaled: 8 bits are one bit, 16 and 32 are two, 64 bits, sizes and
pointers four, and each half of a 64-bit value on 32-bit ARM two, so that the values of a run
wrap, carry, borrow, match and differ.  Other threads write the location at most twice, which covers a
write between any two accesses and a value that comes back.

### Fairness

Weak fairness on the steps of a thread that is inside a call or a critical
section: threads are scheduled, spinning threads see the value they wait for, and
critical sections end.  Nobody is obliged to make a call.  Strong fairness only
says that a client which can nest further (hemlock, recursive lock, EBR)
leaves in the end.  In `progress` only one thread of the
lock-free structures is fair: this is what lock-freedom promises, with finitely
many adds.  For hclhlock, all threads are fair and the property is that
some waiting thread gets in; a single master may be overtaken for ever.  In `vatomic` the
processor keeps executing and the other threads complete their writes.  cas and ttas lock, the futex mutexes and the recursive lock refine
`Mutex`, in which somebody gets in; the others serve everybody.

Deadlock is checked in every run.

## Proofs

The proofs hold for every value of the constants under the assumptions given; the
modules are the ones that TLC checks.  `[]P` stands for a theorem `Spec => []P`, with the `Spec`
of the module; every `P` in the table is a property of a run, as it is defined there.

| Module | Theorem | States | Assumes |
|---|---|---|---|
| `TicketLock` | `TicketLockType` | `[]TypeOK` | `ThreadsFit`: finitely many threads, fewer than `M` |
| | `TicketLockSafety` | `[]MutualExclusion` | also `~WrapDuringTry` |
| | `TicketLockTickets` | `[]TicketsConsecutive` | also `~WrapDuringTry` |
| | `TicketLockHasWaiters` | `[]HasWaitersExact` | also `~WrapDuringTry` |
| | `TicketLockRefinesFifoLock` | `Fifo!Safety` | also `~WrapDuringTry` |
| `CounterLocks` | `CounterLocksHandOver` | `[]HandOverIntact` | `CounterParameters`: finitely many threads, fewer than the counters of the twalock have values and not more than the arraylock has flags, which divide the range of its tail |
| | `TWALockRefinesFifoLock` | `Fifo!Safety` | the same |
| | `ArrayLockRefinesFifoLock` | `Fifo!Safety` | the same |
| `QueueLocks` | `QueueLocksNodes` | `[]NodesIntact` | `QueueParameters`: finitely many threads, `Nil` is none of them |
| | `MCSLockRefinesMutex` | `Mutual!Safety` | the same |
| | `CLHLockRefinesMutex` | `Mutual!Safety` | the same |
| | `MCSLockRefinesFifoLock` | `Fifo!Safety` | the same |
| | `CLHLockRefinesFifoLock` | `Fifo!Safety` | the same |
| `WordLocks` | `WordLocksGrantIntact` | `[]GrantIntact` | `WordParameters`: the locks of a hemlock client are numbers, the depth is positive, `Nobody` is no thread and no lock |
| | `HemLockRefinesMutex` | `Mutual!Safety`, with and without `HEMLOCK_USE_CTR` | the same |
| | `RecursiveLockRefinesMutex` | `Mutual!Safety` | the same |
| | `CASLockRefinesMutex` | `CASMutual!Safety` | the same |
| `SharedLocks` | `SharedLocksWriterAlone` | `[]WriterAlone` | `SharedParameters`: finitely many threads, a positive number of shares |
| | `SharedLocksResources` | `[]ResourcesAccounted` | the same |
| | `SeqLockSnapshot` | `[]AcceptedSnapshot` | `SeqParameters`: an even modulus, no writer is a reader |
| `ThreadSync` | `ThreadSyncNoLostWakeup` | `[]NoLostWakeup` | `SyncParameters`: finitely many threads, of which fewer signal than the value of the condition variable has values |
| | `ThreadSyncNoMissedSignal` | `[]NoMissedSignal` | the same |
| | `ThreadSyncOnceOnly` | `[]OnceOnly` | the same |
| | `FutexMutexRefinesMutex` | `Mutual!Safety` | the same |
| | `MuslMutexRefinesMutex` | `Mutual!Safety` | the same |
| `EBR` | `EBRSafeReclamation` | `[]SafeReclamation` | `EBRParameters`: reclaimers are threads, `Nil` is no node; `OneReclaimer`, see *Findings* |
| `Exchanger` | `ExchangerAtomic` | `[]AtomicExchange` | nothing |

But for `TypeOK`, none of these properties is inductive.  What the invariants add to the types:

* **Ticketlock** (`IInv`).  `OutstandingInv`: the outstanding tickets lie between `owner`
  and `next`, no two are the same, and there are as many as the counters are apart; without
  the count a wrapped `next` could hand out a ticket that is still outstanding.
  `ServedInv`: whoever is inside has the ticket `owner`.  `TryInv`: `owner` is still between
  the value that a pending tryacquire has read and `next`, so its cmpxchg finds the lock
  free.  This needs that the counters do not go once around during one tryacquire
  (`~WrapDuringTry`, kept with the ghost `ahead`): fewer than 2^32 acquisitions between
  its two accesses.  For the refinement the queue of `FifoLock` is the holders of the
  tickets from `owner` on; an increment of `next` appends to it, one of `owner` takes
  its head.
* **TWA lock** (`TWAInv`).  `TicketInv` is the same accounting of tickets.  `PatienceInv`: how often
  a word of the waiting array has changed since a thread read it, plus the notifications under
  way, plus the threads in front, is less than the number of threads.  So the word cannot wrap
  to the value the thread compares it with, and the waiter is woken although others share its word.
* **Array lock** (`ArrayInv`).  There is a slot that is being served; the threads have the
  slots from there on, the next free one is that of the tail, and this flag alone is raised.
* **CLH lock**.  `CLHInv`: every node is owned by one thread, but for one that is nobody's,
  and only that one can be found lowered by a waiter.  `QueueInv`: there is a
  rank of the threads that grows along the queue and whose last one is `tail`.
* **MCS lock** (`MCSInv`).  `LinkInv` relates `next`, `locked` and the program counters; a rank
  orders the queue.  That the rank only has to exist avoids counting.
* **The order of service** (`Fifo!Safety` of the four).  `IsQueue(q)` says that `q` lists the threads
  from the first to be served to the last: by ticket, by slot, or along the nodes.  `HasQueue`
  is inductive together with the invariants above, which give that there is one such `q`
  (`OneQueue`); so the queue of the refinement mapping is a value of the state.
  Then a step of the code appends to it, takes its head off, or leaves it alone.  For the MCS lock the
  list goes through the links that are yet to be written, for the CLH lock through nodes
  that change their owners meanwhile.
* **Hemlock** (`HemInv`).  `LabelInv`: what the one grant word of a thread holds at each place in
  the code, whichever of its locks it is busy with.  `LineInv(m)`: one thread has the lock `m` or is
  handing it over, everybody else in its line waits for another one in it, no two for the
  same, and nobody for the tail.  A rank that grows along the line says that it has no circle:
  without it a release that finds itself at the tail could leave waiters behind (`HemAlone`).
* **Recursive lock** (`RecInv`).  The owner word names the thread that has entered, and the count is
  how often it has entered again; between the lock underneath and the owner word nobody owns it.
* **CAS and TTAS lock** (`CASInv`), **futex mutexes** (`MutexInv`, `MuslInv`).  The word is 0
  exactly while nobody is inside; asleep are only threads at one place in the code, which for
  musl have counted themselves.  `NoLostWakeup` is inductive relative to these.
* **Condition variable** (`CondInv`).  `RoleInv`: who may be asleep.  `SignalInv`: the value
  counts the signals, and a consumer that has read the value and still finds it will
  sleep only on items whose signal is to come.  The value must not wrap within a wait.
* **Once** (`OnceInv`).  A thread is chosen by the cmpxchg, and only that one is past it.
* **Semaphore** (`SemInv`).  A pending cmpxchg expects as many resources as it takes, and
  nobody asks while it has some.  The accounting is a sum over the threads: what the fold of
  the library computes is derived from its recursion, by induction over finite sets
  (`TotalExists`, `TotalOfUpdate`).
* **rwlock**.  `ShareInv`: a writer has all the resources, and while there is none the readers
  have what the semaphore lacks.  `BitInv`: one thread at most has the writer bit, and it
  is set while there is one.
* **Seqlock and seqcount** (`SeqInv`).  `WriterInv`: one writer, while the sequence is odd.
  `DataInv`: what the words hold at each step of the writer.  `ReaderInv`: the sequence is
  `since` past what the reader started from, and while that is 0 it has read that version.
  The model itself keeps the sequence from going once around within one read.
* **Reclamation** (`EBRInv`).  `HomeInv`: there is a map from the nodes to their places that all
  variables agree with.  `ReaderInv`: who holds a reference is registered and has announced an
  epoch.  `EpochInv`: one reclaimer alone moves the global epoch, so what it has read is still
  so.  `RetiredInv`: a held node that was retired was so no earlier than in the epoch that
  the holder announced.  So the list the reclaimer takes, two epochs back, has only
  holders it waits for.  With two reclaimers `EpochInv` fails, and so does the theorem.
* **Exchanger** (`XInv`).  `SlotInv`: a slot is empty unless it has a waiter, has one at most,
  and what it holds is what `Held` says of that waiter.  `ThreadInv`: who has been given what at
  each place in the code.  The ghost `given` is written by the cmpxchg with which a thread
  takes the waiter's object, for both of them.

A family's invariant (`CounterInv`, `QueuesInv`, `WordInv`, `SharedInv`, `SyncInv`) is that of the object
that was chosen.  The induction theorems of the library cannot be instantiated here; where data
needs induction, the proofs take a least counterexample from a well-founded order (`WFMin`).

Only model-checked: the other algorithms (cna, hclh and hmcs lock; the queues, stacks, sets,
trees and the heap; vatomic); every liveness property, and the progress of the refinements above
(fairness and `ENABLED` are beyond the prover); linearizability, whose monitor is a set of sets of
pending calls computed by recursion.  The bodies of vatomic are finitely many programs with small
scaled words, which TLC runs exhaustively.

## Findings

Runs with an expected violation, where the code does not do what its
documentation says:

* `ebr_two_reclaimers` (`smr/ebr.h:283`): two threads in `vebr_recycle` free a
  node that a client holds.
* `listset_lf_add` (`map/listset_lf.h:325`): `vlistset_add` returns false for a
  key that is absent, after unlinking a marked node at the end of the list.  The
  passing run allows an add to fail (`Lenient`).
* `vatomic_await_eq` (vatomic, `atomic/internal/fallback.h:4379`): `await_eq` returns the
  last value before the awaited one; the arm64 version returns the awaited one.
* `simpleht_full` (`map/simpleht.h:538`): in a full table the cleanup starts in
  the middle of a bucket, and an entry is lost.

Limits that the models make explicit: tryacquire of
the ticketlock after a full turn of the counter; arraylocks with more than 256
slots; `rwlock_acquired_by_readers` when all resources are taken; the unbounded
overtaking of a cluster master of hclhlock; ring sizes that do not divide 2^32;
`FULL` from bounded_mpmc while a dequeue is in progress, and "empty" from
bbq_mpmc while another call is; the assertion `head <= tail` on raw counters in bounded_locked
(lines 115 and 144), which is false between the wrap of `tail` and that of `head`, and which the model
leaves out; `vqueue_ub_empty` outside of a critical section; the length reported by unbounded_queue_lf; batches of 2^17 entries in bbq_mpmc;
`vsimpleht_get` of an absent key in a full table; `length` of mpsc, which does not count
behind a node that is not linked yet; an add to the heap that reports it full while
places are held by unfinished adds; the last place of the heap, with which the downward
percolation never compares (`HeapIntact` leaves it out).

A comment that disagrees with the code, found while translating: `stack/quack.h:93` says of
`quack_is_empty` "true if there is an element in quack, false otherwise"; the function returns
`head == NULL`, as its name says.  The model follows the code, and `Linearizable` shows that the
answer is exact.

In `vatomic`, the read of a function that returns nothing is not visible and not ordered, a
single read-modify-write instruction reads and writes in one step, little-endian pairs
(`VATOMIC_LI_ENDIAN`) are assumed, and the two calls around the function under test are
straight-line.

## Not modelled

* Weak memory above vatomic; `remap_*_rlx.h`, whose purpose is to weaken the orders;
  `x86.h`, which has only a pause instruction and otherwise uses the builtins.
* cachedq (batches of variable size), cached_pool, bitmap, hashtable_standard (each operation
  is one of the set in its bucket).
* The stack- and skiplist-based priority queues.  The stack-based ones search the
  priorities in order without looking back, so a remove_min can miss a smaller element that was
  added behind it: they are not linearizable by design.
* Of unbounded_queue_lf_recycle, get_length, which walks nodes that are enqueued again
  meanwhile; of skiplist_lf, lookup_next, get_succ, get_first and remove_node;
  of simpleht, the iterator.
* destroy and visit functions, which the caller runs alone; allocation, debug output,
  tests and the futex mocks.

`PROJECT.json` gives the status of each part.

## Further work

Compositions: unbounded_queue_lf with `EBR` itself in place of the abstract scheme; a
recursive lock over the ticketlock; two buckets of hashtable_standard.  Components: cached_pool
over bounded_mpmc, cachedq, bitmap.  Proofs: exclusion for the NUMA locks (cna, hclh, hmcs), and the
linearization points of the rings.
